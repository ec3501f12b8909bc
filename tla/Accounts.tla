------------------------------ MODULE Accounts ------------------------------
(***************************************************************************)
(* The database of users and rpc keys, and everything that changes it: the *)
(* endpoints of frontend/users.rs and frontend/admin.rs, and the commands  *)
(* of the CLI.  A handler is a sequence of queries, most of them outside   *)
(* of a transaction, so handlers interleave between any two; many read     *)
(* from a replica, which lags behind.  A handler ends early when its       *)
(* client is gone, a query fails or the command is killed.                 *)
(*                                                                         *)
(* Processes run scripts of operations.  What the code draws at random (a  *)
(* nonce, a bearer token, a secret key) is the number of the operation     *)
(* that draws it, so a script can name it.                                 *)
(***************************************************************************)
EXTENDS Semaphores

CONSTANTS
    Scenarios,      \* bound: scripts, what the import directory holds, what else may happen
    Database,       \* the tables at the start
    BearerMax       \* bearer_token_max_concurrent_requests

VARIABLES
    scenario,
    db,             \* user, rpc_key: sequences, by id; user_tier: by title;
                    \* login, pending_login, admin, admin_trail: sets of rows
    replica,        \* an earlier value of db
    redis,          \* user ids by bearer token
    job,            \* per process: the operation, the step and what it knows
    drops           \* bound: how many operations may still end early

tables == <<db, replica, redis>>
sems == <<semaphores, cached>>
accountsVars == <<scenario, tables, job, drops>>

Procs == DOMAIN job
Ready == [pc |-> "start", sem |-> 0, user |-> 0, row |-> <<>>]

InitAccounts ==
    /\ scenario \in Scenarios
    /\ db = Database /\ replica = Database /\ redis = <<>>
    /\ job = [p \in DOMAIN scenario.scripts |-> [at |-> 1] @@ Ready]
    /\ drops = scenario.drops

Op(p) == scenario.scripts[p][job[p].at]
Id(p) == 10 * p + job[p].at
At(p, op, pc) == job[p].at <= Len(scenario.scripts[p]) /\ job[p].pc = pc /\ Op(p).op = op

Goto(p, pc, user, row) == job' = [job EXCEPT ![p] = [@ EXCEPT !.pc = pc, !.user = user, !.row = row]]

\* The handler returns, and drops the bearer token's permit if it has one.
Reply(p) ==
    /\ job' = [job EXCEPT ![p] = [at |-> @.at + 1] @@ Ready]
    /\ Leave(p, job[p].sem) /\ UNCHANGED cached

-----------------------------------------------------------------------------
(* The tables.                                                             *)

\* The unique keys of the columns user.address and rpc_key.secret_key.
AddressFree(d, address) == \A u \in DOMAIN d.user : d.user[u].address # address
SecretFree(d, secret) == \A k \in DOMAIN d.rpc_key : d.rpc_key[k].secret # secret

NewUser(address) == [address |-> address, tier |-> "free", email |-> 0]
NewKey(user, secret) == [user_id |-> user, secret |-> secret, active |-> TRUE, origin |-> 0]

WithUser(d, u) == [d EXCEPT !.user = Append(@, u)]
WithKey(d, k) == [d EXCEPT !.rpc_key = Append(@, k)]
UserAt(d, address) == {u \in DOMAIN d.user : d.user[u].address = address}
KeyWith(d, secret) == {k \in DOMAIN d.rpc_key : d.rpc_key[k].secret = secret}
WithoutExpiredLogins(d) == [d EXCEPT !.login = {l \in @ : ~l.expired}]
WithoutExpiredPending(d) == [d EXCEPT !.pending_login = {l \in @ : ~l.expired}]
WithoutLoginsOf(d, user) == [d EXCEPT !.login = {l \in @ : l.user_id # user}]

Replicate ==
    /\ replica # db /\ replica' = db
    /\ UNCHANGED <<scenario, db, redis, job, drops, sems>>

\* Weeks pass: every login and pending login is past its expires_at, and what redis
\* kept for a day is gone.
Expire ==
    /\ scenario.expire /\ \E l \in db.login \cup db.pending_login : ~l.expired
    /\ LET Past(d) == [d EXCEPT !.login = {[l EXCEPT !.expired = TRUE] : l \in @},
                                !.pending_login = {[l EXCEPT !.expired = TRUE] : l \in @}] IN
       db' = Past(db) /\ replica' = Past(replica) /\ redis' = <<>>
    /\ UNCHANGED <<scenario, job, drops, sems>>

-----------------------------------------------------------------------------
(* Logging in.                                                             *)

PendingLogin(p, address, user) == [nonce |-> Id(p), address |-> address, imitating_user |-> user, expired |-> FALSE]

\* user_login_get: refused by the rate limit, or the message to sign is saved.
UserLoginGet(p) ==
    /\ At(p, "user_login_get", "start") /\ Reply(p)
    /\ \/ UNCHANGED db
       \/ db' = [db EXCEPT !.pending_login = @ \cup {PendingLogin(p, Op(p).address, 0)}]
    /\ UNCHANGED <<scenario, replica, redis, drops>>

\* The start of user_login_post and of admin_login_post: the nonce must be known
\* to the replica and the signature must be good.
FindPending(p, op) ==
    /\ At(p, op, "start")
    /\ LET found == {r \in replica.pending_login : r.nonce = Op(p).nonce} IN
       \/ /\ Reply(p) /\ UNCHANGED db                   \* rate limited, or a bad message
       \/ /\ found # {} /\ ~Op(p).sig
          /\ db' = WithoutExpiredPending(db) /\ Reply(p)
       \/ /\ Op(p).sig
          /\ \E r \in found : Goto(p, "pending", 0, <<r>>)
          /\ UNCHANGED <<db, sems>>
    /\ UNCHANGED <<scenario, replica, redis, drops>>

UserFindPending(p) == FindPending(p, "user_login_post")
AdminFindPending(p) == FindPending(p, "admin_login_post")

\* The user of the signed address; without one, a new user needs the invite code.
FindUser(p) ==
    /\ At(p, "user_login_post", "pending")
    /\ LET row == job[p].row
           found == UserAt(replica, row[1].address) IN
       \/ \E u \in found : Goto(p, "save", u, row) /\ UNCHANGED sems
       \/ found = {} /\ Op(p).invite /\ Goto(p, "register", 0, row) /\ UNCHANGED sems
       \/ found = {} /\ ~Op(p).invite /\ Reply(p)
    /\ UNCHANGED <<scenario, tables, drops>>

\* Mutant of Register: two statements, and the handler may end between them.
RegisterInTwo(p) ==
    /\ At(p, "user_login_post", "register")
    /\ LET address == job[p].row[1].address
           known == UserAt(db, address) IN
       \/ /\ known = {} /\ db' = WithUser(db, NewUser(address))
          /\ UNCHANGED <<job, sems>>
       \/ \E u \in known :
          /\ db' = WithKey(db, NewKey(u, Id(p)))
          /\ Goto(p, "save", u, job[p].row) /\ UNCHANGED sems
    /\ UNCHANGED <<scenario, replica, redis, drops>>

\* One transaction inserts the user and a first key.
Register(p) ==
    /\ At(p, "user_login_post", "register")
    /\ LET address == job[p].row[1].address
           id == Len(db.user) + 1 IN
       \/ /\ AddressFree(db, address)
          /\ db' = WithKey(WithUser(db, NewUser(address)), NewKey(id, Id(p)))
          /\ Goto(p, "save", id, job[p].row) /\ UNCHANGED sems
       \/ /\ ~AddressFree(db, address)
          /\ Reply(p) /\ UNCHANGED db
    /\ UNCHANGED <<scenario, replica, redis, drops>>

\* The bearer token is saved ...
SaveLogin(p) ==
    /\ At(p, "user_login_post", "save")
    /\ db' = [db EXCEPT !.login = @ \cup {[token |-> Id(p), user_id |-> job[p].user, expired |-> FALSE, read_only |-> FALSE]}]
    /\ Goto(p, "forget", job[p].user, job[p].row)
    /\ UNCHANGED <<scenario, replica, redis, drops, sems>>

\* ... and then the nonce is deleted; this is shared with admin_login_post.
DeletePending(p) ==
    /\ At(p, "user_login_post", "forget") \/ At(p, "admin_login_post", "forget")
    /\ db' = [db EXCEPT !.pending_login = {r \in @ : r.nonce # Op(p).nonce}]
    /\ Reply(p)
    /\ UNCHANGED <<scenario, replica, redis, drops>>

\* user_logout_post and admin_logout_post: the token is deleted, or that fails, which
\* is only logged; then expired logins are (the second and third delete are the same).
Forget(p, op) ==
    \/ /\ At(p, op, "start")
       /\ \/ db' = [db EXCEPT !.login = {l \in @ : l.token # Op(p).token}] /\ UNCHANGED drops
          \/ drops > 0 /\ drops' = drops - 1 /\ UNCHANGED db
       /\ Goto(p, "expired", 0, <<>>)
       /\ UNCHANGED <<scenario, replica, redis, sems>>
    \/ /\ At(p, op, "expired")
       /\ db' = WithoutExpiredLogins(db) /\ Reply(p)
       /\ UNCHANGED <<scenario, replica, redis, drops>>

UserLogout(p) == Forget(p, "user_logout")
AdminLogout(p) == Forget(p, "admin_logout")

-----------------------------------------------------------------------------
(* Logging in as another user, with a trail of it.                         *)

\* admin_login_get, its reads: both users must exist.
AdminLoginGet(p) ==
    /\ At(p, "admin_login_get", "start")
    /\ LET user == UserAt(replica, Op(p).user)
           admin == UserAt(replica, Op(p).admin) IN
       \/ \E u \in user, a \in admin : Goto(p, "trail", u, <<a>>) /\ UNCHANGED sems
       \/ Reply(p)                                   \* rate limited, or not found
    /\ UNCHANGED <<scenario, tables, drops>>

Trail(caller, user, endpoint) == [caller |-> caller, imitating_user |-> user, endpoint |-> endpoint]

AdminGetTrail(p) ==
    /\ At(p, "admin_login_get", "trail")
    /\ db' = [db EXCEPT !.admin_trail = @ \cup {Trail(job[p].row[1], job[p].user, "get")}]
    /\ Goto(p, "pend", job[p].user, <<>>)
    /\ UNCHANGED <<scenario, replica, redis, drops, sems>>

AdminGetPending(p) ==
    /\ At(p, "admin_login_get", "pend")
    /\ db' = [db EXCEPT !.pending_login = @ \cup {PendingLogin(p, Op(p).admin, job[p].user)}]
    /\ Reply(p)
    /\ UNCHANGED <<scenario, replica, redis, drops>>

\* admin_login_post: the pending login must name a user to imitate, and the signer
\* must still exist; the trail is saved.
AdminPostTrail(p) ==
    /\ At(p, "admin_login_post", "pending")
    /\ LET row == job[p].row[1]
           admin == UserAt(replica, row.address) IN
       \/ /\ row.imitating_user \in DOMAIN replica.user
          /\ \E a \in admin : db' = [db EXCEPT !.admin_trail = @ \cup {Trail(a, row.imitating_user, "post")}]
          /\ Goto(p, "save", row.imitating_user, job[p].row) /\ UNCHANGED sems
       \/ /\ admin = {} \/ row.imitating_user \notin DOMAIN replica.user
          /\ Reply(p) /\ UNCHANGED db
    /\ UNCHANGED <<scenario, replica, redis, drops>>

\* A read-only login of the imitated user.
AdminSaveLogin(p) ==
    /\ At(p, "admin_login_post", "save")
    /\ db' = [db EXCEPT !.login = @ \cup {[token |-> Id(p), user_id |-> job[p].user, expired |-> FALSE, read_only |-> TRUE]}]
    /\ Goto(p, "forget", job[p].user, job[p].row)
    /\ UNCHANGED <<scenario, replica, redis, drops, sems>>

-----------------------------------------------------------------------------
(* What a bearer token is good for.                                        *)

BearerOps == {"user_get", "user_post", "rpc_keys_management"}
LoginOf(d, token) == {l \in d.login : l.token = token}

\* bearer_is_authorized: a permit of the token's semaphore ...
BearerSemaphore(p) ==
    /\ \E op \in BearerOps : At(p, op, "start")
    /\ LET key == <<"bearer", Op(p).token>> IN
       /\ GetWith(key, BearerMax, p)
       /\ job' = [job EXCEPT ![p].pc = "line", ![p].sem = IdFor(key)]
    /\ UNCHANGED <<scenario, tables, drops>>

\* ... and then the user that the replica has for the token.
BearerIsAuthorized(p) ==
    /\ \E op \in BearerOps : At(p, op, "line")
    /\ Holds(p, job[p].sem)
    /\ \/ \E l \in LoginOf(replica, Op(p).token) : Goto(p, "bearer", l.user_id, <<>>) /\ UNCHANGED sems
       \/ LoginOf(replica, Op(p).token) = {} /\ Reply(p)
    /\ UNCHANGED <<scenario, tables, drops>>

\* user_get, rpc_keys_get and the like only read.
UserGet(p) ==
    /\ At(p, "user_get", "bearer") /\ Reply(p)
    /\ UNCHANGED <<scenario, tables, drops>>

\* user_post: the columns it sets are saved, here the email.
UserPost(p) ==
    /\ At(p, "user_post", "bearer") /\ Reply(p)
    /\ db' = [db EXCEPT !.user[job[p].user].email = Op(p).email]
    /\ UNCHANGED <<scenario, replica, redis, drops>>

\* rpc_keys_management: the key to change must belong to the user, in the replica;
\* without a key id this is about a new key.
FindKey(p) ==
    /\ At(p, "rpc_keys_management", "bearer")
    /\ LET k == Op(p).key_id IN
       \/ /\ k = 0 \/ (k \in DOMAIN replica.rpc_key /\ replica.rpc_key[k].user_id = job[p].user)
          /\ Goto(p, "save", job[p].user, IF k = 0 THEN <<>> ELSE <<replica.rpc_key[k]>>)
          /\ UNCHANGED sems
       \/ /\ k # 0 /\ (k \notin DOMAIN replica.rpc_key \/ replica.rpc_key[k].user_id # job[p].user)
          /\ Reply(p)
    /\ UNCHANGED <<scenario, tables, drops>>

\* Mutant of SaveKey: the whole row that was read is written back.
SaveRow(p) ==
    /\ At(p, "rpc_keys_management", "save") /\ Reply(p)
    /\ LET k == Op(p).key_id IN
       db' = IF k = 0 THEN WithKey(db, Op(p).set @@ NewKey(job[p].user, Id(p)))
             ELSE [db EXCEPT !.rpc_key[k] = Op(p).set @@ job[p].row[1]]
    /\ UNCHANGED <<scenario, replica, redis, drops>>

\* uk.save: an update writes the columns that were set and no other.
SaveKey(p) ==
    /\ At(p, "rpc_keys_management", "save") /\ Reply(p)
    /\ LET k == Op(p).key_id IN
       db' = IF k = 0 THEN WithKey(db, Op(p).set @@ NewKey(job[p].user, Id(p)))
             ELSE [db EXCEPT !.rpc_key[k] = Op(p).set @@ @]
    /\ UNCHANGED <<scenario, replica, redis, drops>>

-----------------------------------------------------------------------------
(* An admin changes the tier of a user: query_admin_modify_usertier.       *)

\* get_user_id_from_params: the token's user, from redis or else from the replica,
\* must be the user_id of the query; an expired login deletes all expired ones.
GetUserId(p) ==
    /\ At(p, "modify_role", "start")
    /\ LET token == Op(p).token
           hit == token \in DOMAIN redis
           rows == LoginOf(replica, token) IN
       \/ /\ ~hit /\ \E l \in rows : l.expired
          /\ db' = WithoutExpiredLogins(db) /\ Reply(p)
       \/ /\ IF hit THEN redis[token] = Op(p).user_id ELSE \E l \in rows : ~l.expired /\ l.user_id = Op(p).user_id
          /\ Goto(p, IF hit THEN "admin" ELSE "cache", Op(p).user_id, <<>>)
          /\ UNCHANGED <<db, sems>>
       \/ /\ IF hit THEN redis[token] # Op(p).user_id ELSE \A l \in rows : ~l.expired /\ l.user_id # Op(p).user_id
          /\ Reply(p) /\ UNCHANGED db
    /\ UNCHANGED <<scenario, replica, redis, drops>>

\* set_ex, whose failure is only a warning.
CacheUserId(p) ==
    /\ At(p, "modify_role", "cache")
    /\ redis' = (Op(p).token :> job[p].user) @@ redis
    /\ Goto(p, "admin", job[p].user, <<>>)
    /\ UNCHANGED <<scenario, db, replica, drops, sems>>

\* The caller must be an admin; the user and the tier must exist.
FindTarget(p) ==
    /\ At(p, "modify_role", "admin")
    /\ LET found == UserAt(db, Op(p).address)
           allowed == job[p].user \in db.admin /\ Op(p).tier \in DOMAIN db.user_tier IN
       \/ allowed /\ \E u \in found : Goto(p, "tier", u, <<>>) /\ UNCHANGED sems
       \/ (~allowed \/ found = {}) /\ Reply(p)
    /\ UNCHANGED <<scenario, tables, drops>>

SetTier(p) ==
    /\ At(p, "modify_role", "tier")
    /\ db' = [db EXCEPT !.user[job[p].user].tier = Op(p).tier]
    /\ Goto(p, "logins", job[p].user, <<>>)
    /\ UNCHANGED <<scenario, replica, redis, drops, sems>>

\* "Now delete all bearer tokens of this user", as change_user_admin_status does.
DeleteLogins(p) ==
    /\ At(p, "modify_role", "logins") \/ At(p, "change_admin_status", "logins")
    /\ db' = WithoutLoginsOf(db, job[p].user) /\ Reply(p)
    /\ UNCHANGED <<scenario, replica, redis, drops>>

-----------------------------------------------------------------------------
(* The commands of web3_proxy_cli.  They use no replica.                   *)

\* create_user: one transaction.
CreateUser(p) ==
    /\ At(p, "create_user", "start") /\ Reply(p)
    /\ LET o == Op(p)
           ok == AddressFree(db, o.address) /\ SecretFree(db, o.secret) IN
       db' = IF ok THEN WithKey(WithUser(db, NewUser(o.address)), NewKey(Len(db.user) + 1, o.secret)) ELSE db
    /\ UNCHANGED <<scenario, replica, redis, drops>>

\* The other commands first find what they are about ...
Target(o) ==
    CASE o.op \in {"create_key", "change_user_address", "change_admin_status"} -> UserAt(db, o.address)
      [] o.op = "change_user_tier_by_address" -> IF o.tier \in DOMAIN db.user_tier THEN UserAt(db, o.address) ELSE {}
      [] o.op = "change_user_tier_by_key" ->
            IF o.tier \in DOMAIN db.user_tier THEN {db.rpc_key[k].user_id : k \in KeyWith(db, o.secret)} ELSE {}
      [] o.op = "transfer_key" -> IF UserAt(db, o.address) # {} THEN KeyWith(db, o.secret) ELSE {}
      [] OTHER -> {}

CliOps == {"create_key", "change_user_address", "change_admin_status", "change_user_tier_by_address",
           "change_user_tier_by_key", "transfer_key"}

CliFind(p) ==
    /\ \E op \in CliOps : At(p, op, "start")
    /\ \/ /\ \E x \in Target(Op(p)) :
                Goto(p, "save", x, IF Op(p).op = "transfer_key" THEN SetToSeq(UserAt(db, Op(p).address)) ELSE <<>>)
          /\ UNCHANGED sems
       \/ Target(Op(p)) = {} /\ Reply(p)
    /\ UNCHANGED <<scenario, tables, drops>>

\* ... and then save it, here as the database after each command; a unique key may
\* refuse a save.
CreateKey(x, o) == IF SecretFree(db, o.secret) THEN WithKey(db, NewKey(x, o.secret)) ELSE db

ChangeUserAddress(x, o) ==
    IF AddressFree(db, o.new_address) THEN [db EXCEPT !.user[x].address = o.new_address] ELSE db

ChangeUserTierByAddress(x, o) == [db EXCEPT !.user[x].tier = o.tier]
ChangeUserTierByKey(x, o) == [db EXCEPT !.user[x].tier = o.tier]

\* The new owner is the one that was found.
TransferKey(x, o, owner) == [db EXCEPT !.rpc_key[x].user_id = owner]

\* The row of the admin is looked up by the address and not by the user's id, which
\* finds none: an admin stays one, and becoming one again is refused.
ChangeAdminStatus(x, o) ==
    IF o.should_be_admin /\ x \notin db.admin THEN [db EXCEPT !.admin = @ \cup {x}] ELSE db

CliSave(p) ==
    /\ \E op \in CliOps : At(p, op, "save")
    /\ LET o == Op(p)
           x == job[p].user IN
       db' = CASE o.op = "create_key" -> CreateKey(x, o)
               [] o.op = "change_user_address" -> ChangeUserAddress(x, o)
               [] o.op = "change_admin_status" -> ChangeAdminStatus(x, o)
               [] o.op = "transfer_key" -> TransferKey(x, o, job[p].row[1])
               [] o.op = "change_user_tier_by_address" -> ChangeUserTierByAddress(x, o)
               [] o.op = "change_user_tier_by_key" -> ChangeUserTierByKey(x, o)
    /\ IF db'.admin # db.admin THEN Goto(p, "logins", job[p].user, <<>>) /\ UNCHANGED sems ELSE Reply(p)
    /\ UNCHANGED <<scenario, replica, redis, drops>>

\* change_user_tier changes the limits of a tier.
ChangeTierLimits(p) ==
    /\ At(p, "change_user_tier", "start") /\ Reply(p)
    /\ db' = IF Op(p).tier \in DOMAIN db.user_tier THEN [db EXCEPT !.user_tier[Op(p).tier] = Op(p).concurrent] ELSE db
    /\ UNCHANGED <<scenario, replica, redis, drops>>

-----------------------------------------------------------------------------
(* user_import: the users of the files, then their keys, row by row and    *)
(* without a transaction.  job.row is user_map, job.user counts the keys.  *)

Files == scenario.import

\* An error ends the command, which is then run again.
Again(p) == job' = [job EXCEPT ![p] = [at |-> @.at] @@ Ready] /\ UNCHANGED sems

\* import_user_file: the next user exists already, or is about to be inserted.
ImportUser(p) ==
    /\ At(p, "user_import", "start") /\ Len(job[p].row) < Len(Files.users)
    /\ LET map == job[p].row
           found == UserAt(db, Files.users[Len(map) + 1].address) IN
       \/ \E u \in found : Goto(p, "start", 0, Append(map, u))
       \/ found = {} /\ Goto(p, "insert", 0, map)
    /\ UNCHANGED <<scenario, tables, drops, sems>>

\* Mutant of InsertUser: the id of the exporting database goes into the map.
InsertUserOldId(p) ==
    /\ At(p, "user_import", "insert")
    /\ LET map == job[p].row
           u == Files.users[Len(map) + 1] IN
       /\ AddressFree(db, u.address)
       /\ db' = WithUser(db, NewUser(u.address))
       /\ Goto(p, "start", 0, Append(map, u.id))
    /\ UNCHANGED <<scenario, replica, redis, drops, sems>>

InsertUser(p) ==
    /\ At(p, "user_import", "insert")
    /\ LET map == job[p].row
           address == Files.users[Len(map) + 1].address IN
       \/ /\ AddressFree(db, address) /\ db' = WithUser(db, NewUser(address))
          /\ Goto(p, "start", 0, Append(map, Len(db.user) + 1)) /\ UNCHANGED sems
       \/ /\ ~AddressFree(db, address) /\ Again(p) /\ UNCHANGED db
    /\ UNCHANGED <<scenario, replica, redis, drops>>

MappedId(p, k) == job[p].row[CHOOSE i \in DOMAIN Files.users : Files.users[i].id = k.user_id]

\* import_rpc_key_file: the next key exists already, as the mapped user's, or is about
\* to be inserted; a key of another user is an error.
ImportKey(p) ==
    /\ At(p, "user_import", "start") /\ Len(job[p].row) = Len(Files.users)
    /\ job[p].user < Len(Files.keys)
    /\ LET k == Files.keys[job[p].user + 1]
           found == KeyWith(db, k.secret) IN
       \/ found = {} /\ Goto(p, "insert_key", job[p].user, job[p].row) /\ UNCHANGED sems
       \/ \E x \in found : IF db.rpc_key[x].user_id = MappedId(p, k)
                            THEN Goto(p, "start", job[p].user + 1, job[p].row) /\ UNCHANGED sems
                            ELSE Again(p)
    /\ UNCHANGED <<scenario, tables, drops>>

InsertKey(p) ==
    /\ At(p, "user_import", "insert_key")
    /\ LET k == Files.keys[job[p].user + 1] IN
       \/ /\ SecretFree(db, k.secret) /\ db' = WithKey(db, NewKey(MappedId(p, k), k.secret))
          /\ Goto(p, "start", job[p].user + 1, job[p].row) /\ UNCHANGED sems
       \/ /\ ~SecretFree(db, k.secret) /\ Again(p) /\ UNCHANGED db
    /\ UNCHANGED <<scenario, replica, redis, drops>>

Imported(p) ==
    /\ At(p, "user_import", "start")
    /\ Len(job[p].row) = Len(Files.users) /\ job[p].user = Len(Files.keys)
    /\ Reply(p)
    /\ UNCHANGED <<scenario, tables, drops>>

-----------------------------------------------------------------------------

\* The client is gone, a query failed, the command was killed: what the operation has
\* not done yet is not done.
Drop(p) ==
    /\ drops > 0 /\ drops' = drops - 1
    /\ job[p].at <= Len(scenario.scripts[p]) /\ (job[p].pc # "start" \/ job[p].row # <<>>)
    /\ IF Op(p).op = "user_import" THEN Again(p) ELSE Reply(p)
    /\ UNCHANGED <<scenario, tables>>

Step(p) ==
    \/ UserLoginGet(p) \/ UserFindPending(p) \/ FindUser(p) \/ Register(p) \/ SaveLogin(p) \/ DeletePending(p)
    \/ UserLogout(p) \/ AdminLogout(p)
    \/ AdminLoginGet(p) \/ AdminGetTrail(p) \/ AdminGetPending(p)
    \/ AdminFindPending(p) \/ AdminPostTrail(p) \/ AdminSaveLogin(p)
    \/ BearerSemaphore(p) \/ BearerIsAuthorized(p) \/ UserGet(p) \/ UserPost(p) \/ FindKey(p) \/ SaveKey(p)
    \/ GetUserId(p) \/ CacheUserId(p) \/ FindTarget(p) \/ SetTier(p) \/ DeleteLogins(p)
    \/ CreateUser(p) \/ CliFind(p) \/ CliSave(p) \/ ChangeTierLimits(p)
    \/ ImportUser(p) \/ InsertUser(p) \/ ImportKey(p) \/ InsertKey(p) \/ Imported(p)

AccountsNext == Replicate \/ Expire \/ \E p \in Procs : Step(p) \/ Drop(p)

-----------------------------------------------------------------------------
(* Properties.                                                             *)

\* However logins, commands and an import of the same address interleave, no two rows
\* of the table user have one address: each handler looks first and inserts later, so
\* only the unique key is in the way (users.rs user_login_post, user_import.rs).
OneUserPerAddress ==
    \A u, v \in DOMAIN db.user : db.user[u].address = db.user[v].address => u = v

\* Every user that was not imported came with an rpc key, and keys only change hands:
\* there are never more such users than such keys, wherever a handler is dropped
\* (the transactions of user_login_post and create_user).
UsersComeWithKeys ==
    LET addresses == {Files.users[i].address : i \in DOMAIN Files.users}
        secrets == {Files.keys[i].secret : i \in DOMAIN Files.keys} IN
    Cardinality({u \in DOMAIN db.user : db.user[u].address \notin addresses})
        <= Cardinality({k \in DOMAIN db.rpc_key : db.rpc_key[k].secret \notin secrets})

\* An admin's login as another user is on the trail before its bearer token works
\* (admin_login_post saves the trail before the login).
ImitationsOnTrail ==
    \A l \in db.login : l.read_only =>
        \E t \in db.admin_trail : t.imitating_user = l.user_id /\ t.endpoint = "post"

\* Two changes of one key do not undo each other: a step that changes a column of an
\* rpc key is a save that was asked to set this column to this value, or a transfer
\* (rpc_keys_management reads a row, from the replica, long before it saves).
ChangesAsAsked ==
    [][\A k \in DOMAIN db.rpc_key : \A c \in DOMAIN db.rpc_key[k] :
         db'.rpc_key[k][c] # db.rpc_key[k][c] =>
           \E p \in Procs : \/ /\ At(p, "rpc_keys_management", "save") /\ Op(p).key_id = k
                               /\ c \in DOMAIN Op(p).set /\ Op(p).set[c] = db'.rpc_key[k][c]
                            \/ c = "user_id" /\ At(p, "transfer_key", "save")]_<<db, job>>

\* An import that is repeated until it succeeds brings every key to the user that has
\* its owner's address, although each run may stop anywhere and a login may create the
\* same user at the same time (user_import.rs).
ImportSucceeds ==
    <>[](\A i \in DOMAIN Files.keys : \E k \in KeyWith(db, Files.keys[i].secret) :
           LET u == CHOOSE u \in DOMAIN Files.users : Files.users[u].id = Files.keys[i].user_id IN
           db.user[db.rpc_key[k].user_id].address = Files.users[u].address)
=============================================================================
