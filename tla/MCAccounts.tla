----------------------------- MODULE MCAccounts -----------------------------
(***************************************************************************)
(* Scenarios for Admission: who asks, and what happens to the accounts in  *)
(* the meantime.                                                           *)
(***************************************************************************)
EXTENDS Admission

MCDatabase ==
    [user |-> <<[address |-> "a", tier |-> "free", email |-> 0], [address |-> "b", tier |-> "free", email |-> 0]>>,
     rpc_key |-> <<[user_id |-> 1, secret |-> 1, active |-> TRUE, origin |-> 0],
                   [user_id |-> 2, secret |-> 2, active |-> TRUE, origin |-> 0]>>,
     user_tier |-> [free |-> 1, premium |-> 2, unlimited |-> -1],
     login |-> {[token |-> 5, user_id |-> 1, expired |-> FALSE, read_only |-> FALSE],
                [token |-> 6, user_id |-> 2, expired |-> FALSE, read_only |-> FALSE]},
     pending_login |-> {}, admin |-> {2}, admin_trail |-> {}]

NoFiles == [users |-> <<>>, keys |-> <<>>]
Scenario == [scripts |-> <<>>, clients |-> <<>>, import |-> NoFiles, drops |-> 0, expire |-> FALSE]

Keyed(s) == [secret |-> s, mode |-> "best", origin |-> 3]
Fastest(s) == [Keyed(s) EXCEPT !.mode = "fastest"]
ByIp == Keyed(0)

LoginGet(a) == [op |-> "user_login_get", address |-> a]
LoginPost(n, sig) == [op |-> "user_login_post", nonce |-> n, sig |-> sig, invite |-> TRUE]
Uninvited(n) == [op |-> "user_login_post", nonce |-> n, sig |-> TRUE, invite |-> FALSE]
AdminPost(n, sig) == [op |-> "admin_login_post", nonce |-> n, sig |-> sig]
SetKey(token, k, set) == [op |-> "rpc_keys_management", token |-> token, key_id |-> k, set |-> set]
LogoutOf(token) == [op |-> "user_logout", token |-> token]
Get(token) == [op |-> "user_get", token |-> token]
Email(token, e) == [op |-> "user_post", token |-> token, email |-> e]
Role(token, u, a, t) == [op |-> "modify_role", token |-> token, user_id |-> u, address |-> a, tier |-> t]

\* Requests of one user whose tier allows one, or of one ip address, which has one permit.
OneUser == [Scenario EXCEPT !.clients = [c \in 11..13 |-> Keyed(1)]]
OneUserLeaves == [Scenario EXCEPT !.clients = (11 :> Keyed(1)) @@ (12 :> Fastest(1)), !.drops = 1]
OneIp == [Scenario EXCEPT !.clients = [c \in 11..13 |-> ByIp]]

\* A key gets an origin and is turned off while it is used.
KeyTurnedOff == [Scenario EXCEPT !.clients = (11 :> Keyed(1)),
    !.scripts = <<<<SetKey(5, 1, [origin |-> 4]), SetKey(5, 1, [active |-> FALSE])>>>>]

\* Two clients with one token change one key.
TwoChanges == [Scenario EXCEPT !.scripts = <<<<SetKey(5, 1, [active |-> FALSE]), SetKey(5, 1, [active |-> TRUE])>>,
    <<SetKey(5, 1, [origin |-> 4]), SetKey(5, 2, [origin |-> 4])>>>>, !.drops = 1]

\* A key is asked for before it exists; then its user's tier changes.
KeyMadeLater == [Scenario EXCEPT !.clients = (11 :> Keyed(21)),
    !.scripts = <<<<[op |-> "change_user_tier", tier |-> "free", concurrent |-> 2]>>,
        <<[op |-> "create_key", address |-> "a", secret |-> 21],
          [op |-> "change_user_tier_by_key", secret |-> 21, tier |-> "unlimited"]>>>>]

\* Two clients log in with one new address.
TwoRegister == [Scenario EXCEPT !.scripts = <<<<LoginGet("c"), LoginPost(11, TRUE)>>,
    <<LoginGet("c"), Uninvited(21), LoginPost(21, TRUE)>>>>, !.drops = 1]

\* The same message posted twice; a token that is used, and forgotten.
LoginLogout == [Scenario EXCEPT !.scripts = <<<<LoginGet("a"), LoginPost(11, TRUE), Get(12), SetKey(12, 0, [origin |-> 4])>>,
    <<LoginPost(11, FALSE), LogoutOf(12), AdminPost(11, TRUE)>>>>, !.expire = TRUE]
LogoutFails == [Scenario EXCEPT !.scripts = <<<<LogoutOf(5)>>, <<Email(5, 1)>>>>, !.expire = TRUE, !.drops = 1]

\* An admin logs in as a user whose tier another admin changes.
Admins == [Scenario EXCEPT !.scripts = <<<<[op |-> "admin_login_get", admin |-> "b", user |-> "a"],
      AdminPost(11, FALSE), AdminPost(11, TRUE), Email(13, 1), [op |-> "admin_logout", token |-> 13]>>,
    <<Role(6, 1, "a", "premium"), Role(6, 2, "a", "premium"), Role(5, 1, "a", "free")>>>>, !.expire = TRUE]

\* An import, while one of its users logs in, or while its key has another owner.
Files2 == [users |-> <<[id |-> 2, address |-> "d"], [id |-> 1, address |-> "a"]>>,
           keys |-> <<[user_id |-> 2, secret |-> 91], [user_id |-> 1, secret |-> 1]>>]
Import == [Scenario EXCEPT !.scripts = <<<<[op |-> "user_import"]>>, <<LoginGet("d"), LoginPost(21, TRUE),
    [op |-> "create_key", address |-> "d", secret |-> 91]>>>>, !.import = Files2, !.drops = 2]
ImportTaken == [Scenario EXCEPT !.scripts = <<<<[op |-> "user_import"]>>,
    <<[op |-> "create_key", address |-> "a", secret |-> 91], [op |-> "create_user", address |-> "d", secret |-> 22],
      [op |-> "transfer_key", secret |-> 91, address |-> "d"]>>>>, !.import = Files2]

\* Commands against a login that registers.
Commands == [Scenario EXCEPT !.scripts = <<<<[op |-> "change_user_address", address |-> "a", new_address |-> "c"],
      [op |-> "transfer_key", secret |-> 1, address |-> "b"],
      [op |-> "change_user_tier_by_address", address |-> "b", tier |-> "premium"]>>,
    <<[op |-> "create_user", address |-> "c", secret |-> 21], SetKey(5, 1, [active |-> FALSE]),
      [op |-> "change_admin_status", address |-> "a", should_be_admin |-> TRUE]>>>>, !.drops = 1]

MCScenarios == {OneUser, OneUserLeaves, OneIp, KeyTurnedOff, TwoChanges, KeyMadeLater, TwoRegister, LoginLogout, LogoutFails, Admins, Import, ImportTaken, Commands}
=============================================================================
