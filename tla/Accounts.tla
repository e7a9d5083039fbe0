-------------------------------- MODULE Accounts --------------------------------
(***************************************************************************)
(* Registration, login, refresh and logout (auth/service.py, router.py).   *)
(*                                                                         *)
(* Every request is one READ COMMITTED transaction: it reads, decides, and *)
(* commits what it decided, and other requests commit in between.  A user  *)
(* row and a refresh token are named by the request that inserted them, a  *)
(* family of tokens by the login that began it.                            *)
(***************************************************************************)
EXTENDS Naturals, FiniteSets

CONSTANTS
  Client,      \* requests that may be made, each once
  Email,
  TokenTTL,    \* jwt_refresh_ttl_seconds, in ticks of the clock
  MaxAuthTime, \* bound of the clock
  NoToken

ASSUME AccountConstants == TokenTTL \in Nat /\ MaxAuthTime \in Nat /\ NoToken \notin Client

VARIABLES
  users,     \* users[q]: the e-mail of the user row that q inserted
  tokens,    \* tokens[q]: the refresh token that q issued
  call,      \* call[q]: what request q has read and will write
  ended,     \* history: families somebody logged out of
  authClock

authVars == <<users, tokens, call, ended, authClock>>

Token == [family : Client, parent : Client \cup {NoToken}, expires : Nat, revoked : BOOLEAN,
          late : BOOLEAN,          \* history: it escaped a logout of its family that was under way
          before : SUBSET Client]  \* history: the family when the refresh that issued it read its parent

Call == [pc : {"new", "registering", "rotating", "revoking", "done"}, email : Email \cup {NoToken},
         token : Client \cup {NoToken}, at : Nat,
         known : SUBSET Client,    \* the family when it read (of a refresh: history)
         targets : SUBSET Client]  \* what a logout will revoke of it

ASSUME NotAToken == NoToken \notin Token

AuthTypeOK ==
  /\ users \in [Client -> Email \cup {NoToken}]
  /\ tokens \in [Client -> Token \cup {NoToken}]
  /\ call \in [Client -> Call]
  /\ ended \subseteq Client
  /\ authClock \in 0..MaxAuthTime

NewCall == [pc |-> "new", email |-> NoToken, token |-> NoToken, at |-> 0, known |-> {}, targets |-> {}]

AuthInit ==
  /\ users = [q \in Client |-> NoToken]
  /\ tokens = [q \in Client |-> NoToken]
  /\ call = [q \in Client |-> NewCall]
  /\ ended = {}
  /\ authClock = 0

Issued == {q \in Client : tokens[q] # NoToken}
Live(t) == t \in Issued /\ ~tokens[t].revoked
FamilyOf(t) == {u \in Issued : tokens[u].family = tokens[t].family}

Calling(q, pc) == call[q].pc = pc
Ends(q) == call' = [call EXCEPT ![q] = [NewCall EXCEPT !.pc = "done"]]

--------------------------------------------------------------------------------
(* POST /register looks the e-mail up ... *)
Register(q, e) ==
  /\ Calling(q, "new")
  /\ \A u \in Client : users[u] # e
  /\ call' = [call EXCEPT ![q].pc = "registering", ![q].email = e]
  /\ UNCHANGED <<users, tokens, ended, authClock>>

(* Variant for the mutation checks: no unique index on the e-mail. *)
EmailFree_Unchecked(q) == call[q].email # NoToken

EmailFree(q) == \A u \in Client : users[u] # call[q].email

(* ... and inserts the user; UNIQUE (email) has the last word. *)
CommitRegister(q) ==
  /\ Calling(q, "registering")
  /\ EmailFree(q)
  /\ users' = [users EXCEPT ![q] = call[q].email]
  /\ Ends(q)
  /\ UNCHANGED <<tokens, ended, authClock>>

(* POST /login with the right password begins a family of tokens. *)
Login(q, e) ==
  /\ Calling(q, "new")
  /\ \E u \in Client : users[u] = e
  /\ tokens' = [tokens EXCEPT ![q] = [family |-> q, parent |-> NoToken, revoked |-> FALSE,
                                      expires |-> authClock + TokenTTL, late |-> FALSE, before |-> {}]]
  /\ Ends(q)
  /\ UNCHANGED <<users, ended, authClock>>

(* Variant for the mutation checks: a revoked token is accepted. *)
Redeemable_Revoked(t) == t \in Issued /\ tokens[t].expires >= authClock

Redeemable(t) == Live(t) /\ tokens[t].expires >= authClock

(* POST /refresh reads the token it was given and goes on if it is neither   *)
(* revoked nor expired.                                                      *)
Refresh(q, t) ==
  /\ Calling(q, "new")
  /\ Redeemable(t)
  /\ call' = [call EXCEPT ![q].pc = "rotating", ![q].token = t, ![q].at = authClock,
                            ![q].known = FamilyOf(t)]
  /\ UNCHANGED <<users, tokens, ended, authClock>>

(* A token that was revoked is presented again: the family is revoked, the   *)
(* request raises, and its transaction is rolled back with all it wrote.  (A *)
(* token that is unknown or has expired raises before anything is written.)  *)
RefreshReused(q, t) ==
  /\ Calling(q, "new")
  /\ t \in Issued /\ tokens[t].revoked
  /\ Ends(q)
  /\ UNCHANGED <<users, tokens, ended, authClock>>

Successor(q) ==
  LET parent == tokens[call[q].token]
  IN  [family |-> parent.family, parent |-> call[q].token, revoked |-> FALSE,
       expires |-> call[q].at + TokenTTL, late |-> parent.late \/ parent.family \in ended,
       before |-> call[q].known]

(* The token is revoked and its successor stored together. *)
Rotate(q) ==
  /\ Calling(q, "rotating")
  /\ tokens' = [tokens EXCEPT ![call[q].token].revoked = TRUE, ![q] = Successor(q)]
  /\ Ends(q)
  /\ UNCHANGED <<users, ended, authClock>>

(* Variant for the mutation checks: only the token presented is revoked. *)
LiveFamily_ItselfOnly(t) == {u \in {t} : Live(u)}

(* _revoke_family: the tokens of the family that are not revoked yet. *)
LiveFamily(t) == {u \in FamilyOf(t) : Live(u)}

(* POST /logout, with any token of the family, also a revoked or expired one. *)
Logout(q, t) ==
  /\ Calling(q, "new")
  /\ t \in Issued
  /\ call' = [call EXCEPT ![q].pc = "revoking", ![q].token = t, ![q].known = FamilyOf(t),
                            ![q].targets = LiveFamily(t)]
  /\ UNCHANGED <<users, tokens, ended, authClock>>

(* A token of the family that the logout has not seen is not revoked. *)
CommitLogout(q) ==
  /\ Calling(q, "revoking")
  /\ tokens' = [u \in Client |->
       CASE u \in call[q].targets -> [tokens[u] EXCEPT !.revoked = TRUE]
         [] u \in FamilyOf(call[q].token) \ call[q].known -> [tokens[u] EXCEPT !.late = TRUE]
         [] OTHER -> tokens[u]]
  /\ ended' = ended \cup {tokens[call[q].token].family}
  /\ Ends(q)
  /\ UNCHANGED <<users, authClock>>

(* The request fails, or its flush does, and nothing of it is kept. *)
CallFails(q) ==
  /\ call[q].pc \in {"registering", "rotating", "revoking"}
  /\ Ends(q)
  /\ UNCHANGED <<users, tokens, ended, authClock>>

AuthTick ==
  /\ authClock < MaxAuthTime
  /\ authClock' = authClock + 1
  /\ UNCHANGED <<users, tokens, call, ended>>

AuthNext ==
  \/ \E q \in Client, e \in Email : Register(q, e) \/ Login(q, e)
  \/ \E q, t \in Client : Refresh(q, t) \/ RefreshReused(q, t) \/ Logout(q, t)
  \/ \E q \in Client : CommitRegister(q) \/ Rotate(q) \/ CommitLogout(q) \/ CallFails(q)
  \/ AuthTick

AuthSpec == AuthInit /\ [][AuthNext]_authVars

--------------------------------------------------------------------------------
(* Of several registrations of one e-mail that all found it free, one is    *)
(* kept: an e-mail names one account.                                       *)
OneAccountPerEmail ==
  \A q, u \in Client : users[q] = users[u] /\ users[q] # NoToken => q = u

(* A family is one chain with one token that works at its end.  It has two   *)
(* only if two refreshes of one of its tokens overlapped, each of them        *)
(* having read before the other had issued its successor: a token that is     *)
(* presented once more after it was rotated never splits its family.          *)
Overlapped(a, b) == a \notin tokens[b].before /\ b \notin tokens[a].before

SplitOnlyByOverlap ==
  \A t, u \in Issued :
    Live(t) /\ Live(u) /\ t # u /\ tokens[t].family = tokens[u].family =>
      \E a, b \in FamilyOf(t) :
        /\ a # b /\ tokens[a].parent = tokens[b].parent /\ tokens[a].parent # NoToken
        /\ Overlapped(a, b)

(* After a logout with any token of a family, none of its tokens works, but *)
(* for one that a refresh under way at the same time was about to issue.    *)
LogoutEndsFamily ==
  \A t \in Issued : Live(t) /\ tokens[t].family \in ended => tokens[t].late
================================================================================
