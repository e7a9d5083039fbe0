---------------------------- MODULE Security_proofs ----------------------------
(***************************************************************************)
(* Proofs about who may do what and about what is kept: Accounts, Access,  *)
(* Privacy and Limits, each a component of its own and each for any values *)
(* of its constants.                                                       *)
(***************************************************************************)
EXTENDS Accounts, Access, Privacy, Limits, CommonLemmas


--------------------------------------------------------------------------------
(***************************************************************************)
(* Accounts, for any number of requests, e-mails and any clock.            *)
(*                                                                         *)
(* A request that is not done has issued nothing (Unspent); tokens hang in *)
(* trees by their parents, a token with a child is revoked (TreesGrow); a  *)
(* logout under way has seen every token it leaves alone revoked, and a    *)
(* refresh under way has seen no child of its token (ReadsHold). What a    *)
(* refresh had seen is no sibling of what it issued (NoneBefore), so two   *)
(* siblings come of refreshes that overlapped. That a family has one live  *)
(* token unless it was split needs more than the live ones: OneEnd speaks  *)
(* of every token without a child, revoked ones included, because an       *)
(* overlapping refresh may issue a successor to a token that a logout has  *)
(* revoked.                                                                *)
(***************************************************************************)

Unspent == \A q \in Client : call[q].pc # "done" => tokens[q] = NoToken

Done == {q \in Client : call[q].pc = "done"}

TreesGrow ==
  /\ ended \subseteq Done
  /\ \A u \in Issued : tokens[u].family \in Done
  /\ \A u \in Issued : tokens[u].parent # NoToken =>
       /\ tokens[u].parent \in Issued
       /\ tokens[tokens[u].parent].family = tokens[u].family
       /\ tokens[tokens[u].parent].revoked

ReadsHold ==
  \A q \in Client :
    /\ call[q].pc \in {"rotating", "revoking"} => call[q].token \in Issued
    /\ call[q].pc = "revoking" =>
         /\ call[q].targets \subseteq call[q].known /\ call[q].known \subseteq Issued
         /\ \A u \in call[q].known \ call[q].targets : tokens[u].revoked
    /\ call[q].pc = "rotating" =>
         /\ call[q].known \subseteq Issued
         /\ \A u \in call[q].known : tokens[u].parent # call[q].token

NoneBefore ==
  \A u \in Issued :
    /\ tokens[u].before \subseteq Issued
    /\ \A v \in tokens[u].before : tokens[v].parent # tokens[u].parent

Childless(u) == \A v \in Issued : tokens[v].parent # u

Siblings(a, b) == a # b /\ tokens[a].parent = tokens[b].parent /\ tokens[a].parent # NoToken

Split(t) == \E a, b \in FamilyOf(t) : Siblings(a, b)

OneEnd ==
  \A t, u \in Issued :
    tokens[t].family = tokens[u].family /\ t # u /\ Childless(t) /\ Childless(u) => Split(t)

AuthInv ==
  /\ AuthTypeOK /\ Unspent /\ TreesGrow /\ ReadsHold /\ NoneBefore /\ OneEnd
  /\ LogoutEndsFamily /\ OneAccountPerEmail

--------------------------------------------------------------------------------
(* With the ends of a family known, so are its live tokens; and siblings    *)
(* come of refreshes that overlapped.                                       *)
LEMMA EndsDecide ==
  ASSUME AuthInv
  PROVE  SplitOnlyByOverlap
<1> SUFFICES ASSUME NEW t \in Issued, NEW u \in Issued,
                    Live(t), Live(u), t # u, tokens[t].family = tokens[u].family
             PROVE  \E a, b \in FamilyOf(t) :
                      /\ a # b /\ tokens[a].parent = tokens[b].parent /\ tokens[a].parent # NoToken
                      /\ Overlapped(a, b)
  BY DEF SplitOnlyByOverlap
<1>0. t # NoToken /\ u # NoToken
  BY AccountConstants DEF Issued
<1>1. Childless(t) /\ Childless(u)
  BY <1>0 DEF AuthInv, TreesGrow, Childless, Live
<1>2. PICK a, b \in FamilyOf(t) : Siblings(a, b)
  BY <1>1 DEF AuthInv, OneEnd, Split
<1>3. Overlapped(a, b)
  BY <1>2 DEF AuthInv, NoneBefore, Overlapped, Siblings, FamilyOf
<1> QED
  BY <1>2, <1>3 DEF Siblings

(* Nothing has been issued at the start. *)
LEMMA AuthInitInv == AuthInit => AuthInv
BY AccountConstants
DEF AuthInit, AuthInv, AuthTypeOK, Unspent, TreesGrow, ReadsHold, NoneBefore, OneEnd,
    LogoutEndsFamily, OneAccountPerEmail, Issued, NewCall, Call

(* A request that reads or ends, and leaves users and tokens alone. *)
LEMMA OnlyCalls ==
  ASSUME AuthInv, NEW q \in Client, NEW c \in Call,
         call' = [call EXCEPT ![q] = c], UNCHANGED <<users, tokens, ended>>, authClock' \in 0..MaxAuthTime,
         call[q].pc # "done",
         c.pc \in {"rotating", "revoking"} => c.token \in Issued,
         c.pc = "revoking" => /\ c.targets \subseteq c.known /\ c.known \subseteq Issued
                              /\ \A u \in c.known \ c.targets : tokens[u].revoked,
         c.pc = "rotating" => /\ c.known \subseteq Issued
                              /\ \A u \in c.known : tokens[u].parent # c.token
  PROVE  AuthInv'
<1> USE DEF AuthInv
<1>0. \A r \in Client : call'[r] = IF r = q THEN c ELSE call[r]
  BY DEF AuthTypeOK
<1>1. AuthTypeOK'
  BY DEF AuthTypeOK
<1>2. Unspent'
  BY <1>0 DEF Unspent
<1>3. TreesGrow'
  BY <1>0 DEF TreesGrow, Done, Issued
<1>4. ReadsHold'
  BY <1>0 DEF ReadsHold, Issued
<1>5. NoneBefore' /\ OneEnd' /\ LogoutEndsFamily' /\ OneAccountPerEmail'
  BY DEF NoneBefore, OneEnd, LogoutEndsFamily, OneAccountPerEmail, Issued, Childless, Split, FamilyOf, Siblings, Live
<1> QED
  BY <1>1, <1>2, <1>3, <1>4, <1>5

(* A request that ends without having done anything. *)
LEMMA EndsInv ==
  ASSUME AuthInv, NEW q \in Client, call[q].pc # "done", Ends(q),
         UNCHANGED <<users, tokens, ended, authClock>>
  PROVE  AuthInv'
<1>1. [NewCall EXCEPT !.pc = "done"] \in Call /\ [NewCall EXCEPT !.pc = "done"].pc = "done"
  BY DEF NewCall, Call
<1> QED
  BY <1>1, OnlyCalls DEF Ends, AuthInv, AuthTypeOK

(* A registration commits: the e-mail is free. *)
LEMMA CommitRegisterInv ==
  ASSUME AuthInv, NEW q \in Client, CommitRegister(q)
  PROVE  AuthInv'
<1> DEFINE c == [NewCall EXCEPT !.pc = "done"]
<1>0. c \in Call /\ c.pc = "done" /\ call' = [call EXCEPT ![q] = c]
  BY DEF NewCall, Call, CommitRegister, Ends
<1>1. call[q].email \in Email \cup {NoToken} /\ call[q].pc = "registering"
  BY DEF CommitRegister, Calling, AuthInv, AuthTypeOK, Call
<1>2. AuthTypeOK'
  BY <1>0, <1>1 DEF CommitRegister, AuthInv, AuthTypeOK
<1>3. OneAccountPerEmail'
  BY <1>1 DEF CommitRegister, EmailFree, AuthInv, AuthTypeOK, OneAccountPerEmail
<1>4. Unspent' /\ TreesGrow' /\ ReadsHold'
  BY <1>0 DEF CommitRegister, AuthInv, AuthTypeOK, Unspent, TreesGrow, ReadsHold, Done, Issued
<1>5. NoneBefore' /\ OneEnd' /\ LogoutEndsFamily'
  BY DEF CommitRegister, AuthInv, NoneBefore, OneEnd, LogoutEndsFamily, Issued, Childless, Split, FamilyOf,
         Siblings, Live
<1> QED
  BY <1>2, <1>3, <1>4, <1>5 DEF AuthInv

Stores(q, new) ==
  tokens' = [u \in Client |-> IF u = q THEN new
                              ELSE IF u = new.parent THEN [tokens[u] EXCEPT !.revoked = TRUE]
                              ELSE tokens[u]]

(* A token is stored that did not exist: a login's, without a parent, or    *)
(* the successor of one that is revoked with it.                            *)
LEMMA IssueInv ==
  ASSUME AuthInv, NEW q \in Client, call[q].pc # "done", Ends(q),
         NEW new \in Token, ~new.revoked,
         Stores(q, new),
         UNCHANGED <<users, ended, authClock>>,
         new.parent = NoToken => new.family = q,
         new.parent # NoToken => /\ new.parent \in Issued
                                 /\ new.family = tokens[new.parent].family
                                 /\ new.family \in ended => new.late,
         new.before \subseteq Issued, \A v \in new.before : tokens[v].parent # new.parent
  PROVE  AuthInv'
<1> DEFINE c == [NewCall EXCEPT !.pc = "done"]
<1>0. c \in Call /\ c.pc = "done" /\ call' = [call EXCEPT ![q] = c]
  BY DEF NewCall, Call, Ends
<1>1. q \notin Issued /\ q \notin Done /\ q # NoToken
  BY AccountConstants DEF AuthInv, Unspent, Issued, Done
<1>2. \A u \in Client : call'[u] = IF u = q THEN c ELSE call[u]
  BY <1>0 DEF AuthInv, AuthTypeOK
<1>3. \A u \in Issued : tokens[u] \in Token
  BY DEF AuthInv, AuthTypeOK, Issued
<1>r. \A u \in Issued : [tokens[u] EXCEPT !.revoked = TRUE] \in Token
  BY <1>3 DEF Token
<1>4. Issued' = Issued \cup {q}
  <2>1. \A u \in Client \ Issued : tokens[u] = NoToken
    BY DEF Issued
  <2>2. new.parent \notin Client \ Issued
    BY AccountConstants DEF Token
  <2>3. \A u \in Client \ Issued : u # q => tokens'[u] = NoToken
    BY <2>1, <2>2 DEF Stores
  <2>4. tokens'[q] \in Token
    BY DEF Stores
  <2>5. \A u \in Issued : tokens'[u] \in Token
    BY <1>1, <1>3, <1>r DEF Stores, Issued
  <2> QED
    BY <2>3, <2>4, <2>5, NotAToken DEF Issued
<1>5. /\ tokens'[q] = new
      /\ \A u \in Issued : /\ tokens'[u] \in Token
                           /\ tokens'[u].family = tokens[u].family
                           /\ tokens'[u].parent = tokens[u].parent
                           /\ tokens'[u].late = tokens[u].late
                           /\ tokens'[u].before = tokens[u].before
                           /\ tokens[u].revoked => tokens'[u].revoked
                           /\ u = new.parent => tokens'[u].revoked
                           /\ ~tokens'[u].revoked => ~tokens[u].revoked
  BY <1>1, <1>3 DEF Token, Issued, Stores
<1>6. AuthTypeOK'
  <2>1. tokens' \in [Client -> Token \cup {NoToken}]
    <3>1. \A u \in Issued' : tokens'[u] \in Token
      BY <1>4, <1>5
    <3>2. \A u \in Client : tokens'[u] \in Token \cup {NoToken}
      BY <3>1 DEF Issued
    <3>3. tokens' = [u \in Client |-> tokens'[u]]
      BY DEF Stores
    <3> QED
      BY <3>2, <3>3
  <2> QED
    BY <1>0, <2>1 DEF AuthInv, AuthTypeOK
<1>7. Unspent'
  <2>1. \A r \in Client : call'[r].pc # "done" => r # q /\ call[r].pc # "done"
    BY <1>0, <1>2
  <2>2. \A r \in Client : call'[r].pc # "done" => r \notin Issued'
    BY <2>1, <1>4 DEF AuthInv, Unspent, Issued
  <2> QED
    BY <2>2 DEF Unspent, Issued
<1>8. TreesGrow'
  <2>1. Done \cup {q} = Done'
    BY <1>0, <1>2 DEF Done
  <2>2. ended' \subseteq Done' /\ \A u \in Issued' : tokens'[u].family \in Done'
    BY <2>1, <1>4, <1>5 DEF AuthInv, TreesGrow
  <2>3. ASSUME NEW u \in Issued', tokens'[u].parent # NoToken
        PROVE  /\ tokens'[u].parent \in Issued'
               /\ tokens'[tokens'[u].parent].family = tokens'[u].family
               /\ tokens'[tokens'[u].parent].revoked
    <3>1. CASE u = q
      BY <3>1, <2>3, <1>4, <1>5
    <3>2. CASE u \in Issued
      BY <3>2, <2>3, <1>4, <1>5 DEF AuthInv, TreesGrow
    <3> QED
      BY <3>1, <3>2, <1>4
  <2> QED
    BY <2>2, <2>3 DEF TreesGrow
<1>9. ReadsHold'
  BY <1>2, <1>4, <1>5, <1>0 DEF AuthInv, ReadsHold
<1>10. OneEnd'
  <2> SUFFICES ASSUME NEW t \in Issued', NEW u \in Issued',
                      (tokens[t].family = tokens[u].family)', t # u, Childless(t)', Childless(u)'
               PROVE  Split(t)'
    BY DEF OneEnd
  <2>1. \A a, b \in Issued : Siblings(a, b) => Siblings(a, b)'
    BY <1>5 DEF Siblings
  <2>2. \A a \in Issued : Childless(a)' => Childless(a)
    BY <1>4, <1>5 DEF Childless
  <2>3. \A a \in Issued : Split(a) => Split(a)'
    BY <2>1, <1>4, <1>5 DEF Split, FamilyOf
  <2>4. CASE t \in Issued /\ u \in Issued
    BY <2>4, <2>2, <2>3, <1>5 DEF AuthInv, OneEnd
  <2>5. ASSUME NEW a \in Issued, (tokens[a].family = tokens[q].family)', Childless(a)'
        PROVE  Split(a)' /\ Split(q)'
    (* a has no child now, so it is not the new token's parent. *)
    <3>1. new.parent # NoToken
      <4>1. tokens[a].family \in Done
        BY DEF AuthInv, TreesGrow
      <4> QED
        BY <4>1, <1>1, <2>5, <1>5
    <3>2. a # new.parent
      BY <2>5, <1>4, <1>5 DEF Childless
    <3>3. tokens[a].family = tokens[new.parent].family /\ new.parent \in Issued
      BY <3>1, <2>5, <1>5
    <3>4. CASE Childless(new.parent)
      <4>1. Split(a)
        BY <3>2, <3>3, <3>4, <2>2, <2>5 DEF AuthInv, OneEnd
      <4> QED
        BY <4>1, <2>3, <2>5, <1>4 DEF Split, FamilyOf
    <3>5. CASE ~Childless(new.parent)
      <4>1. PICK v \in Issued : tokens[v].parent = new.parent
        BY <3>5 DEF Childless
      <4>2. Siblings(v, q)'
        BY <4>1, <1>1, <1>5, <3>1 DEF Siblings
      <4>3. tokens[v].family = new.family
        BY <4>1, <3>1, <3>3 DEF AuthInv, TreesGrow
      <4>4. v \in FamilyOf(q)' /\ q \in FamilyOf(q)' /\ FamilyOf(a)' = FamilyOf(q)'
        BY <4>3, <1>4, <1>5, <2>5 DEF FamilyOf
      <4> QED
        BY <4>2, <4>4 DEF Split
    <3> QED
      BY <3>4, <3>5
  <2> QED
    BY <2>4, <2>5, <1>4
<1>11. LogoutEndsFamily'
  <2>1. new.parent = NoToken => new.family \notin ended'
    BY <1>1 DEF AuthInv, TreesGrow
  <2> SUFFICES ASSUME NEW t \in Issued', Live(t)', tokens'[t].family \in ended
               PROVE  tokens'[t].late
    BY DEF LogoutEndsFamily
  <2> QED
    BY <2>1, <1>4, <1>5 DEF AuthInv, LogoutEndsFamily, Live
<1>12. OneAccountPerEmail'
  BY DEF AuthInv, OneAccountPerEmail
<1>13. NoneBefore'
  <2>1. tokens'[q].before \subseteq Issued /\ \A v \in tokens'[q].before : tokens'[v].parent # tokens'[q].parent
    BY <1>5
  <2>2. ASSUME NEW u \in Issued
        PROVE  /\ tokens'[u].before \subseteq Issued
               /\ \A v \in tokens'[u].before : tokens'[v].parent # tokens'[u].parent
    BY <1>5 DEF AuthInv, NoneBefore
  <2> QED
    BY <2>1, <2>2, <1>4 DEF NoneBefore
<1> QED
  BY <1>6, <1>7, <1>8, <1>9, <1>10, <1>11, <1>12, <1>13 DEF AuthInv

(* A logout commits: what it has read of the family is revoked, and what it *)
(* has not read is marked.                                                  *)
LEMMA CommitLogoutInv ==
  ASSUME AuthInv, NEW q \in Client, CommitLogout(q)
  PROVE  AuthInv'
<1> DEFINE c == [NewCall EXCEPT !.pc = "done"]
           f == tokens[call[q].token].family
<1>0. c \in Call /\ c.pc = "done" /\ call' = [call EXCEPT ![q] = c]
  BY DEF NewCall, Call, CommitLogout, Ends
<1>1. call[q].pc = "revoking" /\ call[q].token \in Issued /\ call[q].known \subseteq Issued
      /\ call[q].targets \subseteq call[q].known
      /\ \A u \in call[q].known \ call[q].targets : tokens[u].revoked
  BY DEF CommitLogout, Calling, AuthInv, ReadsHold
<1>2. \A u \in Client : call'[u] = IF u = q THEN c ELSE call[u]
  BY <1>0 DEF AuthInv, AuthTypeOK
<1>3. \A u \in Issued : tokens[u] \in Token
  BY DEF AuthInv, AuthTypeOK, Issued
<1>4. \A u \in Issued : /\ [tokens[u] EXCEPT !.revoked = TRUE] \in Token
                        /\ [tokens[u] EXCEPT !.late = TRUE] \in Token
  BY <1>3 DEF Token
<1>5. \A u \in Client \ Issued : tokens'[u] = NoToken
  BY <1>1 DEF CommitLogout, FamilyOf, Issued
<1>6. \A u \in Issued : tokens'[u] \in Token
  BY <1>3, <1>4 DEF CommitLogout, Issued
<1>7. Issued' = Issued
  BY <1>5, <1>6, NotAToken DEF Issued
<1>8. \A u \in Issued : /\ tokens'[u].family = tokens[u].family
                        /\ tokens'[u].parent = tokens[u].parent
                        /\ tokens'[u].before = tokens[u].before
                        /\ tokens[u].revoked => tokens'[u].revoked
                        /\ tokens[u].late => tokens'[u].late
                        /\ u \in call[q].targets => tokens'[u].revoked
                        /\ u \in FamilyOf(call[q].token) \ call[q].known => tokens'[u].late
  BY <1>1, <1>3 DEF CommitLogout, Issued, Token
<1>9. AuthTypeOK'
  <2>1. tokens' = [u \in Client |-> tokens'[u]]
    BY DEF CommitLogout
  <2>2. tokens' \in [Client -> Token \cup {NoToken}]
    BY <1>5, <1>6, <2>1
  <2>3. f \in Client
    BY <1>1, <1>3 DEF Token
  <2> QED
    BY <1>0, <2>2, <2>3 DEF CommitLogout, AuthInv, AuthTypeOK
<1>10. Unspent'
  BY <1>0, <1>2, <1>7 DEF AuthInv, Unspent, Issued
<1>11. TreesGrow'
  <2>1. Done' = Done \cup {q}
    BY <1>0, <1>2 DEF Done
  <2>2. f \in Done
    BY <1>1 DEF AuthInv, TreesGrow
  <2>3. ended' = ended \cup {f}
    BY DEF CommitLogout
  <2>4. ended' \subseteq Done'
    BY <2>1, <2>2, <2>3 DEF AuthInv, TreesGrow
  <2>5. \A u \in Issued' : tokens'[u].family \in Done'
    BY <2>1, <1>7, <1>8 DEF AuthInv, TreesGrow
  <2>6. ASSUME NEW u \in Issued, tokens'[u].parent # NoToken
        PROVE  /\ tokens'[u].parent \in Issued
               /\ tokens'[tokens'[u].parent].family = tokens'[u].family
               /\ tokens'[tokens'[u].parent].revoked
    <3>1. /\ tokens[u].parent \in Issued
          /\ tokens[tokens[u].parent].family = tokens[u].family
          /\ tokens[tokens[u].parent].revoked
      BY <2>6, <1>8 DEF AuthInv, TreesGrow
    <3> QED
      BY <3>1, <1>8
  <2> QED
    BY <2>4, <2>5, <2>6, <1>7 DEF TreesGrow
<1>12. ReadsHold'
  BY <1>0, <1>2, <1>7, <1>8 DEF AuthInv, ReadsHold
<1>13. OneEnd' /\ NoneBefore'
  <2>1. OneEnd'
    BY <1>7, <1>8 DEF AuthInv, OneEnd, Childless, Split, FamilyOf, Siblings
  <2>2. NoneBefore'
    BY <1>7, <1>8 DEF AuthInv, NoneBefore
  <2> QED
    BY <2>1, <2>2
<1>14. LogoutEndsFamily'
  <2> SUFFICES ASSUME NEW t \in Issued, ~tokens'[t].revoked, tokens[t].family \in ended \cup {f}
               PROVE  tokens'[t].late
    BY <1>7, <1>8 DEF LogoutEndsFamily, Live, CommitLogout
  <2>1. CASE tokens[t].family \in ended
    BY <2>1, <1>8 DEF AuthInv, LogoutEndsFamily, Live
  <2>2. CASE tokens[t].family = f
    <3>1. t \in FamilyOf(call[q].token)
      BY <2>2 DEF FamilyOf
    <3>2. t \notin call[q].known
      BY <1>1, <1>8
    <3> QED
      BY <3>1, <3>2, <1>8
  <2> QED
    BY <2>1, <2>2
<1>15. OneAccountPerEmail'
  BY DEF CommitLogout, AuthInv, OneAccountPerEmail
<1> QED
  BY <1>9, <1>10, <1>11, <1>12, <1>13, <1>14, <1>15 DEF AuthInv

(* A login begins a family, a refresh continues one. *)
LEMMA LoginInv ==
  ASSUME AuthInv, NEW q \in Client, NEW e \in Email, Login(q, e)
  PROVE  AuthInv'
<1> DEFINE new == [family |-> q, parent |-> NoToken, revoked |-> FALSE,
                   expires |-> authClock + TokenTTL, late |-> FALSE, before |-> {}]
<1>1. new \in Token /\ ~new.revoked /\ new.parent = NoToken /\ new.family = q /\ new.before = {}
  BY AccountConstants DEF Token, AuthInv, AuthTypeOK
<1>2. tokens' = [tokens EXCEPT ![q] = new] /\ tokens \in [Client -> Token \cup {NoToken}]
  BY DEF Login, AuthInv, AuthTypeOK
<1>3. Stores(q, new)
  <2> HIDE DEF new
  <2> QED
    BY <1>1, <1>2, AccountConstants DEF Stores
<1>4. call[q].pc # "done"
  BY DEF Login, Calling
<1> HIDE DEF new
<1> QED
  BY <1>1, <1>3, <1>4, IssueInv DEF Login

LEMMA RotateInv ==
  ASSUME AuthInv, NEW q \in Client, Rotate(q)
  PROVE  AuthInv'
<1> DEFINE old == call[q].token
           new == Successor(q)
<1>1. /\ call[q].pc = "rotating" /\ old \in Issued /\ call[q] \in Call
      /\ call[q].known \subseteq Issued /\ \A v \in call[q].known : tokens[v].parent # old
  BY DEF Rotate, Calling, AuthInv, AuthTypeOK, ReadsHold
<1>2. tokens[old] \in Token /\ old \in Client /\ call[q].at \in Nat
  BY <1>1 DEF Issued, AuthInv, AuthTypeOK, Call
<1>3. /\ new \in Token /\ ~new.revoked /\ new.parent = old /\ new.family = tokens[old].family
      /\ new.family \in ended => new.late
      /\ new.before = call[q].known
  <2> DEFINE p == tokens[old]
             before == call[q].known
             late == p.late \/ p.family \in ended
             expires == call[q].at + TokenTTL
  <2>1. p.family \in Client /\ p.late \in BOOLEAN /\ before \subseteq Client
    BY <1>1, <1>2 DEF Token, Issued
  <2>2. expires \in Nat
    BY <1>2, AccountConstants
  <2>3. late \in BOOLEAN /\ (p.family \in ended => late)
    OBVIOUS
  <2>4. new = [family |-> p.family, parent |-> old, revoked |-> FALSE,
               expires |-> expires, late |-> late, before |-> before]
    BY DEF Successor
  <2>5. new.family = tokens[old].family
    BY DEF Successor
  <2>8. new.before = call[q].known
    BY DEF Successor
  <2> HIDE DEF p, late, expires, before, new, old
  <2>6. new.family = p.family /\ new.late = late
    BY <2>4
  <2>7. new \in Token /\ ~new.revoked /\ new.parent = old
    BY <2>1, <2>2, <2>3, <2>4, <1>2 DEF Token
  <2> QED
    BY <2>3, <2>5, <2>6, <2>7, <2>8
<1>4. q \notin Issued /\ q # old
  BY <1>1 DEF AuthInv, Unspent, Issued
<1>5. Stores(q, new)
  <2> HIDE DEF new, old
  <2>1. tokens' = [tokens EXCEPT ![old].revoked = TRUE, ![q] = new]
    BY DEF Rotate, new, old
  <2>2. tokens \in [Client -> Token \cup {NoToken}]
    BY DEF AuthInv, AuthTypeOK
  <2> QED
    BY <2>1, <2>2, <1>2, <1>3, <1>4 DEF Stores
<1>6. old # NoToken
  BY <1>2, AccountConstants
<1>7. Ends(q) /\ UNCHANGED <<users, ended, authClock>>
  BY DEF Rotate
<1> HIDE DEF new, old
<1> QED
  BY <1>1, <1>3, <1>5, <1>6, <1>7, IssueInv

(* The requests that only read. *)
LEMMA RegisterInv ==
  ASSUME AuthInv, NEW q \in Client, NEW e \in Email, Register(q, e)
  PROVE  AuthInv'
<1> DEFINE c == [call[q] EXCEPT !.pc = "registering", !.email = e]
<1>0. call[q] \in Call
  BY DEF AuthInv, AuthTypeOK
<1>1. c \in Call /\ c.pc = "registering"
  BY <1>0 DEF Call
<1>2. call' = [call EXCEPT ![q] = c] /\ call[q].pc # "done"
  BY DEF Register, Calling
<1> HIDE DEF c
<1> QED
  BY <1>1, <1>2, OnlyCalls DEF Register, AuthInv, AuthTypeOK

LEMMA RefreshInv ==
  ASSUME AuthInv, NEW q \in Client, NEW t \in Client, Refresh(q, t)
  PROVE  AuthInv'
<1> DEFINE c == [call[q] EXCEPT !.pc = "rotating", !.token = t, !.at = authClock, !.known = FamilyOf(t)]
<1>0. call[q] \in Call /\ authClock \in Nat /\ FamilyOf(t) \subseteq Issued /\ Issued \subseteq Client
  BY AccountConstants DEF AuthInv, AuthTypeOK, FamilyOf, Issued
<1>1. c \in Call /\ c.pc = "rotating" /\ c.token = t /\ c.known = FamilyOf(t)
  BY <1>0 DEF Call
<1>2. call' = [call EXCEPT ![q] = c] /\ t \in Issued /\ ~tokens[t].revoked /\ call[q].pc # "done"
  BY DEF Refresh, Calling, Redeemable, Live, AuthInv, AuthTypeOK
<1>3. \A u \in FamilyOf(t) : tokens[u].parent # t
  <2>1. t # NoToken
    BY <1>2, AccountConstants DEF Issued
  <2> QED
    BY <1>0, <1>2, <2>1 DEF AuthInv, TreesGrow
<1>4. UNCHANGED <<users, tokens, ended>> /\ authClock' \in 0..MaxAuthTime
  BY DEF Refresh, AuthInv, AuthTypeOK
<1> HIDE DEF c
<1> QED
  BY <1>0, <1>1, <1>2, <1>3, <1>4, OnlyCalls

LEMMA LogoutInv ==
  ASSUME AuthInv, NEW q \in Client, NEW t \in Client, Logout(q, t)
  PROVE  AuthInv'
<1> DEFINE c == [call[q] EXCEPT !.pc = "revoking", !.token = t, !.known = FamilyOf(t),
                                !.targets = LiveFamily(t)]
<1>1. FamilyOf(t) \subseteq Issued /\ LiveFamily(t) \subseteq FamilyOf(t)
      /\ \A u \in FamilyOf(t) \ LiveFamily(t) : tokens[u].revoked
  BY DEF FamilyOf, LiveFamily, Live
<1>0. call[q] \in Call /\ FamilyOf(t) \subseteq Client /\ LiveFamily(t) \subseteq Client
  BY <1>1 DEF AuthInv, AuthTypeOK, Issued
<1>2. c \in Call /\ c.pc = "revoking" /\ c.token = t /\ c.known = FamilyOf(t) /\ c.targets = LiveFamily(t)
  BY <1>0 DEF Call
<1>3. call' = [call EXCEPT ![q] = c] /\ t \in Issued /\ call[q].pc # "done"
  BY DEF Logout, Calling, AuthInv, AuthTypeOK
<1>4. UNCHANGED <<users, tokens, ended>> /\ authClock' \in 0..MaxAuthTime
  BY DEF Logout, AuthInv, AuthTypeOK
<1> HIDE DEF c
<1>5. /\ c.targets \subseteq c.known /\ c.known \subseteq Issued
      /\ \A u \in c.known \ c.targets : tokens[u].revoked
  BY <1>1, <1>2
<1> QED
  BY <1>2, <1>3, <1>4, <1>5, OnlyCalls

LEMMA TickInv ==
  ASSUME AuthInv, AuthTick
  PROVE  AuthInv'
<1>1. AuthTypeOK'
  BY AccountConstants DEF AuthTick, AuthInv, AuthTypeOK
<1> QED
  BY <1>1 DEF AuthTick, AuthInv, Unspent, TreesGrow, ReadsHold, NoneBefore, OneEnd, LogoutEndsFamily,
         OneAccountPerEmail, Issued, Done, Childless, Split, FamilyOf, Siblings, Live

--------------------------------------------------------------------------------
LEMMA AuthStepInv ==
  ASSUME AuthInv, [AuthNext]_authVars
  PROVE  AuthInv'
<1>1. CASE UNCHANGED authVars
  BY <1>1 DEF authVars, AuthInv, AuthTypeOK, Unspent, TreesGrow, ReadsHold, NoneBefore, OneEnd, LogoutEndsFamily,
         OneAccountPerEmail, Issued, Done, Childless, Split, FamilyOf, Siblings, Live
<1>2. CASE AuthTick
  BY <1>2, TickInv
<1>3. ASSUME NEW q \in Client, CallFails(q)
      PROVE  AuthInv'
  BY <1>3, EndsInv DEF CallFails
<1>4. ASSUME NEW q \in Client, NEW t \in Client, RefreshReused(q, t)
      PROVE  AuthInv'
  BY <1>4, EndsInv DEF RefreshReused, Calling
<1> QED
  BY <1>1, <1>2, <1>3, <1>4, RegisterInv, LoginInv, RefreshInv, LogoutInv, CommitRegisterInv, RotateInv,
     CommitLogoutInv DEF AuthNext

(* AuthInv is invariant. *)
LEMMA AuthInvariant == AuthSpec => []AuthInv
<1>1. AuthInv /\ [AuthNext]_authVars => AuthInv'
  BY AuthStepInv
<1> QED
  BY <1>1, AuthInitInv, PTL DEF AuthSpec

--------------------------------------------------------------------------------
(* The types, for any requests, e-mails and clock. *)
THEOREM AuthTypeCorrect == AuthSpec => []AuthTypeOK
BY AuthInvariant, PTL DEF AuthInv

(* However many registrations of one e-mail overlap, one account is kept. *)
THEOREM OneAccountPerEmailAlways == AuthSpec => []OneAccountPerEmail
BY AuthInvariant, PTL DEF AuthInv

(* After a logout only what a refresh was about to issue works, however     *)
(* many refreshes and logouts of the family overlap.                        *)
THEOREM LogoutAlwaysEndsFamily == AuthSpec => []LogoutEndsFamily
BY AuthInvariant, PTL DEF AuthInv

(* However requests interleave and fail, a family with two live tokens was  *)
(* split by two refreshes of one of its tokens, each of which had read      *)
(* before the other issued its successor.                                   *)
THEOREM SplitOnlyByOverlapAlways == AuthSpec => []SplitOnlyByOverlap
<1>1. AuthInv => SplitOnlyByOverlap
  BY EndsDecide
<1> QED
  BY <1>1, AuthInvariant, PTL

--------------------------------------------------------------------------------
(***************************************************************************)
(* Access, for any users, keys, restaurants, products and sessions: who is *)
(* admitted is entitled, and the policies let a request at no other        *)
(* restaurant's rows. How many menus a restaurant may come to have needs   *)
(* MenusBounded: the sessions that are about to add one count with those   *)
(* it has.                                                                 *)
(***************************************************************************)

RolesSound ==
  /\ houses \subseteq Tenant
  /\ members \in [Tenant -> [User -> MemberRole \cup {"none"}]]
  /\ session \in [Session -> OpenSession]

AccessInv == RolesSound /\ TenantsKeptApart

LEMMA RankIsNat == \A role \in MemberRole : Rank[role] \in Nat /\ Rank[role] >= Rank["viewer"]
BY DEF Rank, MemberRole

LEMMA AccessInitInv == AccessInit => AccessInv
<1> SUFFICES ASSUME AccessInit PROVE AccessInv
  OBVIOUS
<1>1. "owner" \in MemberRole
  BY DEF MemberRole, Rank
<1>2. members \in [Tenant -> [User -> MemberRole \cup {"none"}]]
  BY <1>1 DEF AccessInit
<1> QED
  BY <1>2, AccessConstants DEF AccessInit, AccessInv, RolesSound, TenantsKeptApart, OpenSession

--------------------------------------------------------------------------------
(* require_tenant admits nobody who is not entitled. *)
LEMMA AdmittedEntitled ==
  ASSUME NEW p \in Principal, NEW r \in Tenant, NEW required, Admitted(p, r, required)
  PROVE  Entitled(p, r, required)
<1>1. CASE p.kind = "api_key"
  BY <1>1 DEF Admitted, ContextOf, Entitled
<1>2. CASE p.kind # "api_key"
  <2>1. p.kind = "user"
    BY <1>2 DEF Principal
  <2>2. CASE MemberRow(ContextOf(p), r, p.id) /\ members[r][p.id] # "none"
    BY <2>1, <2>2, <1>2 DEF Admitted, Entitled, CanActAs
  <2>3. CASE ~(MemberRow(ContextOf(p), r, p.id) /\ members[r][p.id] # "none")
    <3>1. ContextOf(p).admin
      BY <2>3, <1>2 DEF Admitted
    <3> QED
      BY <2>1, <3>1 DEF ContextOf, Entitled
  <2> QED
    BY <2>2, <2>3
<1> QED
  BY <1>1, <1>2

(* The policies let a request at the rows of its restaurant only. *)
LEMMA PolicyKeepsApart ==
  ASSUME NEW p \in Principal, NEW r \in Tenant
  PROVE  p.id \in PlatformAdmin \/ \A x \in ByPolicy(Pinned(p, r)) : dishes[x] = r
<1>1. Pinned(p, r).tenant = r /\ Pinned(p, r).admin = ContextOf(p).admin
  BY DEF Pinned, ContextOf
<1>2. ContextOf(p).admin => p.id \in PlatformAdmin
  BY DEF ContextOf
<1> QED
  BY <1>1, <1>2 DEF ByPolicy, TenantRow

LEMMA VisitKeepsApart ==
  ASSUME NEW p \in Principal, NEW r \in Tenant, NEW required, NEW reads,
         strays = {}, Admitted(p, r, required), Records(p, r, required, reads),
         \A x \in reads : dishes[x] = r
  PROVE  strays' = {}
BY AdmittedEntitled, PolicyKeepsApart DEF Records

LEMMA VisitInv ==
  ASSUME AccessInv, NEW p \in Principal, NEW r \in Tenant, NEW required, NEW reads,
         Visit(p, r, required, reads), \A x \in reads : dishes[x] = r
  PROVE  AccessInv'
<1>1. strays' = {}
  BY VisitKeepsApart DEF Visit, AccessInv, TenantsKeptApart
<1> QED
  BY <1>1 DEF Visit, AccessInv, RolesSound, TenantsKeptApart

LEMMA ReadsInv ==
  ASSUME AccessInv, NEW p \in Principal, NEW r \in Tenant, NEW x \in Dish,
         Read(p, r) \/ UpdateRestaurant(p, r) \/ UpdateProduct(p, r, x) \/ SetAvailability(p, r, x)
  PROVE  AccessInv'
<1>1. \A y \in Reached(p, r) : dishes[y] = r
  BY DEF Reached, ByQuery
<1> QED
  BY <1>1, VisitInv DEF Read, UpdateRestaurant, UpdateProduct, SetAvailability

LEMMA CreateProductInv ==
  ASSUME AccessInv, NEW p \in Principal, NEW r \in Tenant, NEW x \in Dish, CreateProduct(p, r, x)
  PROVE  AccessInv'
<1>1. strays' = {}
  BY VisitKeepsApart DEF CreateProduct, AccessInv, TenantsKeptApart
<1> QED
  BY <1>1 DEF CreateProduct, AccessInv, RolesSound, TenantsKeptApart

LEMMA CreateRestaurantInv ==
  ASSUME AccessInv, NEW p \in Principal, NEW r \in Tenant, CreateRestaurant(p, r)
  PROVE  AccessInv'
<1>1. p.id \in User /\ "owner" \in MemberRole
  BY DEF CreateRestaurant, Principal, MemberRole, Rank
<1>2. members' = [members EXCEPT ![r] = [members[r] EXCEPT ![p.id] = "owner"]]
  BY DEF CreateRestaurant
<1>3. [members[r] EXCEPT ![p.id] = "owner"] \in [User -> MemberRole \cup {"none"}]
  BY <1>1 DEF AccessInv, RolesSound
<1>4. RolesSound'
  BY <1>2, <1>3 DEF CreateRestaurant, AccessInv, RolesSound
<1> QED
  BY <1>4 DEF CreateRestaurant, AccessInv, TenantsKeptApart

LEMMA ListInv ==
  ASSUME AccessInv, NEW p \in Principal, ListMyRestaurants(p)
  PROVE  AccessInv'
<1>1. p.kind = "user" /\ p.id \in User
  BY DEF ListMyRestaurants, Principal
<1>2. ASSUME NEW r \in houses, members[r][p.id] # "none"
      PROVE  Entitled(p, r, "viewer")
  <2>1. members[r][p.id] \in MemberRole
    BY <1>1, <1>2 DEF AccessInv, RolesSound
  <2> QED
    BY <1>1, <1>2, <2>1, RankIsNat DEF Entitled
<1>3. strays' = {}
  BY <1>2 DEF ListMyRestaurants, AccessInv, TenantsKeptApart
<1> QED
  BY <1>3 DEF ListMyRestaurants, AccessInv, RolesSound, TenantsKeptApart

(* A session opened or closed. *)
LEMMA SessionInv ==
  ASSUME AccessInv, NEW s \in Session, NEW w \in OpenSession, session' = [session EXCEPT ![s] = w],
         UNCHANGED <<houses, members>>, strays' = {}
  PROVE  AccessInv'
BY DEF AccessInv, RolesSound, TenantsKeptApart

LEMMA CreateCategoryInv ==
  ASSUME AccessInv, NEW s \in Session, NEW p \in Principal, NEW r \in Tenant, CreateCategory(s, p, r)
  PROVE  AccessInv'
<1> DEFINE b == menus[r] > 0
<1>1. b \in BOOLEAN
  OBVIOUS
<1>4. session' = [session EXCEPT ![s] = [work |-> "category", house |-> r, hasMenu |-> b]]
  BY DEF CreateCategory
<1> HIDE DEF b
<1>2. [work |-> "category", house |-> r, hasMenu |-> b] \in OpenSession
  BY <1>1 DEF OpenSession
<1>3. strays' = {}
  BY VisitKeepsApart DEF CreateCategory, AccessInv, TenantsKeptApart
<1> QED
  BY <1>2, <1>3, <1>4, SessionInv DEF CreateCategory

LEMMA InviteMemberInv ==
  ASSUME AccessInv, NEW s \in Session, NEW p \in Principal, NEW r \in Tenant, NEW u \in User,
         NEW role \in Granted, InviteMember(s, p, r, u, role)
  PROVE  AccessInv'
<1>1. [work |-> "invite", house |-> r, user |-> u, role |-> role] \in OpenSession
  BY DEF OpenSession
<1>2. strays' = {}
  BY VisitKeepsApart DEF InviteMember, AccessInv, TenantsKeptApart
<1> QED
  BY <1>1, <1>2, SessionInv DEF InviteMember

LEMMA SessionEndsInv ==
  ASSUME AccessInv, NEW s \in Session, CommitCategory(s) \/ SessionFails(s)
  PROVE  AccessInv'
<1>1. NoWork \in OpenSession
  BY DEF OpenSession
<1> QED
  BY <1>1, SessionInv DEF CommitCategory, SessionFails, AccessInv, TenantsKeptApart

LEMMA CommitInviteInv ==
  ASSUME AccessInv, NEW s \in Session, CommitInvite(s)
  PROVE  AccessInv'
<1> DEFINE w == session[s]
           row == [members[w.house] EXCEPT ![w.user] = w.role]
<1>1. w \in OpenSession /\ w.work = "invite"
  BY DEF CommitInvite, AccessInv, RolesSound
<1>2. w.house \in Tenant /\ w.user \in User /\ w.role \in MemberRole
  BY <1>1, AccessConstants DEF OpenSession, NoWork
<1>3. row \in [User -> MemberRole \cup {"none"}]
  BY <1>2 DEF AccessInv, RolesSound
<1>4. members' = [members EXCEPT ![w.house] = row]
  BY DEF CommitInvite
<1>5. session' = [session EXCEPT ![s] = NoWork] /\ NoWork \in OpenSession
  BY DEF CommitInvite, OpenSession
<1> HIDE DEF w, row
<1>6. RolesSound'
  <2>1. members' \in [Tenant -> [User -> MemberRole \cup {"none"}]]
    BY <1>2, <1>3, <1>4 DEF AccessInv, RolesSound
  <2>2. session' \in [Session -> OpenSession]
    BY <1>5 DEF AccessInv, RolesSound
  <2> QED
    BY <2>1, <2>2 DEF CommitInvite, AccessInv, RolesSound
<1> QED
  BY <1>6 DEF CommitInvite, AccessInv, TenantsKeptApart

--------------------------------------------------------------------------------
LEMMA AccessStepInv == AccessInv /\ [AccessNext]_accessVars => AccessInv'
<1> SUFFICES ASSUME AccessInv, [AccessNext]_accessVars PROVE AccessInv'
  OBVIOUS
<1>1. CASE UNCHANGED accessVars
  BY <1>1 DEF accessVars, AccessInv, RolesSound, TenantsKeptApart
<1>2. ASSUME NEW k \in ApiKey, RevokeKey(k)
      PROVE  AccessInv'
  BY <1>2 DEF RevokeKey, AccessInv, RolesSound, TenantsKeptApart
<1>3. ASSUME NEW p \in Present, NEW r \in Tenant, NEW s \in Session,
             CreateCategory(s, p, r) \/ \E u \in User, role \in Granted : InviteMember(s, p, r, u, role)
      PROVE  AccessInv'
  BY <1>3, CreateCategoryInv, InviteMemberInv DEF Present
<1>4. ASSUME NEW p \in Present, NEW r \in Tenant, NEW x \in Dish,
             UpdateProduct(p, r, x) \/ SetAvailability(p, r, x) \/ CreateProduct(p, r, x)
      PROVE  AccessInv'
  BY <1>4, ReadsInv, CreateProductInv DEF Present
<1>5. ASSUME NEW p \in Present, NEW r \in Tenant,
             CreateRestaurant(p, r) \/ Read(p, r) \/ UpdateRestaurant(p, r)
      PROVE  AccessInv'
  BY <1>5, AccessConstants, ReadsInv, CreateRestaurantInv DEF Present
<1>6. ASSUME NEW p \in Present, ListMyRestaurants(p)
      PROVE  AccessInv'
  BY <1>6, ListInv DEF Present
<1>7. ASSUME NEW s \in Session, CommitCategory(s) \/ CommitInvite(s) \/ SessionFails(s)
      PROVE  AccessInv'
  BY <1>7, SessionEndsInv, CommitInviteInv
<1>8. CASE AccessNext
  BY <1>8, <1>2, <1>3, <1>4, <1>5, <1>6, <1>7 DEF AccessNext
<1> QED
  BY <1>1, <1>8

(* However the memberships came about, nobody reaches a restaurant that he  *)
(* is not entitled to, and the policies alone keep restaurants apart.       *)
THEOREM TenantsAlwaysKeptApart == AccessSpec => []TenantsKeptApart
<1>1. AccessInv => TenantsKeptApart
  BY DEF AccessInv
<1> QED
  BY <1>1, AccessInitInv, AccessStepInv, PTL DEF AccessSpec

--------------------------------------------------------------------------------
(* The sessions that will add a menu to restaurant r.  They began while it *)
(* had none: they and the menus it has are no more than there are sessions.*)
Creating(r) == {s \in Session : session[s].work = "category" /\ session[s].house = r /\ ~session[s].hasMenu}

MenusBounded ==
  /\ validKeys \subseteq ApiKey
  /\ dishes \in [Dish -> Tenant \cup {NoTenant}]
  /\ menus \in [Tenant -> Nat]
  /\ \A r \in Tenant : menus[r] + Cardinality(Creating(r)) <= Cardinality(Session)

LEMMA CreatingFinite ==
  ASSUME NEW r
  PROVE  /\ IsFiniteSet(Creating(r)) /\ Cardinality(Creating(r)) \in Nat
         /\ Cardinality(Session) \in Nat /\ Cardinality(Creating(r)) <= Cardinality(Session)
<1>1. Creating(r) \in SUBSET Session
  BY DEF Creating
<1>2. IsFiniteSet(Session)
  BY AccessConstants
<1>3. IsFiniteSet(Creating(r)) /\ Cardinality(Creating(r)) <= Cardinality(Session)
  BY <1>1, <1>2, FS_Subset
<1> QED
  BY <1>2, <1>3, FS_CardinalityType

(* Sessions that begin or end otherwise leave no more that will add one.   *)
LEMMA FewerCreating ==
  ASSUME MenusBounded, UNCHANGED menus, \A r \in Tenant : menus[r] = 0 \/ Creating(r)' \subseteq Creating(r)
  PROVE  \A r \in Tenant : menus'[r] + Cardinality(Creating(r)') <= Cardinality(Session)
<1> SUFFICES ASSUME NEW r \in Tenant PROVE menus'[r] + Cardinality(Creating(r)') <= Cardinality(Session)
  OBVIOUS
<1>1. menus[r] \in Nat /\ menus'[r] = menus[r] /\ menus[r] + Cardinality(Creating(r)) <= Cardinality(Session)
  BY DEF MenusBounded
<1>2. /\ IsFiniteSet(Creating(r)) /\ Cardinality(Creating(r)) \in Nat /\ Cardinality(Session) \in Nat
      /\ IsFiniteSet(Session)
  BY CreatingFinite, AccessConstants
<1>3. Creating(r)' \in SUBSET Session
  BY DEF Creating
<1>4. Cardinality(Creating(r)') \in Nat /\ Cardinality(Creating(r)') <= Cardinality(Session)
  BY <1>2, <1>3, FS_Subset, FS_CardinalityType
<1>5. CASE menus[r] = 0
  BY <1>1, <1>2, <1>4, <1>5
<1>6. CASE Creating(r)' \in SUBSET Creating(r)
  <2>1. Cardinality(Creating(r)') <= Cardinality(Creating(r))
    BY <1>2, <1>6, FS_Subset
  <2> QED
    BY <1>1, <1>2, <1>4, <2>1
<1> QED
  BY <1>5, <1>6

LEMMA MenusInit == AccessInit => MenusBounded
<1> SUFFICES ASSUME AccessInit PROVE MenusBounded
  OBVIOUS
<1>1. \A r \in Tenant : menus[r] = 0
  BY DEF AccessInit
<1>2. ASSUME NEW r \in Tenant PROVE menus[r] + Cardinality(Creating(r)) <= Cardinality(Session)
  BY <1>1, CreatingFinite
<1> QED
  BY <1>2, AccessConstants DEF AccessInit, MenusBounded

(* Every step but that of a category leaves menus and their makers alone.  *)
LEMMA MenusRest ==
  ASSUME MenusBounded, UNCHANGED <<menus, session>>, validKeys' \subseteq validKeys,
         dishes' \in [Dish -> Tenant \cup {NoTenant}]
  PROVE  MenusBounded'
<1>1. \A r \in Tenant : Creating(r)' = Creating(r)
  BY DEF Creating
<1> QED
  BY <1>1, FewerCreating DEF MenusBounded

LEMMA MenusSession ==
  ASSUME AccessInv, MenusBounded, NEW s \in Session, NEW w, session' = [session EXCEPT ![s] = w],
         UNCHANGED <<menus, validKeys, dishes>>,
         w.work = "category" => w.hasMenu \/ menus[w.house] = 0
  PROVE  MenusBounded'
<1>1. session \in [Session -> OpenSession]
  BY DEF AccessInv, RolesSound
<1>2. ASSUME NEW r \in Tenant, menus[r] # 0 PROVE Creating(r)' \subseteq Creating(r)
  BY <1>1, <1>2 DEF Creating
<1> QED
  BY <1>2, FewerCreating DEF MenusBounded

LEMMA MenusCommit ==
  ASSUME AccessInv, MenusBounded, NEW s \in Session, CommitCategory(s)
  PROVE  MenusBounded'
<1> DEFINE w == session[s]
<1>1. w \in OpenSession /\ session \in [Session -> OpenSession] /\ w.work = "category"
  BY DEF AccessInv, RolesSound, CommitCategory
<1>2. w.house \in Tenant /\ w.hasMenu \in BOOLEAN
  BY <1>1 DEF OpenSession, NoWork
<1>3. session' = [session EXCEPT ![s] = NoWork] /\ UNCHANGED <<validKeys, dishes>>
  BY DEF CommitCategory
<1>4. menus' = [menus EXCEPT ![w.house] = menus[w.house] + (IF w.hasMenu THEN 0 ELSE 1)]
  BY DEF CommitCategory
<1>5. menus \in [Tenant -> Nat]
  BY DEF MenusBounded
<1>6. menus' \in [Tenant -> Nat]
  BY <1>2, <1>4, <1>5
<1>7. \A r \in Tenant : Creating(r)' = Creating(r) \ {s}
  BY <1>1, <1>3 DEF Creating, NoWork
<1> HIDE DEF w
<1>8. ASSUME NEW r \in Tenant PROVE menus'[r] + Cardinality(Creating(r)') <= Cardinality(Session)
  <2>1. /\ menus[r] \in Nat /\ menus[r] + Cardinality(Creating(r)) <= Cardinality(Session)
    BY DEF MenusBounded
  <2>2. IsFiniteSet(Creating(r)) /\ Cardinality(Creating(r)) \in Nat /\ Cardinality(Session) \in Nat
    BY CreatingFinite
  <2>3. Cardinality(Creating(r)') = IF s \in Creating(r) THEN Cardinality(Creating(r)) - 1 ELSE Cardinality(Creating(r))
    BY <1>7, <2>2, FS_RemoveElement
  <2>4. CASE w.hasMenu \/ r # w.house
    <3>1. menus'[r] = menus[r]
      BY <2>4, <1>2, <1>4, <1>5
    <3> QED
      BY <2>1, <2>2, <2>3, <3>1
  <2>5. CASE ~w.hasMenu /\ r = w.house
    <3>1. menus'[r] = menus[r] + 1
      BY <2>5, <1>2, <1>4, <1>5
    <3>2. s \in Creating(r)
      BY <2>5, <1>1 DEF Creating, w
    <3> QED
      BY <2>1, <2>2, <2>3, <3>1, <3>2
  <2> QED
    BY <2>4, <2>5
<1> QED
  BY <1>3, <1>6, <1>8 DEF MenusBounded

LEMMA MenusStep ==
  ASSUME AccessInv, MenusBounded, [AccessNext]_accessVars
  PROVE  MenusBounded'
<1>0. dishes \in [Dish -> Tenant \cup {NoTenant}]
  BY DEF MenusBounded
<1>1. CASE UNCHANGED accessVars
  BY <1>0, <1>1, MenusRest DEF accessVars
<1>2. ASSUME NEW k \in ApiKey, RevokeKey(k) PROVE MenusBounded'
  BY <1>0, <1>2, MenusRest DEF RevokeKey
<1>3. ASSUME NEW p \in Present, NEW r \in Tenant, NEW s \in Session, CreateCategory(s, p, r)
      PROVE  MenusBounded'
  <2> DEFINE b == menus[r] > 0
             w == [work |-> "category", house |-> r, hasMenu |-> b]
  <2>1. session' = [session EXCEPT ![s] = w] /\ UNCHANGED <<menus, validKeys, dishes>>
    BY <1>3 DEF CreateCategory
  <2>2. w.hasMenu \/ menus[w.house] = 0
    <3>1. b \/ menus[r] = 0
      BY DEF MenusBounded
    <3> HIDE DEF b
    <3> QED
      BY <3>1
  <2> HIDE DEF w
  <2> QED
    BY <2>1, <2>2, MenusSession
<1>4. ASSUME NEW p \in Present, NEW r \in Tenant, NEW s \in Session, NEW u \in User, NEW role \in Granted,
             InviteMember(s, p, r, u, role)
      PROVE  MenusBounded'
  <2> DEFINE w == [work |-> "invite", house |-> r, user |-> u, role |-> role]
  <2>1. session' = [session EXCEPT ![s] = w] /\ UNCHANGED <<menus, validKeys, dishes>> /\ w.work # "category"
    BY <1>4 DEF InviteMember
  <2> HIDE DEF w
  <2> QED
    BY <2>1, MenusSession
<1>5. ASSUME NEW p \in Present, NEW r \in Tenant, NEW x \in Dish,
             UpdateProduct(p, r, x) \/ SetAvailability(p, r, x) \/ CreateProduct(p, r, x)
      PROVE  MenusBounded'
  <2>1. UNCHANGED <<menus, session, validKeys>> /\ dishes' \in [Dish -> Tenant \cup {NoTenant}]
    BY <1>0, <1>5 DEF UpdateProduct, SetAvailability, CreateProduct, Visit
  <2> QED
    BY <2>1, MenusRest
<1>6. ASSUME NEW p \in Present, NEW r \in Tenant, CreateRestaurant(p, r) \/ Read(p, r) \/ UpdateRestaurant(p, r)
      PROVE  MenusBounded'
  <2>1. UNCHANGED <<menus, session, validKeys, dishes>>
    BY <1>6 DEF CreateRestaurant, Read, UpdateRestaurant, Visit
  <2> QED
    BY <1>0, <2>1, MenusRest
<1>7. ASSUME NEW p \in Present, ListMyRestaurants(p) PROVE MenusBounded'
  BY <1>0, <1>7, MenusRest DEF ListMyRestaurants
<1>8. ASSUME NEW s \in Session, CommitInvite(s) \/ SessionFails(s) PROVE MenusBounded'
  <2>1. session' = [session EXCEPT ![s] = NoWork] /\ UNCHANGED <<menus, validKeys, dishes>> /\ NoWork.work # "category"
    BY <1>8 DEF CommitInvite, SessionFails, NoWork
  <2> HIDE DEF NoWork
  <2> QED
    BY <2>1, MenusSession
<1>9. CASE AccessNext
  BY <1>9, <1>2, <1>3, <1>4, <1>5, <1>6, <1>7, <1>8, MenusCommit DEF AccessNext
<1> QED
  BY <1>1, <1>9

(* Two requests for a first category may each add a menu, but a restaurant *)
(* never has more of them than there are sessions at once; and the rows    *)
(* keep their types.                                                       *)
THEOREM AccessTypeCorrect == AccessSpec => []AccessTypeOK
<1>1. AccessInit => AccessInv /\ MenusBounded
  BY AccessInitInv, MenusInit
<1>2. AccessInv /\ MenusBounded /\ [AccessNext]_accessVars => (AccessInv /\ MenusBounded)'
  BY AccessStepInv, MenusStep
<1>3. AccessInv /\ MenusBounded => AccessTypeOK
  <2> SUFFICES ASSUME AccessInv, MenusBounded PROVE AccessTypeOK
    OBVIOUS
  <2>1. ASSUME NEW r \in Tenant PROVE menus[r] \in 0..Cardinality(Session)
    <3>1. menus[r] \in Nat /\ menus[r] + Cardinality(Creating(r)) <= Cardinality(Session)
      BY DEF MenusBounded
    <3>2. Cardinality(Creating(r)) \in Nat /\ Cardinality(Session) \in Nat
      BY CreatingFinite
    <3> QED
      BY <3>1, <3>2
  <2>2. menus \in [Tenant -> 0..Cardinality(Session)]
    BY <2>1 DEF MenusBounded
  <2> QED
    BY <2>2 DEF AccessInv, RolesSound, MenusBounded, TenantsKeptApart, AccessTypeOK
<1> QED
  BY <1>1, <1>2, <1>3, PTL DEF AccessSpec

--------------------------------------------------------------------------------
(***************************************************************************)
(* Privacy, for any number of rows, restaurants, erasures and days.        *)
(*                                                                         *)
(* Erasing follows an erasure through its two reads: what the customer had *)
(* when it began is among what it has read as soon as the table was read,  *)
(* and a row once written is never unwritten. Aging orders the clocks, so  *)
(* that a job can only raise the age a restaurant was last swept at.       *)
(***************************************************************************)

RowsTyped ==
  /\ day \in Nat
  /\ rows \in [Row -> [content : {"none", "held"} \cup Gone, created : Nat]]

ErasersTyped ==
  /\ DOMAIN eraser = Eraser /\ DOMAIN older = Eraser
  /\ \A e \in Eraser : older[e] \subseteq Owned

SweepsTyped ==
  /\ override \in [Restaurant -> Override]
  /\ home \in [Turn -> Restaurant]
  /\ nightly \in [at : Nat, left : SUBSET Restaurant]
  /\ swept \in [Restaurant -> Int]

Erasing ==
  \A e \in Eraser :
    /\ EraserAt(e, "orders") => \A x \in older[e] : rows[x].content # "none" /\ (x \in Order => x \in eraser[e].seen)
    /\ EraserAt(e, "turns") => \A x \in older[e] : rows[x].content # "none" /\ x \in eraser[e].seen
    /\ EraserAt(e, "done") => \A x \in older[e] : rows[x].content \in Gone

Aging ==
  /\ nightly.at <= day
  /\ \A r \in Restaurant : swept[r] <= nightly.at

PrivInv == RowsTyped /\ ErasersTyped /\ SweepsTyped /\ Erasing /\ Aging /\ ExpiredWhenDue

--------------------------------------------------------------------------------
(* Steps that touch no row and no erasure. *)
LEMMA ErasingFrame ==
  ASSUME PrivInv, UNCHANGED <<rows, eraser, older>>
  PROVE  ErasersTyped' /\ Erasing'
BY DEF PrivInv, ErasersTyped, Erasing, EraserAt

LEMMA SweepFrame ==
  ASSUME PrivInv, UNCHANGED <<rows, tenantVars, swept>>
  PROVE  ExpiredWhenDue'
BY DEF PrivInv, ExpiredWhenDue, tenantVars

(* What the job leaves of the transcripts. *)
LEMMA TranscriptDaysBound ==
  ASSUME PrivInv, NEW r \in Restaurant
  PROVE  /\ TranscriptDays(r) \in 1..Ceiling
         /\ override[r] \in 1..Ceiling => TranscriptDays(r) = override[r]
<1>1. override[r] \in Int \cup {NoOverride} /\ Ceiling \in Nat \ {0} /\ DefaultDays \in Nat
  BY PrivacyConstants DEF PrivInv, SweepsTyped
<1>2. PICK q \in Int : q = IF override[r] = NoOverride THEN DefaultDays ELSE override[r]
  BY <1>1
<1>3. TranscriptDays(r) = LET capped == IF q < Ceiling THEN q ELSE Ceiling
                          IN  IF capped < 1 THEN 1 ELSE capped
  BY <1>2 DEF TranscriptDays
<1>4. override[r] \in 1..Ceiling => override[r] = q
  BY <1>2, PrivacyConstants
<1> QED
  BY <1>1, <1>3, <1>4

LEMMA PrivInitInv == PrivacyInit => PrivInv
<1> SUFFICES ASSUME PrivacyInit PROVE PrivInv
  OBVIOUS
<1>1. RowsTyped /\ ErasersTyped
  BY DEF PrivacyInit, RowsTyped, ErasersTyped, Gone
<1>2. SweepsTyped /\ Aging
  BY DEF PrivacyInit, SweepsTyped, Aging
<1>3. Erasing
  BY DEF PrivacyInit, Erasing, EraserAt
<1>4. ExpiredWhenDue
  <2>1. \A x \in Turn : rows[x].content = "none"
    BY DEF PrivacyInit, Row
  <2> QED
    BY <2>1 DEF ExpiredWhenDue
<1> QED
  BY <1>1, <1>2, <1>3, <1>4 DEF PrivInv

--------------------------------------------------------------------------------
(* What comes in, and the clock. *)
LEMMA WriteRowInv ==
  ASSUME PrivInv, NEW x \in Row, WriteRow(x)
  PROVE  PrivInv'
<1>1. rows[x].content = "none" /\ UNCHANGED <<day, override, home, eraser, nightly, swept, older>>
  BY DEF WriteRow, tenantVars
<1>2. PICK new : new = [content |-> "held", created |-> day] /\ rows' = [rows EXCEPT ![x] = new]
  BY DEF WriteRow
<1>3. new \in [content : {"none", "held"} \cup Gone, created : Nat] /\ new.content = "held" /\ new.created = day
  BY <1>2 DEF PrivInv, RowsTyped
<1>4. RowsTyped'
  BY <1>1, <1>2, <1>3 DEF PrivInv, RowsTyped
<1>5. rows'[x] = new /\ \A y \in Row : y # x => rows'[y] = rows[y]
  BY <1>2 DEF PrivInv, RowsTyped
<1>6. ErasersTyped' /\ SweepsTyped' /\ Aging'
  BY <1>1 DEF PrivInv, ErasersTyped, SweepsTyped, Aging
<1>7. Erasing'
  <2>1. \A e \in Eraser : older[e] \subseteq Row
    BY PrivacyConstants DEF PrivInv, ErasersTyped
  <2>2. \A e \in Eraser : (EraserAt(e, "orders") \/ EraserAt(e, "turns") \/ EraserAt(e, "done")) => x \notin older[e]
    BY <1>1 DEF PrivInv, Erasing, Gone
  <2> QED
    BY <1>1, <1>5, <2>1, <2>2 DEF PrivInv, Erasing, EraserAt
<1>8. ExpiredWhenDue'
  <2> SUFFICES ASSUME NEW y \in Turn
               PROVE  LET age == swept[home[y]] - rows'[y].created
                      IN  /\ rows'[y].content = "held" => age <= Ceiling
                          /\ rows'[y].content = "expired" =>
                               age > 1 /\ (override[home[y]] \in 1..Ceiling => age > override[home[y]])
    BY <1>1 DEF ExpiredWhenDue
  <2>1. CASE y # x
    BY <1>5, <2>1 DEF Row, PrivInv, ExpiredWhenDue
  <2>2. CASE y = x
    <3>1. home[y] \in Restaurant
      BY DEF PrivInv, SweepsTyped
    <3>2. swept[home[y]] \in Int /\ swept[home[y]] <= nightly.at /\ nightly.at \in Nat /\ nightly.at <= day /\ day \in Nat
      BY <3>1 DEF PrivInv, Aging, SweepsTyped, RowsTyped
    <3>3. swept[home[y]] - day <= Ceiling
      BY <3>2, PrivacyConstants
    <3> QED
      BY <1>3, <1>5, <2>2, <3>3
  <2> QED
    BY <2>1, <2>2
<1> QED
  BY <1>4, <1>6, <1>7, <1>8 DEF PrivInv

LEMMA ClockInv ==
  ASSUME PrivInv, NextDay \/ StartNightly \/ NightlyFails
  PROVE  PrivInv'
<1>1. UNCHANGED <<tenantVars, rows, eraser, swept, older>>
  BY DEF NextDay, StartNightly, NightlyFails
<1>2. /\ day' \in Nat /\ nightly' \in [at : Nat, left : SUBSET Restaurant]
      /\ nightly'.at <= day' /\ nightly.at <= nightly'.at
  BY DEF NextDay, StartNightly, NightlyFails, PrivInv, RowsTyped, SweepsTyped, Aging
<1>3. RowsTyped' /\ SweepsTyped'
  BY <1>1, <1>2 DEF PrivInv, RowsTyped, SweepsTyped, tenantVars
<1>4. Aging'
  BY <1>1, <1>2 DEF PrivInv, Aging, SweepsTyped
<1> QED
  BY <1>1, <1>3, <1>4, ErasingFrame, SweepFrame DEF PrivInv

--------------------------------------------------------------------------------
(* The erasures. *)
LEMMA ErasureReadsInv ==
  ASSUME PrivInv, NEW e \in Eraser, ReadOrders(e) \/ ReadTurns(e) \/ ErasureFails(e)
  PROVE  PrivInv'
<1>1. UNCHANGED <<day, tenantVars, rows, nightly, swept>>
  BY DEF ReadOrders, ReadTurns, ErasureFails
<1>2. RowsTyped' /\ SweepsTyped' /\ Aging'
  BY <1>1 DEF PrivInv, RowsTyped, SweepsTyped, Aging, tenantVars
<1>3. /\ DOMAIN eraser' = Eraser /\ DOMAIN older' = Eraser
      /\ \A f \in Eraser : f # e => eraser'[f] = eraser[f] /\ older'[f] = older[f]
  BY DEF ReadOrders, ReadTurns, ErasureFails, PrivInv, ErasersTyped
<1>4. older'[e] \subseteq Owned
  BY DEF ReadOrders, ReadTurns, ErasureFails, PrivInv, ErasersTyped, Committed
<1>5. /\ EraserAt(e, "orders")' => \A x \in older'[e] : rows[x].content # "none" /\ (x \in Order => x \in eraser'[e].seen)
      /\ EraserAt(e, "turns")' => \A x \in older'[e] : rows[x].content # "none" /\ x \in eraser'[e].seen
      /\ EraserAt(e, "done")' => older'[e] = {}
  <2>1. CASE ReadOrders(e)
    <3>1. /\ eraser'[e].pc = "orders" /\ eraser'[e].seen = Committed(Owned \cap Order)
          /\ older'[e] = Committed(Owned)
      BY <2>1 DEF ReadOrders, PrivInv, ErasersTyped
    <3> QED
      BY <3>1 DEF EraserAt, Committed
  <2>2. CASE ReadTurns(e)
    <3>1. eraser'[e].pc = "turns" /\ eraser'[e].seen = eraser[e].seen \cup Committed(Owned \cap Turn) /\ older' = older
      BY <2>2 DEF ReadTurns, PrivInv, ErasersTyped
    <3>2. \A x \in older[e] : rows[x].content # "none" /\ x \in Owned /\ (x \in Order => x \in eraser[e].seen)
      BY <2>2 DEF ReadTurns, PrivInv, Erasing, ErasersTyped
    <3>3. \A x \in older[e] : x \in Order \/ x \in Committed(Owned \cap Turn)
      BY <3>2, PrivacyConstants DEF Committed, Row
    <3> QED
      BY <3>1, <3>2, <3>3 DEF EraserAt
  <2>3. CASE ErasureFails(e)
    BY <2>3 DEF ErasureFails, EraserAt, PrivInv, ErasersTyped
  <2> QED
    BY <2>1, <2>2, <2>3
<1>6. ErasersTyped' /\ Erasing'
  BY <1>1, <1>3, <1>4, <1>5 DEF PrivInv, ErasersTyped, Erasing, EraserAt
<1>7. ExpiredWhenDue'
  BY <1>1, SweepFrame
<1> QED
  BY <1>2, <1>6, <1>7 DEF PrivInv

(* Rows that are overwritten keep their date and stay written. *)
LEMMA OverwriteRows ==
  ASSUME PrivInv, NEW S, NEW c \in Gone,
         rows' = [x \in Row |-> IF x \in S THEN [rows[x] EXCEPT !.content = c] ELSE rows[x]],
         UNCHANGED day
  PROVE  /\ RowsTyped'
         /\ \A x \in Row : /\ rows'[x].created = rows[x].created
                           /\ x \in S => rows'[x].content = c
                           /\ x \notin S => rows'[x].content = rows[x].content
<1>1. \A x \in Row : rows[x] \in [content : {"none", "held"} \cup Gone, created : Nat]
  BY DEF PrivInv, RowsTyped
<1>2. \A x \in Row : [rows[x] EXCEPT !.content = c] \in [content : {"none", "held"} \cup Gone, created : Nat]
  BY <1>1
<1>3. RowsTyped'
  BY <1>1, <1>2 DEF PrivInv, RowsTyped
<1>4. \A x \in Row : [rows[x] EXCEPT !.content = c].content = c /\ [rows[x] EXCEPT !.content = c].created = rows[x].created
  BY <1>1
<1> QED
  BY <1>3, <1>4

LEMMA CommitErasureInv ==
  ASSUME PrivInv, NEW e \in Eraser, CommitErasure(e)
  PROVE  PrivInv'
<1>1. /\ UNCHANGED <<day, tenantVars, nightly, swept, older>> /\ EraserAt(e, "turns")
      /\ rows' = [x \in Row |-> IF x \in eraser[e].seen THEN [rows[x] EXCEPT !.content = "erased"] ELSE rows[x]]
      /\ eraser' = [eraser EXCEPT ![e] = [pc |-> "done", seen |-> {}]]
  BY DEF CommitErasure
<1>2. PICK S : S = eraser[e].seen
  OBVIOUS
<1>3. /\ RowsTyped'
      /\ \A x \in Row : /\ rows'[x].created = rows[x].created
                        /\ x \in S => rows'[x].content = "erased"
                        /\ x \notin S => rows'[x].content = rows[x].content
  BY <1>1, <1>2, OverwriteRows DEF Gone
<1>4. SweepsTyped' /\ Aging' /\ ErasersTyped'
  BY <1>1 DEF PrivInv, SweepsTyped, Aging, tenantVars, ErasersTyped
<1>5. Erasing'
  <2>1. \A f \in Eraser : older[f] \subseteq Row
    BY PrivacyConstants DEF PrivInv, ErasersTyped
  <2>2. \A x \in older[e] : rows'[x].content \in Gone
    BY <1>1, <1>2, <1>3, <2>1 DEF PrivInv, Erasing, Gone
  <2>3. eraser'[e].pc = "done" /\ \A f \in Eraser : f # e => eraser'[f] = eraser[f]
    BY <1>1 DEF PrivInv, ErasersTyped
  <2>4. \A x \in Row : rows[x].content # "none" => rows'[x].content # "none"
    BY <1>3
  <2>5. \A x \in Row : rows[x].content \in Gone => rows'[x].content \in Gone
    BY <1>3 DEF Gone
  <2> QED
    BY <1>1, <2>1, <2>2, <2>3, <2>4, <2>5 DEF PrivInv, Erasing, EraserAt
<1>6. ExpiredWhenDue'
  BY <1>1, <1>3 DEF PrivInv, ExpiredWhenDue, tenantVars, Row
<1> QED
  BY <1>3, <1>4, <1>5, <1>6 DEF PrivInv

--------------------------------------------------------------------------------
(* The job. *)
LEMMA SweepRestaurantInv ==
  ASSUME PrivInv, NEW r \in Restaurant, SweepRestaurant(r)
  PROVE  PrivInv'
<1>1. /\ UNCHANGED <<day, tenantVars, eraser, older>> /\ r \in nightly.left
      /\ rows' = [x \in Row |-> IF Expired(x, r) THEN [rows[x] EXCEPT !.content = "expired"] ELSE rows[x]]
      /\ nightly' = [nightly EXCEPT !.left = nightly.left \ {r}]
      /\ swept' = [swept EXCEPT ![r] = nightly.at]
  BY DEF SweepRestaurant
<1>2. PICK S : S = {x \in Row : Expired(x, r)}
  OBVIOUS
<1>3. rows' = [x \in Row |-> IF x \in S THEN [rows[x] EXCEPT !.content = "expired"] ELSE rows[x]]
  BY <1>1, <1>2
<1>4. /\ RowsTyped'
      /\ \A x \in Row : /\ rows'[x].created = rows[x].created
                        /\ x \in S => rows'[x].content = "expired"
                        /\ x \notin S => rows'[x].content = rows[x].content
  BY <1>1, <1>3, OverwriteRows DEF Gone
<1>5. nightly'.at = nightly.at /\ nightly' \in [at : Nat, left : SUBSET Restaurant]
  BY <1>1 DEF PrivInv, SweepsTyped
<1>6. SweepsTyped' /\ ErasersTyped'
  BY <1>1, <1>5 DEF PrivInv, SweepsTyped, tenantVars, ErasersTyped
<1>7. Aging'
  BY <1>1, <1>5 DEF PrivInv, Aging, SweepsTyped
<1>8. Erasing'
  <2>1. \A f \in Eraser : older[f] \subseteq Row
    BY PrivacyConstants DEF PrivInv, ErasersTyped
  <2>2. \A x \in Row : /\ rows[x].content # "none" => rows'[x].content # "none"
                      /\ rows[x].content \in Gone => rows'[x].content \in Gone
    BY <1>4 DEF Gone
  <2> QED
    BY <1>1, <2>1, <2>2 DEF PrivInv, Erasing, EraserAt
<1>9. ExpiredWhenDue'
  <2> SUFFICES ASSUME NEW x \in Turn
               PROVE  LET age == swept'[home[x]] - rows'[x].created
                      IN  /\ rows'[x].content = "held" => age <= Ceiling
                          /\ rows'[x].content = "expired" =>
                               age > 1 /\ (override[home[x]] \in 1..Ceiling => age > override[home[x]])
    BY <1>1 DEF ExpiredWhenDue, tenantVars
  <2>1. x \in Row /\ home[x] \in Restaurant /\ rows[x].created \in Nat /\ nightly.at \in Nat
    BY DEF Row, PrivInv, SweepsTyped, RowsTyped
  <2>2. CASE home[x] # r
    <3>1. swept'[home[x]] = swept[home[x]] /\ x \notin S
      BY <1>1, <1>2, <2>1, <2>2 DEF PrivInv, SweepsTyped, Expired
    <3> QED
      BY <1>4, <2>1, <3>1 DEF PrivInv, ExpiredWhenDue
  <2>3. CASE home[x] = r
    <3>1. swept'[home[x]] = nightly.at
      BY <1>1, <2>1, <2>3 DEF PrivInv, SweepsTyped
    <3>2. PICK days \in 1..Ceiling : /\ days = TranscriptDays(r)
                                     /\ override[r] \in 1..Ceiling => days = override[r]
      BY TranscriptDaysBound
    <3>3. CASE x \in S
      <4>1. rows[x].created < nightly.at - days
        BY <1>2, <3>2, <3>3 DEF Expired
      <4> QED
        BY <1>4, <2>1, <2>3, <3>1, <3>2, <3>3, <4>1
    <3>4. CASE x \notin S /\ rows[x].content = "held"
      <4>1. ~(rows[x].created < nightly.at - days)
        BY <1>2, <2>1, <2>3, <3>2, <3>4 DEF Expired
      <4>2. nightly.at - rows[x].created <= Ceiling
        BY <2>1, <4>1, PrivacyConstants
      <4> QED
        BY <1>4, <2>1, <3>1, <3>4, <4>2
    <3>5. CASE x \notin S /\ rows[x].content # "held"
      <4>1. swept[r] \in Int /\ swept[r] <= nightly.at
        BY DEF PrivInv, SweepsTyped, Aging
      <4>2. rows[x].content = "expired" =>
              /\ swept[r] - rows[x].created > 1
              /\ override[r] \in 1..Ceiling => swept[r] - rows[x].created > override[r]
        BY <2>3 DEF PrivInv, ExpiredWhenDue
      <4>3. PICK old \in Int : old = swept[r]
        BY <4>1
      <4>4. nightly.at - rows[x].created >= old - rows[x].created
        BY <2>1, <4>1, <4>3
      <4> QED
        BY <1>4, <2>1, <2>3, <3>1, <3>5, <4>2, <4>3, <4>4, PrivacyConstants
    <3> QED
      BY <3>3, <3>4, <3>5
  <2> QED
    BY <2>2, <2>3
<1> QED
  BY <1>4, <1>6, <1>7, <1>8, <1>9 DEF PrivInv

--------------------------------------------------------------------------------
LEMMA PrivStepInv == PrivInv /\ [PrivacyNext]_privacyVars => PrivInv'
<1> SUFFICES ASSUME PrivInv, [PrivacyNext]_privacyVars PROVE PrivInv'
  OBVIOUS
<1>1. CASE \E x \in Row : WriteRow(x)
  BY <1>1, WriteRowInv
<1>2. CASE NextDay \/ StartNightly \/ NightlyFails
  BY <1>2, ClockInv
<1>3. CASE \E e \in Eraser : ReadOrders(e) \/ ReadTurns(e) \/ CommitErasure(e) \/ ErasureFails(e)
  BY <1>3, ErasureReadsInv, CommitErasureInv
<1>4. CASE \E r \in Restaurant : SweepRestaurant(r)
  BY <1>4, SweepRestaurantInv
<1>5. CASE UNCHANGED privacyVars
  <2>1. UNCHANGED <<day, tenantVars, rows, eraser, nightly, swept, older>>
    BY <1>5 DEF privacyVars
  <2>2. RowsTyped' /\ SweepsTyped' /\ Aging'
    BY <2>1 DEF PrivInv, RowsTyped, SweepsTyped, Aging, tenantVars
  <2> QED
    BY <2>1, <2>2, ErasingFrame, SweepFrame DEF PrivInv
<1> QED
  BY <1>1, <1>2, <1>3, <1>4, <1>5 DEF PrivacyNext

LEMMA PrivInvariant == PrivacySpec => []PrivInv
BY PrivInitInv, PrivStepInv, PTL DEF PrivacySpec

(* After an erasure nothing is left of what it was asked to erase.          *)
THEOREM ErasedAlwaysGone == PrivacySpec => []ErasedIsGone
<1>1. PrivInv => ErasedIsGone
  BY DEF PrivInv, Erasing, ErasedIsGone
<1> QED
  BY <1>1, PrivInvariant, PTL

(* Transcripts expire when they are due and not before.                     *)
THEOREM AlwaysExpiredWhenDue == PrivacySpec => []ExpiredWhenDue
<1>1. PrivInv => ExpiredWhenDue
  BY DEF PrivInv
<1> QED
  BY <1>1, PrivInvariant, PTL

(* The clocks, rows, erasures and nightly jobs of modules/privacy and      *)
(* workers/retention.py keep their types.                                  *)
THEOREM PrivacyTypeCorrect == PrivacySpec => []PrivacyTypeOK
<1>1. PrivacyInit => PrivacyTypeOK
  <2> SUFFICES ASSUME PrivacyInit PROVE PrivacyTypeOK
    OBVIOUS
  <2>1. 0 \in 0..MaxDay /\ -1 \in -1..MaxDay
    BY PrivacyConstants
  <2> QED
    BY <2>1 DEF PrivacyInit, PrivacyTypeOK
<1>2. PrivacyTypeOK /\ [PrivacyNext]_privacyVars => PrivacyTypeOK'
  <2> SUFFICES ASSUME PrivacyTypeOK, [PrivacyNext]_privacyVars PROVE PrivacyTypeOK'
    OBVIOUS
  <2> DEFINE Kept == [content : {"none", "held"} \cup Gone, created : 0..MaxDay]
             Eras == [pc : {"new", "orders", "turns", "done"}, seen : SUBSET Row]
  <2>1. /\ day \in 0..MaxDay /\ override \in [Restaurant -> Override] /\ home \in [Turn -> Restaurant]
        /\ rows \in [Row -> Kept] /\ eraser \in [Eraser -> Eras]
        /\ nightly \in [at : 0..MaxDay, left : SUBSET Restaurant]
        /\ swept \in [Restaurant -> -1..MaxDay] /\ older \in [Eraser -> SUBSET Row]
    BY DEF PrivacyTypeOK
  <2>2. ASSUME NEW S \in SUBSET Row PROVE Committed(S) \in SUBSET Row
    BY DEF Committed
  <2>3. ASSUME NEW S, NEW c \in Gone, rows' = [x \in Row |-> IF x \in S THEN [rows[x] EXCEPT !.content = c] ELSE rows[x]]
        PROVE  rows' \in [Row -> Kept]
    <3> DEFINE emptied(x) == [rows[x] EXCEPT !.content = c]
    <3>1. \A x \in Row : emptied(x) \in Kept /\ rows[x] \in Kept
      BY <2>1
    <3>2. rows' = [x \in Row |-> IF x \in S THEN emptied(x) ELSE rows[x]]
      BY <2>3
    <3> HIDE DEF emptied, Kept
    <3>3. \A x \in Row : (IF x \in S THEN emptied(x) ELSE rows[x]) \in Kept
      BY <3>1
    <3> QED
      BY <3>2, <3>3
  <2>4. Owned \cap Order \in SUBSET Row /\ Owned \cap Turn \in SUBSET Row /\ Owned \in SUBSET Row
    BY PrivacyConstants
  <2>5. ASSUME NEW x \in Row, WriteRow(x) PROVE PrivacyTypeOK'
    <3>1. [content |-> "held", created |-> day] \in Kept
      BY <2>1
    <3>2. rows' \in [Row -> Kept]
      <4> HIDE DEF Kept
      <4> QED
        BY <2>1, <2>5, <3>1 DEF WriteRow
    <3> QED
      BY <2>1, <2>5, <3>2 DEF WriteRow, PrivacyTypeOK, tenantVars
  <2>6. ASSUME NextDay PROVE PrivacyTypeOK'
    <3>1. day' \in 0..MaxDay
      BY <2>1, <2>6, PrivacyConstants DEF NextDay
    <3> QED
      BY <2>1, <2>6, <3>1 DEF NextDay, PrivacyTypeOK, tenantVars
  <2>7. ASSUME NEW e \in Eraser, NEW pc \in {"orders", "turns", "done"}, NEW seen \in SUBSET Row,
               eraser' = [eraser EXCEPT ![e] = [pc |-> pc, seen |-> seen]]
        PROVE  eraser' \in [Eraser -> Eras]
    <3>1. [pc |-> pc, seen |-> seen] \in Eras
      OBVIOUS
    <3> HIDE DEF Eras
    <3> QED
      BY <2>1, <2>7, <3>1
  <2>8. ASSUME NEW e \in Eraser, ReadOrders(e) PROVE PrivacyTypeOK'
    <3>1. Committed(Owned \cap Order) \in SUBSET Row /\ Committed(Owned) \in SUBSET Row
      BY <2>2, <2>4
    <3>2. eraser' \in [Eraser -> Eras] /\ older' \in [Eraser -> SUBSET Row]
      BY <2>1, <2>7, <2>8, <3>1 DEF ReadOrders
    <3> QED
      BY <2>1, <2>8, <3>2 DEF ReadOrders, PrivacyTypeOK, tenantVars
  <2>9. ASSUME NEW e \in Eraser, ReadTurns(e) PROVE PrivacyTypeOK'
    <3>1. eraser[e].seen \cup Committed(Owned \cap Turn) \in SUBSET Row
      BY <2>1, <2>2, <2>4
    <3>2. eraser' \in [Eraser -> Eras]
      BY <2>7, <2>9, <3>1 DEF ReadTurns
    <3> QED
      BY <2>1, <2>9, <3>2 DEF ReadTurns, PrivacyTypeOK, tenantVars
  <2>10. ASSUME NEW e \in Eraser, CommitErasure(e) PROVE PrivacyTypeOK'
    <3>1. eraser' \in [Eraser -> Eras]
      <4>1. [pc |-> "done", seen |-> {}] \in Eras
        OBVIOUS
      <4>2. eraser' = [eraser EXCEPT ![e] = [pc |-> "done", seen |-> {}]]
        BY <2>10 DEF CommitErasure
      <4> HIDE DEF Eras
      <4> QED
        BY <2>1, <4>1, <4>2
    <3>2. rows' \in [Row -> Kept]
      <4>1. "erased" \in Gone
        BY DEF Gone
      <4>2. PICK S, c : S = eraser[e].seen /\ c = "erased"
        OBVIOUS
      <4>3. rows' = [x \in Row |-> IF x \in S THEN [rows[x] EXCEPT !.content = c] ELSE rows[x]]
        BY <2>10, <4>2 DEF CommitErasure
      <4> HIDE DEF Kept
      <4> QED
        BY <2>3, <4>1, <4>2, <4>3, Zenon
    <3> QED
      BY <2>1, <2>10, <3>1, <3>2 DEF CommitErasure, PrivacyTypeOK, tenantVars
  <2>11. ASSUME NEW e \in Eraser, ErasureFails(e) PROVE PrivacyTypeOK'
    <3>1. eraser' \in [Eraser -> Eras]
      <4>1. [pc |-> "done", seen |-> {}] \in Eras
        OBVIOUS
      <4>2. eraser' = [eraser EXCEPT ![e] = [pc |-> "done", seen |-> {}]]
        BY <2>11 DEF ErasureFails
      <4> HIDE DEF Eras
      <4> QED
        BY <2>1, <4>1, <4>2
    <3>2. older' \in [Eraser -> SUBSET Row]
      BY <2>1, <2>11 DEF ErasureFails
    <3> QED
      BY <2>1, <2>11, <3>1, <3>2 DEF ErasureFails, PrivacyTypeOK, tenantVars
  <2>12. ASSUME StartNightly \/ NightlyFails PROVE PrivacyTypeOK'
    <3>1. nightly' \in [at : 0..MaxDay, left : SUBSET Restaurant]
      BY <2>1, <2>12 DEF StartNightly, NightlyFails
    <3> QED
      BY <2>1, <2>12, <3>1 DEF StartNightly, NightlyFails, PrivacyTypeOK, tenantVars
  <2>13. ASSUME NEW r \in Restaurant, SweepRestaurant(r) PROVE PrivacyTypeOK'
    <3>1. rows' \in [Row -> Kept]
      <4>1. "expired" \in Gone
        BY DEF Gone
      <4>2. PICK S, c : S = {x \in Row : Expired(x, r)} /\ c = "expired"
        OBVIOUS
      <4>3. rows' = [x \in Row |-> IF x \in S THEN [rows[x] EXCEPT !.content = c] ELSE rows[x]]
        BY <2>13, <4>2 DEF SweepRestaurant
      <4> HIDE DEF Kept
      <4> QED
        BY <2>3, <4>1, <4>2, <4>3, Zenon
    <3>2. nightly' \in [at : 0..MaxDay, left : SUBSET Restaurant]
      BY <2>1, <2>13 DEF SweepRestaurant
    <3>3. swept' \in [Restaurant -> -1..MaxDay]
      <4>1. nightly.at \in -1..MaxDay
        BY <2>1, PrivacyConstants
      <4> QED
        BY <2>1, <2>13, <4>1 DEF SweepRestaurant
    <3> QED
      BY <2>1, <2>13, <3>1, <3>2, <3>3 DEF SweepRestaurant, PrivacyTypeOK, tenantVars
  <2>14. CASE UNCHANGED privacyVars
    BY <2>1, <2>14 DEF privacyVars, tenantVars, PrivacyTypeOK
  <2> QED
    BY <2>5, <2>6, <2>8, <2>9, <2>10, <2>11, <2>12, <2>13, <2>14 DEF PrivacyNext
<1> QED
  BY <1>1, <1>2, PTL DEF PrivacySpec

--------------------------------------------------------------------------------
(***************************************************************************)
(* Limits, for any capacity, refill, budget, window and time.              *)
(*                                                                         *)
(* Whatever was granted since a time fits a bucket full at that time and   *)
(* what was refilled since (BucketInv); an amount of a later time is       *)
(* nothing, so that a sum up to now is the sum of everything.              *)
(***************************************************************************)

(* The sum of amounts by time is the one its recursion describes. *)
LEMMA TotalUnfolds ==
  ASSUME NEW amount \in [Time -> Nat], NEW s \in Int
  PROVE  /\ Total(amount, s, 0) = IF s <= 0 THEN amount[0] ELSE 0
         /\ \A t \in 1..MaxTime :
              Total(amount, s, t) = IF s <= t THEN Total(amount, s, t - 1) + amount[t] ELSE Total(amount, s, t - 1)
         /\ \A t \in Time : Total(amount, s, t) \in Nat
<1> DEFINE step == [p \in (1..MaxTime) \X Nat |-> IF s <= p[1] THEN p[2] + amount[p[1]] ELSE p[2]]
           first == IF s <= 0 THEN amount[0] ELSE 0
           Sum(f) == f = [u \in Time |-> IF u = 0 THEN IF s <= 0 THEN amount[0] ELSE 0
                                         ELSE IF s <= u THEN f[u - 1] + amount[u] ELSE f[u - 1]]
<1>1. MaxTime \in Nat /\ first \in Nat /\ step \in StepsOn(MaxTime, Nat)
  BY LimitConstants DEF Time, StepsOn
<1> HIDE DEF step, first
<1>0. \E f : Follows(f, MaxTime, Nat, first, step)
  BY <1>1, RecursionExists
<1>2. PICK f \in [0..MaxTime -> Nat] : f[0] = first /\ \A n \in 1..MaxTime : f[n] = step[<<n, f[n - 1]>>]
  BY <1>0 DEF Follows
<1> USE DEF step, first
<1>3. \A n \in 1..MaxTime : f[n] = IF s <= n THEN f[n - 1] + amount[n] ELSE f[n - 1]
  <2> TAKE n \in 1..MaxTime
  <2>1. n - 1 \in 0..MaxTime /\ f[n - 1] \in Nat /\ <<n, f[n - 1]>> \in (1..MaxTime) \X Nat
    BY <1>1, <1>2
  <2> QED
    BY <1>2, <2>1
<1>4. Sum(f)
  BY <1>2, <1>3 DEF Time
<1>5. \A g : Sum(g) => g = f
  <2> SUFFICES ASSUME NEW g, Sum(g) PROVE g = f
    OBVIOUS
  <2>1. g = [u \in 0..MaxTime |-> g[u]] /\ f = [u \in 0..MaxTime |-> f[u]]
    BY <1>2 DEF Time
  <2>2. g[0] = f[0]
    BY <1>1, <1>2 DEF Time
  <2>3. \A n \in 0..MaxTime - 1 : g[n] = f[n] => g[n + 1] = f[n + 1]
    BY <1>1, <1>3 DEF Time
  <2>4. MaxTime \in Nat
    BY <1>1
  <2> QED
    BY <2>1, <2>2, <2>3, <2>4, RecursionUnique
<1>6. f = CHOOSE g : Sum(g)
  BY <1>4, <1>5, Zenon
<1>7. \A t \in Time : Total(amount, s, t) = f[t]
  BY <1>6 DEF Total
<1> QED
  BY <1>1, <1>2, <1>3, <1>7 DEF Time

LEMMA TotalStep ==
  ASSUME NEW amount \in [Time -> Nat], NEW s \in Int, NEW n \in 0..MaxTime - 1
  PROVE  /\ n \in Nat /\ n \in Time /\ n + 1 \in Time
         /\ Total(amount, s, n) \in Nat /\ amount[n + 1] \in Nat
         /\ Total(amount, s, n + 1) = IF s <= n + 1 THEN Total(amount, s, n) + amount[n + 1] ELSE Total(amount, s, n)
<1>1. MaxTime \in Nat /\ Time = 0..MaxTime
  BY LimitConstants DEF Time
<1>2. n \in Time /\ n + 1 \in 1..MaxTime /\ (n + 1) - 1 = n
  BY <1>1
<1>3. Total(amount, s, n + 1) =
        IF s <= n + 1 THEN Total(amount, s, (n + 1) - 1) + amount[n + 1] ELSE Total(amount, s, (n + 1) - 1)
  BY <1>2, TotalUnfolds
<1>4. Total(amount, s, n) \in Nat
  BY <1>2, TotalUnfolds
<1> QED
  BY <1>1, <1>2, <1>3, <1>4

(* A sum is no larger than one whose amounts, from s to t, are no smaller. *)
LEMMA TotalMonotone ==
  ASSUME NEW f \in [Time -> Nat], NEW g \in [Time -> Nat], NEW s \in Int, NEW t \in Time,
         \A u \in Time : s <= u /\ u <= t => f[u] <= g[u]
  PROVE  Total(f, s, t) <= Total(g, s, t)
<1> DEFINE S == {u \in Time : u <= t => Total(f, s, u) <= Total(g, s, u)}
<1>1. MaxTime \in Nat /\ Time = 0..MaxTime
  BY LimitConstants DEF Time
<1>2. 0 \in S
  <2>1. 0 \in Time /\ (s <= 0 => f[0] <= g[0]) /\ f[0] \in Nat /\ g[0] \in Nat
    BY <1>1
  <2>2. Total(f, s, 0) = IF s <= 0 THEN f[0] ELSE 0
    BY TotalUnfolds
  <2>3. Total(g, s, 0) = IF s <= 0 THEN g[0] ELSE 0
    BY TotalUnfolds
  <2> QED
    BY <2>1, <2>2, <2>3
<1>3. ASSUME NEW n \in 0..MaxTime - 1, n \in S PROVE n + 1 \in S
  <2>1. /\ n \in Nat /\ n + 1 \in Time /\ Total(f, s, n) \in Nat /\ f[n + 1] \in Nat
        /\ Total(f, s, n + 1) = IF s <= n + 1 THEN Total(f, s, n) + f[n + 1] ELSE Total(f, s, n)
    BY TotalStep
  <2>2. /\ Total(g, s, n) \in Nat /\ g[n + 1] \in Nat
        /\ Total(g, s, n + 1) = IF s <= n + 1 THEN Total(g, s, n) + g[n + 1] ELSE Total(g, s, n)
    BY TotalStep
  <2>3. n + 1 <= t => Total(f, s, n) <= Total(g, s, n) /\ (s <= n + 1 => f[n + 1] <= g[n + 1])
    BY <1>1, <1>3, <2>1
  <2>4. n + 1 <= t => Total(f, s, n + 1) <= Total(g, s, n + 1)
    BY <2>1, <2>2, <2>3
  <2> QED
    BY <2>1, <2>4
<1>4. 0..MaxTime \subseteq S
  <2> HIDE DEF S
  <2> QED
    BY <1>1, <1>2, <1>3, UpToInductionOnSet
<1>5. t \in S
  BY <1>1, <1>4
<1> QED
  BY <1>1, <1>5

(* Where there is nothing, there is nothing to add. *)
LEMMA TotalZero ==
  ASSUME NEW f \in [Time -> Nat], NEW s \in Int, NEW t \in Time,
         \A u \in Time : s <= u /\ u <= t => f[u] = 0
  PROVE  Total(f, s, t) = 0
<1> DEFINE S == {u \in Time : u <= t => Total(f, s, u) = 0}
<1>1. MaxTime \in Nat /\ Time = 0..MaxTime
  BY LimitConstants DEF Time
<1>2. 0 \in S
  BY <1>1, TotalUnfolds
<1>3. ASSUME NEW n \in 0..MaxTime - 1, n \in S PROVE n + 1 \in S
  <2>1. /\ n \in Nat /\ n + 1 \in Time
        /\ Total(f, s, n + 1) = IF s <= n + 1 THEN Total(f, s, n) + f[n + 1] ELSE Total(f, s, n)
    BY TotalStep
  <2> QED
    BY <1>1, <1>3, <2>1
<1>4. 0..MaxTime \subseteq S
  <2> HIDE DEF S
  <2> QED
    BY <1>1, <1>2, <1>3, UpToInductionOnSet
<1>5. t \in S
  BY <1>1, <1>4
<1> QED
  BY <1>1, <1>5

(* One more amount changes the sums it is within. *)
LEMMA TotalAdd ==
  ASSUME NEW f \in [Time -> Nat], NEW k \in Time, NEW c \in Nat, NEW s \in Int, NEW t \in Time,
         NEW g \in [Time -> Nat], \A u \in Time : g[u] = IF u = k THEN f[u] + c ELSE f[u]
  PROVE  Total(g, s, t) = IF s <= k /\ k <= t THEN Total(f, s, t) + c ELSE Total(f, s, t)
<1> DEFINE Sum(u) == IF s <= k /\ k <= u THEN Total(f, s, u) + c ELSE Total(f, s, u)
           S == {u \in Time : Total(g, s, u) = Sum(u)}
<1>1. MaxTime \in Nat /\ Time = 0..MaxTime
  BY LimitConstants DEF Time
<1>2. \A u \in Time : g[u] = IF u = k THEN f[u] + c ELSE f[u]
  OBVIOUS
<1>3. 0 \in S
  <2>1. Total(f, s, 0) = IF s <= 0 THEN f[0] ELSE 0
    BY TotalUnfolds
  <2>2. Total(g, s, 0) = IF s <= 0 THEN g[0] ELSE 0
    BY <1>2, TotalUnfolds
  <2>3. 0 \in Time /\ k \in Nat /\ f[0] \in Nat
    BY <1>1
  <2> QED
    BY <1>2, <2>1, <2>2, <2>3
<1>4. ASSUME NEW n \in 0..MaxTime - 1, n \in S PROVE n + 1 \in S
  <2>1. /\ n \in Nat /\ n + 1 \in Time /\ Total(f, s, n) \in Nat /\ f[n + 1] \in Nat
        /\ Total(f, s, n + 1) = IF s <= n + 1 THEN Total(f, s, n) + f[n + 1] ELSE Total(f, s, n)
    BY TotalStep
  <2>2. Total(g, s, n + 1) = IF s <= n + 1 THEN Total(g, s, n) + g[n + 1] ELSE Total(g, s, n)
    BY <1>2, TotalStep
  <2>3. Total(g, s, n + 1) = Sum(n + 1)
    BY <1>1, <1>2, <1>4, <2>1, <2>2
  <2> QED
    BY <2>1, <2>3
<1>5. 0..MaxTime \subseteq S
  <2> HIDE DEF S
  <2> QED
    BY <1>1, <1>3, <1>4, UpToInductionOnSet
<1>6. t \in S
  BY <1>1, <1>5
<1> QED
  BY <1>2, <1>6

--------------------------------------------------------------------------------
Available == IF bucket = <<>> THEN Capacity ELSE Refilled(bucket, now).tokens

NothingAhead == \A t \in Time : t > now => granted[t] = 0

TokensLeft ==
  /\ bucket # <<>> => bucket.updated_at <= now
  /\ \A s \in 0..now : Total(granted, s, now) + Available <= Capacity + (now - s) * RefillPerSecond

BucketInv == LimitTypeOK /\ NothingAhead /\ TokensLeft /\ NeverOverRate

LEMMA LimitBounds ==
  /\ Capacity \in Nat \ {0} /\ RefillPerSecond \in Nat \ {0} /\ WindowSeconds \in Nat \ {0}
  /\ Budget \in Nat /\ CooldownSeconds \in Nat /\ MaxTime \in Nat /\ MaxInFlight \in Nat /\ MaxCalls \in Nat
  /\ Time = 0..MaxTime /\ 0 \in Time /\ Time \subseteq Nat
BY LimitConstants DEF Time

(* A refilled bucket holds no more than its capacity. *)
LEMMA RefilledType ==
  ASSUME NEW b \in [tokens : 0..Capacity, updated_at : Time], NEW t \in Nat
  PROVE  /\ Refilled(b, t).tokens \in 0..Capacity /\ Refilled(b, t).updated_at = t
         /\ Refilled(b, t) = [tokens |-> Refilled(b, t).tokens, updated_at |-> t]
         /\ b.updated_at <= t =>
              /\ Refilled(b, t).tokens = Smaller(Capacity, b.tokens + (t - b.updated_at) * RefillPerSecond)
              /\ Refilled(b, t + 1).tokens <= Refilled(b, t).tokens + RefillPerSecond
<1>1. b.tokens \in 0..Capacity /\ b.updated_at \in Nat
  BY LimitBounds
<1> DEFINE e == Larger(0, t - b.updated_at)
<1>2. e \in Nat /\ (b.updated_at <= t => e = t - b.updated_at /\ Larger(0, (t + 1) - b.updated_at) = e + 1)
  BY <1>1 DEF Larger
<1>3. e * RefillPerSecond \in Nat /\ (e + 1) * RefillPerSecond = e * RefillPerSecond + RefillPerSecond
  BY <1>2, LimitBounds
<1> HIDE DEF e
<1>4. /\ Refilled(b, t) = [tokens |-> Smaller(Capacity, b.tokens + e * RefillPerSecond), updated_at |-> t]
      /\ b.updated_at <= t =>
           Refilled(b, t + 1).tokens = Smaller(Capacity, b.tokens + (e + 1) * RefillPerSecond)
  BY <1>1, <1>2 DEF Refilled, e
<1>5. \A x \in Nat : Smaller(Capacity, x) \in 0..Capacity /\ Smaller(Capacity, x + RefillPerSecond) <= Smaller(Capacity, x) + RefillPerSecond
  BY LimitBounds DEF Smaller
<1>6. PICK x \in Nat : x = b.tokens + e * RefillPerSecond /\ x + RefillPerSecond = b.tokens + (e + 1) * RefillPerSecond
  BY <1>1, <1>3, LimitBounds
<1>7. /\ Refilled(b, t).tokens = Smaller(Capacity, x) /\ Refilled(b, t).updated_at = t
      /\ Refilled(b, t) = [tokens |-> Refilled(b, t).tokens, updated_at |-> t]
      /\ b.updated_at <= t => Refilled(b, t + 1).tokens = Smaller(Capacity, x + RefillPerSecond)
  BY <1>4, <1>6
<1> QED
  BY <1>2, <1>5, <1>6, <1>7

(* What is left at a time bounds what was granted up to then, and so up to  *)
(* a later time at which no more was granted.                               *)
LEMMA RateFromTokens ==
  ASSUME NEW amount \in [Time -> Nat], NEW n \in Time, NEW left \in Nat,
         \A t \in Time : t > n => amount[t] = 0,
         \A s \in 0..n : Total(amount, s, n) + left <= Capacity + (n - s) * RefillPerSecond,
         NEW s \in Time, NEW t \in Time, s <= t, n <= t
  PROVE  Total(amount, s, t) <= Capacity + (t - s) * RefillPerSecond
<1>1. n \in Nat /\ s \in Nat /\ t \in Nat /\ (t - s) * RefillPerSecond \in Nat
  BY LimitBounds
<1>2. CASE n < s
  <2>1. Total(amount, s, t) = 0
    BY <1>1, <1>2, TotalZero
  <2>2. PICK x \in Nat : x = (t - s) * RefillPerSecond
    BY <1>1
  <2>3. 0 <= Capacity + x
    BY LimitBounds
  <2> QED
    BY <2>1, <2>2, <2>3
<1>3. CASE s <= n
  <2>1. Total(amount, s, t) = Total(amount, s, n)
    <3> DEFINE S == {m \in Time : n <= m => Total(amount, s, m) = Total(amount, s, n)}
    <3>1. 0 \in S
      BY <1>1, LimitBounds
    <3>2. ASSUME NEW m \in 0..MaxTime - 1, m \in S PROVE m + 1 \in S
      <4>1. /\ m \in Nat /\ m + 1 \in Time /\ Total(amount, s, m) \in Nat
            /\ Total(amount, s, m + 1) =
                 IF s <= m + 1 THEN Total(amount, s, m) + amount[m + 1] ELSE Total(amount, s, m)
        BY <1>1, TotalStep
      <4>2. n <= m => amount[m + 1] = 0
        BY <1>1, <4>1
      <4>3. n <= m + 1 => Total(amount, s, m + 1) = Total(amount, s, n)
        BY <1>1, <3>2, <4>1, <4>2
      <4> QED
        BY <4>1, <4>3
    <3>3. 0..MaxTime \subseteq S
      <4> HIDE DEF S
      <4> QED
        BY <3>1, <3>2, UpToInductionOnSet, LimitBounds
    <3> QED
      BY <1>1, <3>3, LimitBounds
  <2>2. Total(amount, s, n) \in Nat
    BY <1>1, TotalUnfolds
  <2>3. Total(amount, s, n) + left <= Capacity + (n - s) * RefillPerSecond
    BY <1>1, <1>3
  <2>4. (n - s) * RefillPerSecond <= (t - s) * RefillPerSecond /\ (n - s) * RefillPerSecond \in Nat
    BY <1>1, <1>3, LimitBounds
  <2>5. PICK x \in Nat, y \in Nat : x = (n - s) * RefillPerSecond /\ y = (t - s) * RefillPerSecond
    BY <1>1, <2>4
  <2>6. x <= y /\ Total(amount, s, n) + left <= Capacity + x
    BY <2>3, <2>4, <2>5
  <2>7. Total(amount, s, n) <= Capacity + y
    BY <2>2, <2>6, LimitBounds
  <2> QED
    BY <2>1, <2>5, <2>7
<1> QED
  BY <1>1, <1>2, <1>3

LEMMA AvailableType == LimitTypeOK => Available \in 0..Capacity
<1> SUFFICES ASSUME LimitTypeOK PROVE Available \in 0..Capacity
  OBVIOUS
<1>1. CASE bucket = <<>>
  BY <1>1, LimitBounds DEF Available
<1>2. CASE bucket # <<>>
  <2>1. bucket \in [tokens : 0..Capacity, updated_at : Time] /\ now \in Nat
    BY <1>2, LimitBounds DEF LimitTypeOK
  <2>2. Refilled(bucket, now).tokens \in 0..Capacity
    BY <2>1, RefilledType
  <2> QED
    BY <1>2, <2>2 DEF Available
<1> QED
  BY <1>1, <1>2

--------------------------------------------------------------------------------
LEMMA BucketInitInv == LimitInit => BucketInv
<1> SUFFICES ASSUME LimitInit PROVE BucketInv
  OBVIOUS
<1>1. /\ now = 0 /\ bucket = <<>> /\ granted \in [Time -> Nat] /\ \A t \in Time : granted[t] = 0
  BY DEF LimitInit, NoEvents
<1>2. LimitTypeOK
  BY LimitBounds DEF LimitInit, LimitTypeOK, NoEvents
<1>3. NothingAhead
  BY <1>1 DEF NothingAhead
<1>4. TokensLeft
  <2>1. Total(granted, 0, 0) = 0
    BY <1>1, TotalZero, LimitBounds
  <2> QED
    BY <1>1, <2>1, LimitBounds DEF TokensLeft, Available
<1>5. NeverOverRate
  <2>1. /\ now \in Time /\ Available \in Nat
        /\ \A t \in Time : t > now => granted[t] = 0
        /\ \A s \in 0..now : Total(granted, s, now) + Available <= Capacity + (now - s) * RefillPerSecond
    BY <1>1, <1>2, <1>3, <1>4, AvailableType, LimitBounds DEF NothingAhead, TokensLeft
  <2>2. \A t \in Time : now <= t
    BY <1>1, LimitBounds
  <2> HIDE DEF Available
  <2> QED
    BY <1>1, <2>1, <2>2, RateFromTokens DEF NeverOverRate
<1> QED
  BY <1>2, <1>3, <1>4, <1>5 DEF BucketInv

(* The bucket as a request finds it. *)
LEMMA FoundBucket ==
  ASSUME BucketInv
  PROVE  LET b == Refilled(IF bucket = <<>> THEN NewBucket ELSE bucket, now)
         IN  /\ b.tokens = Available /\ b.tokens \in 0..Capacity /\ b.updated_at = now
             /\ b \in [tokens : 0..Capacity, updated_at : Time]
<1> DEFINE found == IF bucket = <<>> THEN NewBucket ELSE bucket
<1>1. found \in [tokens : 0..Capacity, updated_at : Time] /\ now \in Time /\ now \in Nat
  BY LimitBounds DEF BucketInv, LimitTypeOK, NewBucket
<1>2. bucket = <<>> => Refilled(found, now).tokens = Capacity
  <2> SUFFICES ASSUME bucket = <<>> PROVE Refilled(NewBucket, now).tokens = Capacity
    OBVIOUS
  <2>1. (now - now) * RefillPerSecond = 0 /\ NewBucket.tokens = Capacity /\ NewBucket.updated_at = now
    BY <1>1, LimitBounds DEF NewBucket
  <2>2. Refilled(NewBucket, now).tokens = Smaller(Capacity, Capacity + 0)
    BY <1>1, <2>1, RefilledType
  <2> QED
    BY <2>2, LimitBounds DEF Smaller
<1> HIDE DEF found
<1>3. /\ Refilled(found, now).tokens \in 0..Capacity /\ Refilled(found, now).updated_at = now
      /\ Refilled(found, now) = [tokens |-> Refilled(found, now).tokens, updated_at |-> now]
  BY <1>1, RefilledType
<1>4. Refilled(found, now) \in [tokens : 0..Capacity, updated_at : Time]
  BY <1>1, <1>3
<1> QED
  BY <1>2, <1>3, <1>4 DEF found, Available

(* A request takes from the bucket what it is granted. *)
LEMMA AllowRequestInv ==
  ASSUME BucketInv, NEW cost \in Cost, AllowRequest(cost)
  PROVE  BucketInv'
<1> DEFINE b == Refilled(IF bucket = <<>> THEN NewBucket ELSE bucket, now)
           c == IF b.tokens >= cost THEN cost ELSE 0
           after == b.tokens - c
<1>1. /\ b.tokens = Available /\ b.tokens \in 0..Capacity /\ b.updated_at = now
      /\ b \in [tokens : 0..Capacity, updated_at : Time]
  BY FoundBucket
<1>2. /\ UNCHANGED <<now, breaker, events, inFlight>> /\ calls' = calls + 1 /\ calls < MaxCalls
      /\ now \in Time /\ now \in Nat /\ granted \in [Time -> Nat]
  BY LimitBounds DEF AllowRequest, breakerVars, BucketInv, LimitTypeOK
<1>3. c \in Nat /\ after \in 0..Capacity
  BY <1>1, LimitConstants, LimitBounds
<1>4. bucket' = [tokens |-> after, updated_at |-> now]
  <2>1. bucket' = IF b.tokens >= cost THEN [b EXCEPT !.tokens = @ - cost] ELSE b
    BY DEF AllowRequest
  <2>2. b = [tokens |-> b.tokens, updated_at |-> now]
    BY <1>1
  <2> HIDE DEF b
  <2> QED
    BY <1>1, <2>1, <2>2
<1>5. granted' = [granted EXCEPT ![now] = @ + c]
  <2>1. granted' = IF b.tokens >= cost THEN [granted EXCEPT ![now] = @ + cost] ELSE granted
    BY DEF AllowRequest
  <2>2. granted[now] \in Nat
    BY <1>2
  <2> HIDE DEF b
  <2>3. CASE b.tokens >= cost
    BY <2>1, <2>3
  <2>4. CASE ~(b.tokens >= cost)
    <3>1. granted[now] = granted[now] + 0
      BY <2>2
    <3>2. granted = [granted EXCEPT ![now] = @ + 0]
      BY <1>2, <3>1
    <3> QED
      BY <2>1, <2>4, <3>2
  <2> QED
    BY <2>3, <2>4
<1> HIDE DEF b, c, after
<1>6. LimitTypeOK'
  <2>1. bucket' \in [tokens : 0..Capacity, updated_at : Time]
    BY <1>2, <1>3, <1>4
  <2>2. granted' \in [Time -> Nat]
    BY <1>2, <1>3, <1>5
  <2>3. calls' \in 0..MaxCalls
    BY <1>2, LimitBounds DEF BucketInv, LimitTypeOK
  <2> QED
    BY <1>2, <2>1, <2>2, <2>3 DEF BucketInv, LimitTypeOK
<1>11. /\ granted' \in [Time -> Nat]
       /\ \A u \in Time : granted'[u] = IF u = now THEN granted[u] + c ELSE granted[u]
  BY <1>2, <1>3, <1>5
<1>7. NothingAhead'
  BY <1>2, <1>5, LimitBounds DEF BucketInv, NothingAhead
<1>8. Available' = after
  <2>1. bucket' # <<>>
    BY <1>4
  <2>2. (now - now) * RefillPerSecond = 0
    BY <1>2, LimitBounds
  <2>3. Refilled(bucket', now).tokens = Smaller(Capacity, after + 0)
    BY <1>2, <1>3, <1>4, <2>2, RefilledType
  <2>4. Smaller(Capacity, after + 0) = after
    BY <1>3, LimitBounds DEF Smaller
  <2>5. Available' = Refilled(bucket', now).tokens
    BY <1>2, <2>1 DEF Available, Refilled
  <2> QED
    BY <2>3, <2>4, <2>5
<1>9. TokensLeft'
  <2>1. bucket'.updated_at = now
    BY <1>4
  <2>2. ASSUME NEW s \in 0..now
        PROVE  Total(granted', s, now) + after <= Capacity + (now - s) * RefillPerSecond
    <3>0. s \in Int /\ s <= now /\ now <= now
      BY <1>2
    <3>1. Total(granted', s, now) = IF s <= now /\ now <= now THEN Total(granted, s, now) + c ELSE Total(granted, s, now)
      BY <1>2, <1>3, <1>11, <3>0, TotalAdd
    <3>2. Total(granted, s, now) + Available <= Capacity + (now - s) * RefillPerSecond
      BY DEF BucketInv, TokensLeft
    <3>3. Total(granted, s, now) \in Nat
      BY <1>2, <3>0, TotalUnfolds
    <3>4. Available = after + c /\ Available \in Nat
      BY <1>1, <1>3, LimitBounds DEF after
    <3>5. Total(granted', s, now) + after = Total(granted, s, now) + Available
      BY <1>3, <3>0, <3>1, <3>3, <3>4
    <3> QED
      BY <3>2, <3>5
  <2> QED
    BY <1>2, <1>8, <2>1, <2>2 DEF TokensLeft
<1>10. NeverOverRate'
  <2> SUFFICES ASSUME NEW s \in Time, NEW t \in Time, s <= t
               PROVE  Total(granted', s, t) <= Capacity + (t - s) * RefillPerSecond
    BY DEF NeverOverRate
  <2>1. CASE now <= t
    <3>1. /\ granted' \in [Time -> Nat] /\ now \in Time /\ after \in Nat
          /\ \A u \in Time : u > now => granted'[u] = 0
          /\ \A u \in 0..now : Total(granted', u, now) + after <= Capacity + (now - u) * RefillPerSecond
      BY <1>2, <1>3, <1>6, <1>7, <1>8, <1>9 DEF LimitTypeOK, NothingAhead, TokensLeft
    <3> QED
      BY <2>1, <3>1, RateFromTokens
  <2>2. CASE ~(now <= t)
    <3>0. s \in Int
      BY LimitBounds
    <3>1. Total(granted', s, t) = IF s <= now /\ now <= t THEN Total(granted, s, t) + c ELSE Total(granted, s, t)
      BY <1>2, <1>3, <1>11, <3>0, TotalAdd
    <3>2. Total(granted', s, t) = Total(granted, s, t)
      BY <2>2, <3>1
    <3> QED
      BY <3>2 DEF BucketInv, NeverOverRate
  <2> QED
    BY <2>1, <2>2
<1> QED
  BY <1>6, <1>7, <1>9, <1>10 DEF BucketInv

(* The breaker's steps leave the bucket alone. *)
LEMMA BucketRests ==
  ASSUME BucketInv, LimitTypeOK', UNCHANGED <<now, bucket, granted>>
  PROVE  BucketInv'
BY DEF BucketInv, NothingAhead, TokensLeft, Available, NeverOverRate, Refilled

LEMMA BreakerTypes ==
  ASSUME LimitTypeOK, AllowCall \/ ResetBreaker \/ (\E cost \in Cost : RecordCost(cost))
  PROVE  LimitTypeOK' /\ UNCHANGED <<now, bucket, granted>>
<1>1. /\ now \in Time /\ bucket \in {<<>>} \cup [tokens : 0..Capacity, updated_at : Time] /\ granted \in [Time -> Nat]
      /\ breaker \in [state : {"closed", "open", "half_open"}, opened_at : Time]
      /\ events \in [Time -> Nat] /\ inFlight \in 0..MaxInFlight /\ calls \in 0..MaxCalls
  BY DEF LimitTypeOK
<1>2. CASE AllowCall
  <2>1. /\ UNCHANGED <<now, bucket, granted, events>> /\ inFlight' = inFlight + 1 /\ calls' = calls + 1
        /\ inFlight < MaxInFlight /\ calls < MaxCalls
        /\ breaker' = IF breaker.state = "open" THEN [breaker EXCEPT !.state = "half_open"] ELSE breaker
    BY <1>2 DEF AllowCall, bucketVars
  <2>2. breaker' \in [state : {"closed", "open", "half_open"}, opened_at : Time]
    BY <1>1, <2>1
  <2>3. inFlight' \in 0..MaxInFlight /\ calls' \in 0..MaxCalls
    <3>1. /\ inFlight' = inFlight + 1 /\ inFlight \in 0..MaxInFlight /\ inFlight < MaxInFlight
          /\ calls' = calls + 1 /\ calls \in 0..MaxCalls /\ calls < MaxCalls
      BY <1>1, <2>1
    <3>2. MaxInFlight \in Nat /\ MaxCalls \in Nat
      BY LimitBounds
    <3> QED
      BY <3>1, <3>2
  <2> QED
    BY <1>1, <2>1, <2>2, <2>3 DEF LimitTypeOK
<1>3. CASE ResetBreaker
  BY <1>1, <1>3, LimitBounds DEF ResetBreaker, bucketVars, LimitTypeOK, NoEvents
<1>4. CASE \E cost \in Cost : RecordCost(cost)
  <2>1. PICK cost \in Cost : RecordCost(cost)
    BY <1>4
  <2>2. /\ UNCHANGED <<now, bucket, granted, calls>> /\ inFlight > 0 /\ inFlight' = inFlight - 1
        /\ events' = Pruned([events EXCEPT ![now] = @ + cost])
        /\ breaker' = [state |-> "open", opened_at |-> now] \/ breaker' = breaker
    BY <2>1 DEF RecordCost, bucketVars
  <2>3. events' \in [Time -> Nat]
    BY <1>1, <2>2, LimitConstants DEF Pruned
  <2>4. breaker' \in [state : {"closed", "open", "half_open"}, opened_at : Time] /\ inFlight' \in 0..MaxInFlight
    BY <1>1, <2>2, LimitBounds
  <2> QED
    BY <1>1, <2>2, <2>3, <2>4 DEF LimitTypeOK
<1> QED
  BY <1>2, <1>3, <1>4

(* A second later no more was granted, and no more than a second's refill   *)
(* has come in.                                                             *)
LEMMA AdvanceInv ==
  ASSUME BucketInv, Advance
  PROVE  BucketInv'
<1>1. /\ UNCHANGED <<bucket, granted, breaker, events, inFlight, calls>> /\ now' = now + 1
      /\ now \in Nat /\ now + 1 \in Time /\ now \in 0..MaxTime - 1 /\ granted \in [Time -> Nat]
  BY LimitBounds DEF Advance, bucketVars, breakerVars, BucketInv, LimitTypeOK
<1>2. LimitTypeOK'
  BY <1>1 DEF BucketInv, LimitTypeOK
<1>3. NothingAhead'
  BY <1>1, LimitBounds DEF BucketInv, NothingAhead
<1>4. NeverOverRate'
  BY <1>1 DEF BucketInv, NeverOverRate
<1>5. /\ Available \in 0..Capacity /\ Available' \in 0..Capacity
      /\ Available' <= Available + RefillPerSecond
      /\ bucket' # <<>> => bucket'.updated_at <= now'
  <2>1. CASE bucket = <<>>
    BY <1>1, <2>1, LimitBounds DEF Available
  <2>2. CASE bucket # <<>>
    <3>1. bucket \in [tokens : 0..Capacity, updated_at : Time] /\ bucket.updated_at <= now
      BY <2>2 DEF BucketInv, LimitTypeOK, TokensLeft
    <3>2. bucket.updated_at \in Nat
      BY <3>1, LimitBounds
    <3>3. Available = Refilled(bucket, now).tokens /\ Available' = Refilled(bucket, now + 1).tokens
      BY <1>1, <2>2 DEF Available, Refilled
    <3>4. Refilled(bucket, now).tokens \in 0..Capacity
      BY <1>1, <3>1, RefilledType
    <3>5. Refilled(bucket, now + 1).tokens \in 0..Capacity
      BY <1>1, <3>1, RefilledType
    <3>6. Refilled(bucket, now + 1).tokens <= Refilled(bucket, now).tokens + RefillPerSecond
      BY <1>1, <3>1, RefilledType
    <3> QED
      BY <1>1, <3>1, <3>2, <3>3, <3>4, <3>5, <3>6
  <2> QED
    BY <2>1, <2>2
<1>6. TokensLeft'
  <2> HIDE DEF Available
  <2>1. ASSUME NEW s \in 0..now + 1
        PROVE  Total(granted, s, now + 1) + Available' <= Capacity + (now + 1 - s) * RefillPerSecond
    <3>1. granted[now + 1] = 0 /\ s \in Int
      BY <1>1 DEF BucketInv, NothingAhead
    <3>2. CASE s = now + 1
      <4>1. \A u \in Time : s <= u /\ u <= now + 1 => granted[u] = 0
        BY <1>1, <3>1, <3>2, LimitBounds
      <4>2. Total(granted, s, now + 1) = 0
        BY <1>1, <3>1, <4>1, TotalZero
      <4>3. (now + 1 - s) * RefillPerSecond = 0
        BY <1>1, <3>2, LimitBounds
      <4> QED
        BY <1>5, <4>2, <4>3, LimitBounds
    <3>3. CASE s \in 0..now
      <4>1. Total(granted, s, now + 1) = Total(granted, s, now) /\ Total(granted, s, now) \in Nat
        BY <1>1, <3>1, TotalStep
      <4>2. Total(granted, s, now) + Available <= Capacity + (now - s) * RefillPerSecond
        BY <3>3 DEF BucketInv, TokensLeft
      <4>3. PICK x \in Nat : x = (now - s) * RefillPerSecond /\ (now + 1 - s) * RefillPerSecond = x + RefillPerSecond
        BY <1>1, <3>3, LimitBounds
      <4>4. Total(granted, s, now) + Available <= Capacity + x
        BY <4>2, <4>3
      <4>5. Total(granted, s, now) + Available' <= Capacity + (x + RefillPerSecond)
        BY <1>5, <4>1, <4>4, LimitBounds
      <4> QED
        BY <4>1, <4>3, <4>5
    <3> QED
      BY <1>1, <3>2, <3>3
  <2> QED
    BY <1>1, <1>5, <2>1 DEF TokensLeft
<1> QED
  BY <1>2, <1>3, <1>4, <1>6 DEF BucketInv

LEMMA BucketStepInv == BucketInv /\ [LimitNext]_limitVars => BucketInv'
<1> SUFFICES ASSUME BucketInv, [LimitNext]_limitVars PROVE BucketInv'
  OBVIOUS
<1>1. CASE \E cost \in Cost : AllowRequest(cost)
  BY <1>1, AllowRequestInv
<1>2. CASE AllowCall \/ ResetBreaker \/ (\E cost \in Cost : RecordCost(cost))
  <2>1. LimitTypeOK
    BY DEF BucketInv
  <2> QED
    BY <1>2, <2>1, BreakerTypes, BucketRests
<1>3. CASE Advance
  BY <1>3, AdvanceInv
<1>4. CASE UNCHANGED limitVars
  BY <1>4, BucketRests DEF limitVars, BucketInv, LimitTypeOK
<1> QED
  BY <1>1, <1>2, <1>3, <1>4 DEF LimitNext

LEMMA BucketInvariant == LimitSpec => []BucketInv
BY BucketInitInv, BucketStepInv, PTL DEF LimitSpec

(* TokenBucket and CostBreaker keep their types through any overlapping    *)
(* calls: the bucket never holds more than its capacity nor less than      *)
(* nothing.                                                                *)
THEOREM LimitTypeCorrect == LimitSpec => []LimitTypeOK
<1>1. BucketInv => LimitTypeOK
  BY DEF BucketInv
<1> QED
  BY <1>1, BucketInvariant, PTL

(* RateLimiter.allow grants in no span of time more than a full bucket     *)
(* and its refill, for any capacity, rate and costs, refused requests in   *)
(* between included.                                                       *)
THEOREM NeverOverRateHolds == LimitSpec => []NeverOverRate
<1>1. BucketInv => NeverOverRate
  BY DEF BucketInv
<1> QED
  BY <1>1, BucketInvariant, PTL

(* Who waits as long as TokenBucket.retry_after says is granted what fits  *)
(* the bucket, and the hint is positive only when tokens are missing.      *)
THEOREM RetryAfterAlwaysSuffices == LimitSpec => []RetryAfterSuffices
<1>1. LimitTypeOK => RetryAfterSuffices
  <2> SUFFICES ASSUME LimitTypeOK, bucket # <<>>, NEW cost \in 0..Capacity
               PROVE  /\ Refilled(bucket, bucket.updated_at + RetryAfter(cost)).tokens >= cost
                      /\ RetryAfter(cost) > 0 => bucket.tokens < cost
    BY DEF RetryAfterSuffices
  <2>1. bucket.tokens \in 0..Capacity /\ bucket.updated_at \in Nat /\ cost \in Nat /\ cost <= Capacity
    BY LimitBounds DEF LimitTypeOK
  <2> DEFINE deficit == Larger(0, cost - bucket.tokens)
             wait == (deficit + RefillPerSecond - 1) \div RefillPerSecond
  <2>2. deficit \in Nat /\ deficit >= cost - bucket.tokens /\ (deficit = 0 \/ bucket.tokens < cost)
    BY <2>1, LimitBounds DEF Larger
  <2> HIDE DEF deficit
  <2>3. wait \in Nat /\ wait * RefillPerSecond >= deficit /\ wait * RefillPerSecond \in Nat
    BY <2>2, DivUp, LimitBounds
  <2>4. deficit = 0 => wait = 0
    BY <2>2, LimitBounds
  <2> HIDE DEF wait
  <2>5. RetryAfter(cost) = wait
    BY DEF RetryAfter, wait, deficit
  <2>6. Larger(0, (bucket.updated_at + wait) - bucket.updated_at) = wait
    BY <2>1, <2>3 DEF Larger
  <2>7. Refilled(bucket, bucket.updated_at + wait).tokens = Smaller(Capacity, bucket.tokens + wait * RefillPerSecond)
    BY <2>6 DEF Refilled
  <2>8. PICK x \in Nat : x = wait * RefillPerSecond
    BY <2>3
  <2>9. Smaller(Capacity, bucket.tokens + x) >= cost
    BY <2>1, <2>2, <2>3, <2>8, LimitBounds DEF Smaller
  <2> QED
    BY <2>2, <2>3, <2>4, <2>5, <2>7, <2>8, <2>9
<1> QED
  BY <1>1, LimitTypeCorrect, PTL

(* While CostBreaker is closed the spend of its window is within the       *)
(* budget, although calls that were allowed record what they cost later.   *)
THEOREM ClosedAlwaysWithinBudget == LimitSpec => []ClosedWithinBudget
<1>1. LimitInit => ClosedWithinBudget
  <2> SUFFICES ASSUME LimitInit PROVE SpendOf(Pruned(events)) <= Budget
    BY DEF ClosedWithinBudget
  <2>1. Pruned(events) \in [Time -> Nat] /\ \A t \in Time : Pruned(events)[t] = 0
    BY DEF LimitInit, NoEvents, Pruned
  <2>2. SpendOf(Pruned(events)) = 0
    BY <2>1, TotalZero, LimitBounds DEF SpendOf
  <2> QED
    BY <2>2, LimitBounds
<1>2. ASSUME LimitTypeOK, LimitTypeOK', ClosedWithinBudget, [LimitNext]_limitVars
      PROVE  ClosedWithinBudget'
  <2> DEFINE within == [t \in Time |-> IF t >= now' - WindowSeconds THEN events'[t] ELSE 0]
  <2>1. SpendOf(Pruned(events))' = Total(within, 0, MaxTime) /\ within \in [Time -> Nat]
    BY <1>2 DEF SpendOf, Pruned, LimitTypeOK, Total
  <2>2. \A f, g \in [Time -> Nat] : (\A t \in Time : f[t] <= g[t]) => Total(f, 0, MaxTime) <= Total(g, 0, MaxTime)
    <3>1. MaxTime \in Time /\ 0 \in Int
      BY LimitBounds
    <3> QED
      BY <3>1, TotalMonotone
  <2>3. /\ events \in [Time -> Nat] /\ events' \in [Time -> Nat] /\ now \in Nat /\ now' \in Nat
        /\ Pruned(events) \in [Time -> Nat]
    BY <1>2, LimitBounds DEF LimitTypeOK, Pruned
  <2>4. \A f \in [Time -> Nat] : Total(f, 0, MaxTime) \in Nat
    BY TotalUnfolds, LimitBounds
  <2>5. \A t \in Time : within[t] = (IF t >= now' - WindowSeconds THEN events'[t] ELSE 0)
    OBVIOUS
  <2>6. \A t \in Time : Pruned(events)[t] = (IF t >= now - WindowSeconds THEN events[t] ELSE 0)
    BY DEF Pruned
  <2> HIDE DEF within
  <2>7. \A t \in Time : within[t] <= events'[t]
    <3> TAKE t \in Time
    <3>1. events'[t] \in Nat
      BY <2>3
    <3> QED
      BY <2>5, <3>1
  <2>8. ASSUME breaker'.state = "closed" PROVE Total(within, 0, MaxTime) <= Budget
    <3>1. CASE \E cost \in Cost : RecordCost(cost)
      <4>1. ~Tripped(events') /\ breaker.state = "closed"
        BY <2>8, <3>1 DEF RecordCost
      <4>2. ~(Total(events', 0, MaxTime) > Budget)
        BY <4>1 DEF Tripped, SpendOf
      <4>3. Total(within, 0, MaxTime) <= Total(events', 0, MaxTime)
        BY <2>1, <2>2, <2>3, <2>7
      <4>4. Total(within, 0, MaxTime) \in Nat /\ Total(events', 0, MaxTime) \in Nat
        BY <2>1, <2>3, <2>4
      <4> QED
        BY <4>2, <4>3, <4>4, LimitBounds
    <3>2. CASE ResetBreaker
      <4>1. \A t \in Time : within[t] = 0
        BY <2>5, <3>2 DEF ResetBreaker, NoEvents
      <4>2. Total(within, 0, MaxTime) = 0
        BY <2>1, <4>1, TotalZero, LimitBounds
      <4> QED
        BY <4>2, LimitBounds
    <3>3. CASE events' = events /\ breaker.state = "closed" /\ now' >= now
      <4>1. \A t \in Time : within[t] <= Pruned(events)[t]
        <5> TAKE t \in Time
        <5>1. events[t] \in Nat /\ events'[t] = events[t] /\ t \in Nat
          BY <2>3, <3>3, LimitBounds
        <5>2. t >= now' - WindowSeconds => t >= now - WindowSeconds
          <6>1. \A a, b, c, d \in Int : a >= b - d /\ b >= c => a >= c - d
            OBVIOUS
          <6>2. t \in Int /\ now' \in Int /\ now \in Int /\ WindowSeconds \in Int /\ now' >= now
            BY <2>3, <3>3, <5>1, LimitBounds
          <6> QED
            BY <6>1, <6>2
        <5>3. /\ within[t] = (IF t >= now' - WindowSeconds THEN events[t] ELSE 0)
              /\ Pruned(events)[t] = (IF t >= now - WindowSeconds THEN events[t] ELSE 0)
          BY <2>5, <2>6, <5>1
        <5> QED
          BY <5>1, <5>2, <5>3
      <4>2. Total(within, 0, MaxTime) <= Total(Pruned(events), 0, MaxTime)
        BY <2>1, <2>2, <2>3, <4>1
      <4>3. Total(Pruned(events), 0, MaxTime) <= Budget
        BY <1>2, <3>3 DEF ClosedWithinBudget, SpendOf
      <4>4. Total(within, 0, MaxTime) \in Nat /\ Total(Pruned(events), 0, MaxTime) \in Nat
        BY <2>1, <2>3, <2>4
      <4> QED
        BY <4>2, <4>3, <4>4, LimitBounds
    <3>4. CASE Advance
      BY <2>3, <2>8, <3>3, <3>4 DEF Advance, breakerVars
    <3>5. CASE AllowCall
      <4>1. events' = events /\ now' = now /\ breaker' = (IF breaker.state = "open" THEN [breaker EXCEPT !.state = "half_open"] ELSE breaker)
        BY <3>5 DEF AllowCall
      <4>2. breaker.state # "open"
        BY <1>2, <2>8, <4>1 DEF LimitTypeOK
      <4> QED
        BY <2>3, <2>8, <3>3, <4>1, <4>2
    <3>6. CASE (\E cost \in Cost : AllowRequest(cost)) \/ UNCHANGED limitVars
      BY <2>3, <2>8, <3>3, <3>6 DEF AllowRequest, breakerVars, limitVars
    <3> QED
      BY <1>2, <3>1, <3>2, <3>4, <3>5, <3>6 DEF LimitNext
  <2> QED
    BY <2>1, <2>8 DEF ClosedWithinBudget
<1> QED
  BY <1>1, <1>2, LimitTypeCorrect, PTL DEF LimitSpec
================================================================================
