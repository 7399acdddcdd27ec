---------------------------- MODULE RequestsProofs ----------------------------
(* Proofs about permissions, credentials, turns and replies.                     *)
EXTENDS Authority, Credentials, Conversation, StreamReply, FiniteSetTheorems, TLAPS

--------------------------------------------------------------------------------
(* Permissions: every active row can be traced to a superadmin, for any set of     *)
(* accounts, rights and calls in flight.  Tracing is the smallest closed set, so   *)
(* it grows with the rows, the roots and the holders, and pruning to it leaves     *)
(* nothing more to prune.                                                          *)

Tools == {"grant", "revoke", "disable", "enable", "promote", "demote", "dismiss"}

\* Rows and roots are about accounts, and calls about rights or accounts.
AuthorityTypeOK ==
  /\ perms \subseteq Rows
  /\ live \subseteq Accounts
  /\ super \subseteq Accounts
  /\ \A c \in calls :
       /\ c.by \in Accounts
       /\ c.tool \in Tools
       /\ c.tool \in {"grant", "revoke"} => c.right \in Rights
       /\ c.right.user \in Accounts

(* Tracing *)

\* What is traced is closed: a row that a root or a traced row passes on is traced.
LEMMA TracedClosed ==
  ASSUME NEW rows, NEW roots, NEW holders
  PROVE  Closed(Traced(rows, roots, holders), rows, roots, holders)
<1> DEFINE T == Traced(rows, roots, holders)
<1> SUFFICES ASSUME NEW e \in rows, e.right.user \in holders,
                    e.by \in roots \/ \E p \in T : Passes(p, e),
                    NEW X \in SUBSET rows, Closed(X, rows, roots, holders)
             PROVE  e \in X
  BY DEF Closed, Traced
<1>1. CASE e.by \in roots
  BY <1>1 DEF Closed
<1>2. CASE \E p \in T : Passes(p, e)
  <2>1. PICK p \in T : Passes(p, e)
    BY <1>2
  <2>2. p \in X
    BY DEF Traced
  <2> QED
    BY <2>1, <2>2 DEF Closed
<1> QED
  BY <1>1, <1>2

\* More rows, more roots and more holders never lose a traced row.
LEMMA TracedGrows ==
  ASSUME NEW rows, NEW roots, NEW holders, NEW rows2, NEW roots2, NEW holders2,
         rows \subseteq rows2, roots \subseteq roots2, holders \subseteq holders2
  PROVE  Traced(rows, roots, holders) \subseteq Traced(rows2, roots2, holders2)
<1> SUFFICES ASSUME NEW e \in Traced(rows, roots, holders),
                    NEW X \in SUBSET rows2, Closed(X, rows2, roots2, holders2)
             PROVE  e \in X
  BY DEF Traced
<1>1. Closed(X \cap rows, rows, roots, holders)
  BY DEF Closed
<1>2. e \in X \cap rows
  BY <1>1 DEF Traced
<1> QED
  BY <1>2

\* Pruning to the traced rows leaves every remaining row traced.
LEMMA TracedTwice ==
  ASSUME NEW rows, NEW roots, NEW holders
  PROVE  LET T == Traced(rows, roots, holders) IN Traced(T, roots, holders) = T
<1> DEFINE T == Traced(rows, roots, holders)
<1>1. T \subseteq rows /\ Closed(T, rows, roots, holders)
  BY TracedClosed DEF Traced
<1>2. ASSUME NEW e \in T, NEW X \in SUBSET T, Closed(X, T, roots, holders)
      PROVE  e \in X
  <2>1. Closed(X, rows, roots, holders)
    <3> SUFFICES ASSUME NEW e2 \in rows, e2.right.user \in holders,
                        e2.by \in roots \/ \E p \in X : Passes(p, e2)
                 PROVE  e2 \in X
      BY DEF Closed
    <3>1. e2 \in T
      BY <1>1 DEF Closed
    <3> QED
      BY <3>1, <1>2 DEF Closed
  <2>2. X \in SUBSET rows
    BY <1>1
  <2> QED
    BY <2>1, <2>2 DEF Traced
<1> QED
  BY <1>2 DEF Traced

\* A transaction that prunes leaves a table whose active rows are all traced.
LEMMA PrunedIsRooted ==
  ASSUME NEW rows, NEW roots
  PROVE  ActiveRows(Pruned(rows, roots)) = Structural(Pruned(rows, roots), roots)
<1>1. ActiveRows(Pruned(rows, roots)) = Structural(rows, roots)
  BY DEF ActiveRows, Pruned, Structural, Traced
<1>2. Structural(Pruned(rows, roots), roots) = Traced(Structural(rows, roots), roots, Accounts)
  BY <1>1 DEF Structural
<1> QED
  BY <1>1, <1>2, TracedTwice DEF Structural

\* More superadmins leave a rooted table rooted.
LEMMA RootsGrow ==
  ASSUME NEW rows, NEW roots, NEW roots2, roots \subseteq roots2,
         ActiveRows(rows) = Structural(rows, roots)
  PROVE  ActiveRows(rows) = Structural(rows, roots2)
<1>1. Structural(rows, roots) \subseteq Structural(rows, roots2)
  BY TracedGrows DEF Structural
<1> QED
  BY <1>1 DEF Structural, Traced

(* The invariant *)

\* Rows, roots and the calls in flight are about accounts and rights of the
\* instance, whatever is granted, revoked, disabled or promoted.
THEOREM AuthorityTyped == AuthoritySpec => []AuthorityTypeOK
<1>1. AuthorityInit => AuthorityTypeOK
  BY AccountsAssumption DEF AuthorityInit, AuthorityTypeOK, Accounts
<1>2. AuthorityTypeOK /\ [AuthorityNext]_authorityVars => AuthorityTypeOK'
  <2> SUFFICES ASSUME AuthorityTypeOK, [AuthorityNext]_authorityVars
               PROVE  AuthorityTypeOK'
    OBVIOUS
  <2> USE DEF AuthorityTypeOK
  <2>1. ASSUME NEW u \in Accounts, NEW tool \in {"grant", "revoke"}, NEW right \in Rights,
               StartCall(u, tool, right)
        PROVE  AuthorityTypeOK'
    BY <2>1, RightsAssumption DEF StartCall, Call, Tools
  <2>2. ASSUME NEW u \in Accounts, NEW a \in Accounts,
               NEW tool \in {"disable", "enable", "promote", "demote", "dismiss"},
               StartCall(u, tool, About(a))
        PROVE  AuthorityTypeOK'
    <3>1. /\ Call(u, tool, About(a)).by = u
          /\ Call(u, tool, About(a)).tool = tool
          /\ Call(u, tool, About(a)).right.user = a
      BY DEF Call, About
    <3>2. calls' = calls \cup {Call(u, tool, About(a))} /\ UNCHANGED <<perms, live, super>>
      BY <2>2 DEF StartCall
    <3>3. tool \in Tools /\ tool \notin {"grant", "revoke"}
      BY DEF Tools
    <3> QED
      BY <3>1, <3>2, <3>3
  <2>3. ASSUME NEW u \in Accounts, PromoteFirst(u)
        PROVE  AuthorityTypeOK'
    BY <2>3 DEF PromoteFirst
  <2>4. ASSUME NEW c \in calls, Grant(c)
        PROVE  AuthorityTypeOK'
    <3>1. Row(c.right, c.by) \in Rows
      BY <2>4 DEF Grant, Row, Rows
    <3> QED
      BY <2>4, <3>1 DEF Grant, Done
  <2>5. ASSUME NEW c \in calls, Revoke(c)
        PROVE  AuthorityTypeOK'
    BY <2>5 DEF Revoke, Done, Pruned
  <2>6. ASSUME NEW c \in calls, SetStatus(c)
        PROVE  AuthorityTypeOK'
    BY <2>6 DEF SetStatus, Done
  <2>7. ASSUME NEW c \in calls, PromoteWorker(c)
        PROVE  AuthorityTypeOK'
    BY <2>7 DEF PromoteWorker, Done
  <2>8. ASSUME NEW c \in calls, DemoteWorker(c)
        PROVE  AuthorityTypeOK'
    BY <2>8 DEF DemoteWorker, Done, Pruned
  <2>9. ASSUME NEW c \in calls, DismissWorker(c)
        PROVE  AuthorityTypeOK'
    BY <2>9 DEF DismissWorker, Done, Pruned
  <2>10. CASE UNCHANGED authorityVars
    BY <2>10 DEF authorityVars
  <2> QED
    BY <2>1, <2>2, <2>3, <2>4, <2>5, <2>6, <2>7, <2>8, <2>9, <2>10 DEF AuthorityNext
<1> QED
  BY <1>1, <1>2, PTL DEF AuthoritySpec

\* A granted row is traced: its grantor is a superadmin or holds what he passes on,
\* and what is effective is structural.
LEMMA GrantIsRooted ==
  ASSUME AuthorityTypeOK, DelegationsAreRooted, NEW c \in calls, Grant(c)
  PROVE  DelegationsAreRooted'
<1> DEFINE e == Row(c.right, c.by)
<1>1. c.right \in Rights /\ c.right.user \in Accounts /\ e.right = c.right /\ e.by = c.by
  BY DEF AuthorityTypeOK, Grant, Row
<1>2. CASE perms' = perms
  BY <1>2 DEF Grant, DelegationsAreRooted, Structural
<1>3. CASE perms' = perms \cup {e} /\ c.right.kind # "active"
  <2>1. ActiveRows(perms') = ActiveRows(perms)
    BY <1>1, <1>3 DEF ActiveRows
  <2> QED
    BY <2>1 DEF Grant, DelegationsAreRooted, Structural
<1>4. CASE perms' = perms \cup {e} /\ c.right.kind = "active" /\ MayGrant(c.by, c.right)
  <2> DEFINE S2 == Structural(perms', super)
  <2>1. ActiveRows(perms') = ActiveRows(perms) \cup {e}
    BY <1>1, <1>4 DEF ActiveRows
  <2>2. ActiveRows(perms) \subseteq S2
    <3>1. Structural(perms, super) \subseteq S2
      BY <2>1, TracedGrows DEF Structural
    <3> QED
      BY <3>1 DEF DelegationsAreRooted
  <2>3. Effective \subseteq S2
    <3>1. Effective \subseteq ActiveRows(perms)
      BY DEF Effective, Traced
    <3> QED
      BY <3>1, <2>2
  <2>4. e.by \in super \/ \E p \in S2 : Passes(p, e)
    BY <1>1, <1>4, <2>3 DEF MayGrant, ActiveSuper, Held, Passes
  <2>5. Closed(S2, ActiveRows(perms'), super, Accounts)
    BY TracedClosed DEF Structural
  <2>6. e \in S2
    BY <1>1, <2>1, <2>4, <2>5 DEF Closed
  <2>7. S2 \subseteq ActiveRows(perms')
    BY DEF Structural, Traced
  <2> QED
    BY <2>1, <2>2, <2>6, <2>7 DEF DelegationsAreRooted, Grant
<1> QED
  BY <1>2, <1>3, <1>4 DEF Grant

\* A revocation leaves a rooted table: it prunes, or takes passive rows only.
LEMMA RevokeIsRooted ==
  ASSUME DelegationsAreRooted, NEW c \in calls, Revoke(c)
  PROVE  DelegationsAreRooted'
<1> DEFINE sources == {e \in perms : e.right = c.right /\ Controls(c.by, e)}
<1>1. CASE perms' = perms
  BY <1>1 DEF Revoke, DelegationsAreRooted, Structural
<1>2. CASE perms' = Pruned(perms \ sources, super)
  BY <1>2, PrunedIsRooted DEF Revoke, DelegationsAreRooted
<1>3. CASE perms' = perms \ sources /\ c.right.kind # "active"
  <2>1. ActiveRows(perms') = ActiveRows(perms)
    BY <1>3 DEF ActiveRows
  <2> QED
    BY <2>1 DEF Revoke, DelegationsAreRooted, Structural
<1> QED
  BY <1>1, <1>2, <1>3 DEF Revoke

\* Every active permission row is traced to a superadmin, always.
THEOREM DelegationsRooted == AuthoritySpec => []DelegationsAreRooted
<1>1. AuthorityInit => DelegationsAreRooted
  BY DEF AuthorityInit, DelegationsAreRooted, ActiveRows, Structural, Traced
<1>2. AuthorityTypeOK /\ DelegationsAreRooted /\ [AuthorityNext]_authorityVars
      => DelegationsAreRooted'
  <2> SUFFICES ASSUME AuthorityTypeOK, DelegationsAreRooted, [AuthorityNext]_authorityVars
               PROVE  DelegationsAreRooted'
    OBVIOUS
  <2>1. CASE UNCHANGED <<perms, super>>
    BY <2>1 DEF DelegationsAreRooted, Structural
  <2>2. CASE perms' = perms /\ super \subseteq super'
    BY <2>2, RootsGrow DEF DelegationsAreRooted
  <2>3. CASE perms' = Pruned(perms, super')
    BY <2>3, PrunedIsRooted DEF DelegationsAreRooted
  <2>4. ASSUME NEW u \in Accounts, NEW tool, NEW right, StartCall(u, tool, right)
        PROVE  DelegationsAreRooted'
    BY <2>1, <2>4 DEF StartCall
  <2>5. ASSUME NEW u \in Accounts, PromoteFirst(u)
        PROVE  DelegationsAreRooted'
    BY <2>2, <2>5 DEF PromoteFirst
  <2>6. ASSUME NEW c \in calls, Grant(c)
        PROVE  DelegationsAreRooted'
    BY <2>6, GrantIsRooted
  <2>7. ASSUME NEW c \in calls, Revoke(c)
        PROVE  DelegationsAreRooted'
    BY <2>7, RevokeIsRooted
  <2>8. ASSUME NEW c \in calls, SetStatus(c)
        PROVE  DelegationsAreRooted'
    BY <2>1, <2>8 DEF SetStatus
  <2>9. ASSUME NEW c \in calls, PromoteWorker(c)
        PROVE  DelegationsAreRooted'
    BY <2>2, <2>9 DEF PromoteWorker
  <2>10. ASSUME NEW c \in calls, DemoteWorker(c)
         PROVE  DelegationsAreRooted'
    BY <2>1, <2>3, <2>10 DEF DemoteWorker
  <2>11. ASSUME NEW c \in calls, DismissWorker(c)
         PROVE  DelegationsAreRooted'
    BY <2>3, <2>11 DEF DismissWorker
  <2>12. CASE UNCHANGED authorityVars
    BY <2>1, <2>12 DEF authorityVars
  <2> QED
    BY <2>4, <2>5, <2>6, <2>7, <2>8, <2>9, <2>10, <2>11, <2>12 DEF AuthorityNext
<1> QED
  BY <1>1, <1>2, AuthorityTyped, PTL DEF AuthoritySpec

--------------------------------------------------------------------------------
(* Credentials *)

\* The rows and their values, and who may have an invitation.
DoorTypeOK ==
  /\ account \in [Persons -> {"none", "member", "superadmin"}]
  /\ door \in [Persons -> 0 .. MaxInvites]
  /\ invite \in [Keys -> [ask : InviteAsks \cup {"none", "group"},
                          status : {"none", "open", "expired", "cancelled", "used"}]]
  /\ pending \in [Newcomers -> 0 .. MaxInvites]
  /\ inviting \in [Newcomers -> [Groups -> 0 .. MaxInvites]]
  /\ replied \subseteq Persons

\* One founder at most, and he was told nothing else.
OneFounder ==
  /\ \A p, q \in Persons : account[p] = "superadmin" /\ account[q] = "superadmin" => p = q
  /\ \A p \in replied : account[p] = "superadmin"

\* An invitation is used exactly when somebody came with it, and by one person only.
DoorsMatch ==
  /\ \A k \in Keys : invite[k].status = "used" <=> \E p \in Newcomers : door[p] = k
  /\ \A p, q \in Newcomers : door[p] = door[q] /\ door[p] # 0 => p = q
  /\ \A p \in Persons : account[p] = "member" => door[p] # 0
  /\ \A p \in Persons : account[p] = "none" => door[p] = 0

DoorInv == DoorTypeOK /\ OneFounder /\ DoorsMatch

LEMMA DoorInitial == DoorInit => DoorInv
<1> SUFFICES ASSUME DoorInit PROVE DoorInv
  OBVIOUS
<1> USE InvitesAssumption
<1>1. DoorTypeOK
  BY DEF DoorInit, DoorTypeOK, NoInvite
<1>2. OneFounder
  BY DEF DoorInit, OneFounder
<1>3. DoorsMatch
  BY DEF DoorInit, DoorsMatch, NoInvite, Persons, Keys
<1> QED
  BY <1>1, <1>2, <1>3 DEF DoorInv

\* Who becomes a superadmin is the first, or was one.
LEMMA FoundingKeeps ==
  ASSUME DoorInv, NEW p \in Persons, account[p] = "superadmin" \/ ~HasSuperadmin,
         account' = [account EXCEPT ![p] = "superadmin"],
         replied' \in {replied, replied \cup {p}},
         UNCHANGED <<door, invite, pending, inviting>>
  PROVE  DoorInv'
<1>1. DoorTypeOK'
  BY DEF DoorInv, DoorTypeOK
<1>2. \A q \in Persons : account'[q] = IF q = p THEN "superadmin" ELSE account[q]
  BY DEF DoorInv, DoorTypeOK
<1>3. OneFounder'
  BY <1>2 DEF DoorInv, OneFounder, HasSuperadmin, DoorTypeOK
<1>4. DoorsMatch'
  BY <1>2 DEF DoorInv, DoorsMatch
<1> QED
  BY <1>1, <1>3, <1>4 DEF DoorInv

\* Writing, cancelling or letting expire what is unused.
LEMMA UnusedMayChange ==
  ASSUME DoorInv, DoorTypeOK',
         \A k \in Keys : invite'[k].status = "used" <=> invite[k].status = "used",
         UNCHANGED <<account, door, replied>>
  PROVE  DoorInv'
<1>1. OneFounder'
  BY DEF DoorInv, OneFounder
<1>2. DoorsMatch'
  BY DEF DoorInv, DoorsMatch
<1> QED
  BY <1>1, <1>2 DEF DoorInv

LEMMA AdmissionKeeps ==
  ASSUME DoorInv, NEW p \in Newcomers, NEW k \in Keys, Admit(p, k),
         pending' = [pending EXCEPT ![p] = 0], UNCHANGED <<inviting, replied>>
  PROVE  DoorInv'
<1> USE InvitesAssumption
<1>0. p \in Persons /\ k # 0
  BY DEF Persons, Keys
<1>1. DoorTypeOK'
  <2>1. account' \in [Persons -> {"none", "member", "superadmin"}]
    BY DEF DoorInv, DoorTypeOK, Admit
  <2>2. door' \in [Persons -> 0 .. MaxInvites]
    <3>1. k \in 0 .. MaxInvites
      BY DEF Keys
    <3> QED
      BY <3>1 DEF DoorInv, DoorTypeOK, Admit
  <2>3. invite' \in [Keys -> [ask : InviteAsks \cup {"none", "group"},
                              status : {"none", "open", "expired", "cancelled", "used"}]]
    BY DEF DoorInv, DoorTypeOK, Admit
  <2>4. pending' \in [Newcomers -> 0 .. MaxInvites]
    BY DEF DoorInv, DoorTypeOK
  <2> QED
    BY <2>1, <2>2, <2>3, <2>4 DEF DoorInv, DoorTypeOK
<1>2. \A q \in Persons : /\ account'[q] = IF q = p THEN "member" ELSE account[q]
                         /\ door'[q] = IF q = p THEN k ELSE door[q]
  BY DEF DoorInv, DoorTypeOK, Admit
<1>3. \A j \in Keys : invite'[j].status = IF j = k THEN "used" ELSE invite[j].status
  BY DEF DoorInv, DoorTypeOK, Admit
<1>4. \A q \in Newcomers : door[q] # k
  BY DEF DoorInv, DoorsMatch, Admit
<1>5. account[p] = "none" /\ door[p] = 0
  BY <1>0 DEF DoorInv, DoorsMatch, Admit
<1>6. OneFounder'
  BY <1>0, <1>2, <1>5 DEF DoorInv, OneFounder, DoorTypeOK
<1>7. DoorsMatch'
  <2>1. \A j \in Keys : invite'[j].status = "used" <=> \E q \in Newcomers : door'[q] = j
    <3> SUFFICES ASSUME NEW j \in Keys
                 PROVE  invite'[j].status = "used" <=> \E q \in Newcomers : door'[q] = j
      OBVIOUS
    <3>1. \A q \in Newcomers : q \in Persons
      BY DEF Persons
    <3>2. CASE j = k
      BY <1>2, <1>3, <3>1, <3>2
    <3>3. CASE j # k
      <4>1. j # 0
        BY DEF Keys
      <4> QED
        BY <1>2, <1>3, <1>5, <3>1, <3>3, <4>1 DEF DoorInv, DoorsMatch
    <3> QED
      BY <3>2, <3>3
  <2>2. \A q, r \in Newcomers : door'[q] = door'[r] /\ door'[q] # 0 => q = r
    BY <1>2, <1>4 DEF DoorInv, DoorsMatch, Persons
  <2>3. \A q \in Persons : account'[q] = "member" => door'[q] # 0
    BY <1>0, <1>2 DEF DoorInv, DoorsMatch
  <2>4. \A q \in Persons : account'[q] = "none" => door'[q] = 0
    BY <1>2 DEF DoorInv, DoorsMatch
  <2> QED
    BY <2>1, <2>2, <2>3, <2>4 DEF DoorsMatch
<1> QED
  BY <1>1, <1>6, <1>7 DEF DoorInv

LEMMA DoorStep == DoorInv /\ [DoorNext]_doorVars => DoorInv'
<1> SUFFICES ASSUME DoorInv, [DoorNext]_doorVars PROVE DoorInv'
  OBVIOUS
<1> USE InvitesAssumption
<1>0. Newcomers \subseteq Persons /\ HttpClients \subseteq Persons
  BY DEF Persons
<1>1. ASSUME NEW p \in Newcomers, Found(p) PROVE DoorInv'
  BY <1>0, <1>1, FoundingKeeps DEF Found
<1>2. ASSUME NEW p \in Newcomers, NEW k \in Keys, Join(p, k) PROVE DoorInv'
  BY <1>2, AdmissionKeeps DEF Join
<1>3. ASSUME NEW p \in Newcomers, JoinPending(p) PROVE DoorInv'
  <2>1. pending[p] \in Keys
    BY <1>3 DEF JoinPending, DoorInv, DoorTypeOK, Keys
  <2>2. CASE Admit(p, pending[p])
    BY <1>3, <2>1, <2>2, AdmissionKeeps DEF JoinPending
  <2>3. CASE UNCHANGED <<account, door, invite>>
    <3>1. DoorTypeOK'
      BY <1>3, <2>3 DEF JoinPending, DoorInv, DoorTypeOK
    <3> QED
      BY <1>3, <2>3, <3>1, UnusedMayChange DEF JoinPending
  <2> QED
    BY <1>3, <2>2, <2>3 DEF JoinPending
<1>4. ASSUME NEW p \in Newcomers, NEW g \in Groups, GroupInvites(p, g) PROVE DoorInv'
  <2>1. PICK k \in FreeKeys : /\ invite' = Written(k, "group")
                              /\ inviting' = [inviting EXCEPT ![p][g] = k]
    BY <1>4 DEF GroupInvites
  <2>2. DoorTypeOK'
    <3>1. invite' \in [Keys -> [ask : InviteAsks \cup {"none", "group"},
                                status : {"none", "open", "expired", "cancelled", "used"}]]
      BY <2>1 DEF DoorInv, DoorTypeOK, Written, FreeKeys
    <3>2. inviting' \in [Newcomers -> [Groups -> 0 .. MaxInvites]]
      BY <2>1 DEF DoorInv, DoorTypeOK, FreeKeys, Keys
    <3> QED
      BY <1>4, <3>1, <3>2 DEF GroupInvites, DoorInv, DoorTypeOK
  <2>3. \A j \in Keys : invite'[j].status = "used" <=> invite[j].status = "used"
    BY <2>1 DEF DoorInv, DoorTypeOK, Written, FreeKeys
  <2> QED
    BY <1>4, <2>2, <2>3, UnusedMayChange DEF GroupInvites
<1>5. ASSUME NEW p \in Newcomers, NEW g \in Groups, GroupKeeps(p, g) PROVE DoorInv'
  <2>1. DoorTypeOK'
    BY <1>5 DEF GroupKeeps, DoorInv, DoorTypeOK
  <2> QED
    BY <1>5, <2>1, UnusedMayChange DEF GroupKeeps
<1>6. ASSUME NEW p \in HttpClients, NEW answered \in BOOLEAN, FoundOverHttp(p, answered) PROVE DoorInv'
  BY <1>0, <1>6, FoundingKeeps DEF FoundOverHttp
<1>7. ASSUME NEW ask \in InviteAsks, Invite(ask) PROVE DoorInv'
  <2>1. PICK k \in FreeKeys : invite' = Written(k, ask)
    BY <1>7 DEF Invite
  <2>2. DoorTypeOK'
    BY <1>7, <2>1 DEF Invite, DoorInv, DoorTypeOK, Written, FreeKeys
  <2>3. \A j \in Keys : invite'[j].status = "used" <=> invite[j].status = "used"
    BY <2>1 DEF DoorInv, DoorTypeOK, Written, FreeKeys
  <2> QED
    BY <1>7, <2>2, <2>3, UnusedMayChange DEF Invite
<1>8. ASSUME NEW k \in Keys, InviteExpires(k) PROVE DoorInv'
  <2>1. DoorTypeOK'
    BY <1>8 DEF InviteExpires, DoorInv, DoorTypeOK
  <2>2. \A j \in Keys : invite'[j].status = "used" <=> invite[j].status = "used"
    BY <1>8 DEF InviteExpires, DoorInv, DoorTypeOK
  <2> QED
    BY <1>8, <2>1, <2>2, UnusedMayChange DEF InviteExpires
<1>9. CASE CancelInvites
  <2>1. DoorTypeOK'
    BY <1>9 DEF CancelInvites, DoorInv, DoorTypeOK
  <2>2. \A j \in Keys : invite'[j].status = "used" <=> invite[j].status = "used"
    BY <1>9 DEF CancelInvites, DoorInv, DoorTypeOK
  <2> QED
    BY <1>9, <2>1, <2>2, UnusedMayChange DEF CancelInvites
<1>10. CASE DoorRestart
  <2>1. DoorTypeOK'
    BY <1>10 DEF DoorRestart, DoorInv, DoorTypeOK
  <2> QED
    BY <1>10, <2>1, UnusedMayChange DEF DoorRestart
<1>11. CASE UNCHANGED doorVars
  BY <1>11 DEF doorVars, DoorInv, DoorTypeOK, OneFounder, DoorsMatch
<1> QED
  BY <1>1, <1>2, <1>3, <1>4, <1>5, <1>6, <1>7, <1>8, <1>9, <1>10, <1>11 DEF DoorNext

LEMMA TokenStep == TokenCanBeRead /\ [TokenNext]_tokenVars => TokenCanBeRead'
<1> SUFFICES ASSUME TokenCanBeRead, [TokenNext]_tokenVars PROVE TokenCanBeRead'
  OBVIOUS
<1> USE DEF TokenCanBeRead, NoRotation
<1>1. CASE BeginRotation
  BY <1>1 DEF BeginRotation
<1>2. CASE CancelRotation
  BY <1>2 DEF CancelRotation, GiveUpToken
<1>3. CASE RotationExpires
  BY <1>3 DEF RotationExpires, GiveUpToken
<1>4. CASE SweepRotation
  BY <1>4 DEF SweepRotation
<1>5. CASE RevokeToken
  BY <1>5 DEF RevokeToken
<1>6. ASSUME NEW d \in Devices, ConfirmRotation(d) PROVE TokenCanBeRead'
  BY <1>6 DEF ConfirmRotation
<1>7. ASSUME NEW d \in Devices, NEW arrives \in BOOLEAN, NEW swept \in BOOLEAN,
             DeliverToken(d, arrives, swept)
      PROVE  TokenCanBeRead'
  BY <1>7 DEF DeliverToken, Acknowledged
<1>8. ASSUME NEW arrives \in BOOLEAN, IssueToken(arrives) PROVE TokenCanBeRead'
  BY <1>8 DEF IssueToken
<1>9. CASE UNCHANGED tokenVars
  BY <1>9 DEF tokenVars
<1> QED
  BY <1>1, <1>2, <1>3, <1>4, <1>5, <1>6, <1>7, <1>8, <1>9 DEF TokenNext

\* Every action is at the door or about tokens and leaves the other side alone.
LEMMA DoorOrTokens ==
  [CredentialsNext]_credentialVars => [DoorNext]_doorVars /\ [TokenNext]_tokenVars
<1>1. ASSUME DoorNext PROVE UNCHANGED tokenVars
  BY <1>1 DEF DoorNext, Found, Join, JoinPending, GroupInvites, GroupKeeps, FoundOverHttp,
              Invite, InviteExpires, CancelInvites, DoorRestart
<1>2. ASSUME TokenNext PROVE UNCHANGED doorVars
  BY <1>2 DEF TokenNext, BeginRotation, CancelRotation, RotationExpires, SweepRotation,
              RevokeToken, ConfirmRotation, DeliverToken, IssueToken
<1> QED
  BY <1>1, <1>2 DEF CredentialsNext, credentialVars

\* A set whose elements are all equal has one element at most.
LEMMA AllEqual ==
  ASSUME NEW S, \A x, y \in S : x = y
  PROVE  Cardinality(S) <= 1 /\ (Cardinality(S) = 1 <=> S # {})
<1>1. CASE S = {}
  BY <1>1, FS_EmptySet
<1>2. CASE S # {}
  <2>1. PICK x \in S : S = {x}
    BY <1>2
  <2> QED
    BY <2>1, FS_Singleton
<1> QED
  BY <1>1, <1>2

\* There is one founder at most, an invitation is used up by the one newcomer who
\* came with it, and a user whose token was replaced can still read the new one
\* (BootstrapSuperadmin, BindUserWithKey, ConfirmAPITokenRotation,
\* AcknowledgeAPITokenRotation).
THEOREM CredentialsSafe == CredentialsSpec => []CredentialsAreSafe
<1>1. CredentialsInit => DoorInv /\ TokenCanBeRead
  BY DoorInitial DEF CredentialsInit, TokenInit, TokenCanBeRead
<1>2. DoorInv /\ TokenCanBeRead /\ [CredentialsNext]_credentialVars
        => DoorInv' /\ TokenCanBeRead'
  BY DoorStep, TokenStep, DoorOrTokens
<1>3. DoorInv /\ TokenCanBeRead => CredentialsAreSafe
  <2> SUFFICES ASSUME DoorInv, TokenCanBeRead PROVE CredentialsAreSafe
    OBVIOUS
  <2>1. FoundedOnce
    <3> DEFINE S == {p \in Persons : account[p] = "superadmin"}
    <3>1. \A x, y \in S : x = y
      BY DEF DoorInv, OneFounder
    <3>2. Cardinality(S) <= 1
      <4> HIDE DEF S
      <4> QED BY <3>1, AllEqual
    <3> QED
      BY <3>2 DEF FoundedOnce, DoorInv, OneFounder
  <2>2. ASSUME NEW k \in Keys
        PROVE  invite[k].status = "used" <=> Cardinality({p \in Newcomers : door[p] = k}) = 1
    <3> DEFINE S == {p \in Newcomers : door[p] = k}
    <3>1. \A x, y \in S : x = y
      BY InvitesAssumption DEF DoorInv, DoorsMatch, Keys
    <3>2. Cardinality(S) = 1 <=> S # {}
      <4> HIDE DEF S
      <4> QED BY <3>1, AllEqual
    <3>3. invite[k].status = "used" <=> S # {}
      BY DEF DoorInv, DoorsMatch
    <3> QED
      BY <3>2, <3>3
  <2>3. OneDoorEach
    BY <2>2 DEF OneDoorEach, DoorInv, DoorsMatch
  <2> QED
    BY <2>1, <2>3 DEF CredentialsAreSafe
<1> QED
  BY <1>1, <1>2, <1>3, PTL DEF CredentialsSpec

--------------------------------------------------------------------------------
(* Conversation turns *)

\* The steps of an execution that may still act, and those at which a call was begun and
\* has not acted yet.
Acting == {"thinking", "gate", "effect", "ack", "nack"}
Begun  == {"gate", "effect"}
RunnerSteps == Acting \cup {"idle", "replying", "failing", "closing"}

TurnRows == [status : {"absent", "running", "awaiting", "completed", "failed"}, attempts : Nat,
             message : Nat, delivery : {"pending", "delivered", "failed"}]
RunnerStates == [pc : RunnerSteps, key : SourceKeys \cup {"none"}, attempt : Nat, message : Nat,
                 consent : Nat, tool : GatedTools \cup {"none"}, requested : Nat, used : Nat]
GrantRows == [tool : GatedTools, requested : Nat, consent : Nat]

ConvTypeOK ==
  /\ turn \in [SourceKeys -> TurnRows]
  /\ \A k \in SourceKeys : turn[k].status = "absent" => turn[k].attempts = 0
  /\ grants \subseteq GrantRows
  /\ toolCall \in [SourceKeys \X GatedTools -> {"none", "started", "completed", "failed"}]
  /\ runner \in [Processes -> RunnerStates]
  /\ \A p \in Processes :
       /\ runner[p].pc # "idle" => runner[p].key \in SourceKeys
       /\ runner[p].pc \in Begun => runner[p].tool \in GatedTools
  /\ messages \in Nat
  /\ engineRuns \in [SourceKeys -> Nat]
  /\ \A x \in executed : x.key \in SourceKeys /\ x.tool \in GatedTools
  /\ \A c \in consents : c.key \in SourceKeys /\ c.message \in Nat

\* A message belongs to the turn it began or to the turn it gave consent to.
Begins(k, m) == turn[k].status # "absent" /\ turn[k].message = m
Belongs(k, m) == Begins(k, m) \/ \E c \in consents : c.key = k /\ c.message = m
Known(m) == m \in 1 .. messages

MessagesKnown == \A k \in SourceKeys, m \in Nat : Belongs(k, m) => Known(m)
MessagesApart == \A j, k \in SourceKeys, m \in Nat : Belongs(j, m) /\ Belongs(k, m) => j = k

\* What an execution does, it does for a message of its turn.
ActsForTurn(r) == r.pc \in Acting => Belongs(r.key, r.message)

\* One execution at most has begun a call, before it had an effect.
CallBegun(k, t) == toolCall[<<k, t>>] # "none"
CallOf(r) == <<r.key, r.tool>>
CallsApart ==
  /\ \A x \in executed : CallBegun(x.key, x.tool)
  /\ \A x, y \in executed : x.key = y.key /\ x.tool = y.tool => x = y
  /\ \A p \in Processes : runner[p].pc \in Begun =>
       /\ CallBegun(runner[p].key, runner[p].tool)
       /\ \A x \in executed : x.key = runner[p].key => x.tool # runner[p].tool
  /\ \A p, q \in Processes :
       runner[p].pc \in Begun /\ runner[q].pc \in Begun /\ CallOf(runner[p]) = CallOf(runner[q]) => p = q

\* The licence of a grant, of an execution that is about to act, and of an act.
Licence(tool, requested, consent) == <<tool, requested, consent>>
Granted  == {Licence(g.tool, g.requested, g.consent) : g \in grants}
LicenceOf(r) == Licence(r.tool, r.requested, r.used)
Holding  == {p \in Processes : runner[p].pc = "effect"}
HeldNow  == {LicenceOf(runner[p]) : p \in Holding}
Spent    == {Licence(x.tool, x.requested, x.consent) : x \in executed}
Licences == Granted \cup HeldNow \cup Spent

\* A licence serves once.
UsedOnce ==
  /\ Granted \cap HeldNow = {} /\ Granted \cap Spent = {} /\ HeldNow \cap Spent = {}
  /\ \A p, q \in Holding : LicenceOf(runner[p]) = LicenceOf(runner[q]) => p = q
  /\ \A x, y \in executed :
       Licence(x.tool, x.requested, x.consent) = Licence(y.tool, y.requested, y.consent) => x = y

\* It comes from a call that was begun and has been answered, or from a consent.
FromCall(tool, requested) ==
  \E k \in SourceKeys :
    /\ Belongs(k, requested)
    /\ CallBegun(k, tool)
    /\ \A p \in Processes : runner[p].pc = "gate" /\ runner[p].tool = tool => runner[p].key # k
FromConsent(tool, consent) == \E c \in consents : c.message = consent /\ tool \in c.allowed
Founded(l) == IF l[3] = 0 THEN FromCall(l[1], l[2]) ELSE FromConsent(l[1], l[3])
LicencesFounded == \A l \in Licences : Founded(l)

HoldersAgree ==
  \A p \in Holding :
    /\ runner[p].requested < runner[p].message
    /\ runner[p].used \in {0, runner[p].message}

ConsentsStand == \A x \in executed : LaterMessage(x) /\ ExactConsent(x)

ConvInv ==
  /\ ConvTypeOK
  /\ AgentRunsOncePerAttempt
  /\ MessagesKnown /\ MessagesApart
  /\ \A p \in Processes : ActsForTurn(runner[p])
  /\ CallsApart
  /\ UsedOnce
  /\ LicencesFounded
  /\ HoldersAgree
  /\ ConsentsStand

LEMMA ConvTyped == ConvInit => ConvTypeOK
BY DEF ConvInit, ConvTypeOK, NoTurn, NoRunner, TurnRows, RunnerStates, RunnerSteps, Acting, Begun

LEMMA ConvInitial == ConvInit => ConvInv
<1> SUFFICES ASSUME ConvInit PROVE ConvInv
  OBVIOUS
<1>1. ConvTypeOK
  BY ConvTyped
<1>2. /\ \A k \in SourceKeys : turn[k].status = "absent" /\ engineRuns[k] = 0 /\ turn[k].attempts = 0
      /\ \A p \in Processes : runner[p].pc = "idle"
      /\ grants = {} /\ executed = {} /\ consents = {}
  BY DEF ConvInit, NoTurn, NoRunner
<1>3. AgentRunsOncePerAttempt
  BY <1>2 DEF AgentRunsOncePerAttempt
<1>4. MessagesKnown /\ MessagesApart /\ \A p \in Processes : ActsForTurn(runner[p])
  BY <1>2 DEF MessagesKnown, MessagesApart, ActsForTurn, Belongs, Begins, Acting
<1>5. CallsApart
  BY <1>2 DEF CallsApart, Begun
<1>6. Licences = {} /\ Holding = {}
  BY <1>2 DEF Licences, Granted, HeldNow, Holding, Spent
<1>7. UsedOnce /\ LicencesFounded /\ HoldersAgree /\ ConsentsStand
  BY <1>2, <1>6 DEF UsedOnce, LicencesFounded, HoldersAgree, ConsentsStand, Licences
<1> QED
  BY <1>1, <1>3, <1>4, <1>5, <1>7 DEF ConvInv

\* What a process does next is a state of a runner.
LEMMA RunnerBecomes ==
  ASSUME NEW p \in Processes, NEW r \in RunnerStates, runner \in [Processes -> RunnerStates],
         runner' = [runner EXCEPT ![p] = r]
  PROVE  /\ runner' \in [Processes -> RunnerStates]
         /\ runner'[p] = r
         /\ \A q \in Processes : q # p => runner'[q] = runner[q]
OBVIOUS

LEMMA RunnersTyped ==
  ASSUME ConvTypeOK, NEW p \in Processes, NEW pc \in RunnerSteps
  PROVE  /\ runner[p] \in RunnerStates
         /\ [runner[p] EXCEPT !.pc = pc] \in RunnerStates
         /\ NoRunner \in RunnerStates
         /\ \A k \in SourceKeys : [NoRunner EXCEPT !.pc = pc, !.key = k] \in RunnerStates
         /\ \A k \in SourceKeys, a, n, c \in Nat :
              [NoRunner EXCEPT !.pc = pc, !.key = k, !.attempt = a, !.message = n, !.consent = c] \in RunnerStates
BY ZenonT(60) DEF ConvTypeOK, RunnerStates, NoRunner, RunnerSteps

\* The steps that leave what is licensed as it is: grants may go, turns keep their messages,
\* calls stay begun, and the process that moves is not left with a begun call.
Quiet(p) ==
  /\ runner' = [runner EXCEPT ![p] = runner'[p]]
  /\ runner'[p].pc \notin Begun
  /\ runner'[p].pc \in Acting =>
       runner[p].pc \in Acting /\ runner'[p].key = runner[p].key /\ runner'[p].message = runner[p].message
  /\ \A k \in SourceKeys :
       /\ turn'[k].message = turn[k].message
       /\ turn'[k].status = "absent" <=> turn[k].status = "absent"
       /\ turn'[k].attempts = turn[k].attempts
  /\ \A k \in SourceKeys, t \in GatedTools : CallBegun(k, t) <=> CallBegun(k, t)'
  /\ grants' \subseteq grants
  /\ UNCHANGED <<messages, engineRuns, executed, consents>>

LEMMA QuietKeeps ==
  ASSUME ConvInv, ConvTypeOK', NEW p \in Processes, Quiet(p)
  PROVE  ConvInv'
<1> USE DEF ConvInv
<1>1. \A q \in Processes : q # p => runner'[q] = runner[q]
  BY DEF Quiet, ConvTypeOK
<1>2. \A k \in SourceKeys : \A m : Begins(k, m) <=> Begins(k, m)'
  BY DEF Quiet, Begins
<1>3. \A k \in SourceKeys : \A m : Belongs(k, m) <=> Belongs(k, m)'
  BY <1>2 DEF Quiet, Belongs
<1>4. AgentRunsOncePerAttempt'
  BY DEF AgentRunsOncePerAttempt, Quiet
<1>5. MessagesKnown' /\ MessagesApart'
  BY <1>3 DEF MessagesKnown, MessagesApart, Quiet, Known
<1>6. \A q \in Processes : ActsForTurn(runner[q])'
  <2> TAKE q \in Processes
  <2>1. CASE q = p
    BY <2>1, <1>3 DEF ActsForTurn, Quiet, ConvTypeOK, Acting
  <2>2. CASE q # p
    BY <2>2, <1>1, <1>3 DEF ActsForTurn, ConvTypeOK, Acting
  <2> QED BY <2>1, <2>2
<1>7. CallsApart'
  <2>1. \A x \in executed : CallBegun(x.key, x.tool)'
    BY DEF CallsApart, Quiet, ConvTypeOK
  <2>2. \A q \in Processes : runner'[q].pc \in Begun => q # p /\ runner'[q] = runner[q]
    BY <1>1 DEF Quiet
  <2>3. ASSUME NEW q \in Processes, runner'[q].pc \in Begun
        PROVE  CallBegun(runner[q].key, runner[q].tool)' /\ runner'[q] = runner[q]
    BY <2>2, <2>3 DEF CallsApart, Quiet, ConvTypeOK, Begun
  <2> QED
    BY <2>1, <2>2, <2>3 DEF CallsApart, Quiet, CallOf
<1>8. \A q \in Processes : runner'[q].pc = "effect" \/ runner'[q].pc = "gate" => runner'[q] = runner[q]
  BY <1>1 DEF Quiet, Begun
<1>9. Holding' \subseteq Holding /\ \A q \in Holding' : runner'[q] = runner[q]
  BY <1>8 DEF Holding
<1>10. Granted' \subseteq Granted /\ HeldNow' \subseteq HeldNow /\ Spent' = Spent
  BY <1>9 DEF Granted, HeldNow, Spent, Quiet
<1>11. UsedOnce'
  BY <1>9, <1>10 DEF UsedOnce, Quiet
<1>12. ASSUME NEW l \in Licences, Founded(l) PROVE Founded(l)'
  <2>1. CASE l[3] = 0
    <3>1. PICK k \in SourceKeys : Belongs(k, l[2]) /\ CallBegun(k, l[1])
            /\ \A q \in Processes : runner[q].pc = "gate" /\ runner[q].tool = l[1] => runner[q].key # k
      BY <2>1, <1>12 DEF Founded, FromCall
    <3>2. l[1] \in GatedTools
      BY DEF Licences, Granted, HeldNow, Spent, Licence, LicenceOf, Holding, ConvTypeOK, GrantRows, Begun
    <3>3. CallBegun(k, l[1])' /\ Belongs(k, l[2])'
      BY <3>1, <3>2, <1>3 DEF Quiet
    <3>4. \A q \in Processes : runner'[q].pc = "gate" /\ runner'[q].tool = l[1] => runner'[q].key # k
      BY <3>1, <1>8
    <3> QED BY <2>1, <3>3, <3>4 DEF Founded, FromCall
  <2>2. CASE l[3] # 0
    BY <2>2, <1>12 DEF Founded, FromConsent, Quiet
  <2> QED BY <2>1, <2>2
<1>13. LicencesFounded'
  BY <1>10, <1>12 DEF LicencesFounded, Licences
<1>14. HoldersAgree'
  BY <1>9 DEF HoldersAgree
<1>15. ConsentsStand'
  BY DEF ConsentsStand, ExactConsent, LaterMessage, Quiet
<1> QED
  BY <1>4, <1>5, <1>6, <1>7, <1>11, <1>13, <1>14, <1>15

\* The parts of the type invariant that a step of one process can disturb.
LEMMA TypedStep ==
  ASSUME ConvTypeOK, NEW p \in Processes, NEW r \in RunnerStates,
         runner' = [runner EXCEPT ![p] = r],
         r.pc # "idle" => r.key \in SourceKeys,
         r.pc \in Begun => r.tool \in GatedTools,
         turn' \in [SourceKeys -> TurnRows],
         \A k \in SourceKeys : turn'[k].status = "absent" => turn'[k].attempts = 0,
         grants' \subseteq GrantRows,
         toolCall' \in [SourceKeys \X GatedTools -> {"none", "started", "completed", "failed"}],
         messages' \in Nat,
         engineRuns' \in [SourceKeys -> Nat],
         \A x \in executed' : x.key \in SourceKeys /\ x.tool \in GatedTools,
         \A c \in consents' : c.key \in SourceKeys /\ c.message \in Nat
  PROVE  ConvTypeOK'
BY DEF ConvTypeOK

\* What a turn becomes.
LEMMA TurnsTyped ==
  ASSUME ConvTypeOK, NEW k \in SourceKeys, NEW s \in {"running", "awaiting", "completed", "failed"},
         NEW d \in {"pending", "delivered", "failed"}
  PROVE  /\ turn[k] \in TurnRows
         /\ [turn[k] EXCEPT !.status = s] \in TurnRows
         /\ [turn[k] EXCEPT !.status = s, !.attempts = turn[k].attempts + 1] \in TurnRows
         /\ [turn[k] EXCEPT !.delivery = d] \in TurnRows
         /\ \A n \in Nat : [NoTurn EXCEPT !.status = "running", !.attempts = 1, !.message = n] \in TurnRows
<1>1. turn[k] \in TurnRows
  BY DEF ConvTypeOK
<1>2. [turn[k] EXCEPT !.status = s] \in TurnRows /\ [turn[k] EXCEPT !.delivery = d] \in TurnRows
  BY <1>1 DEF TurnRows
<1>3. [turn[k] EXCEPT !.status = s, !.attempts = turn[k].attempts + 1] \in TurnRows
  <2>1. turn[k].attempts + 1 \in Nat
    BY <1>1 DEF TurnRows
  <2> DEFINE n == turn[k].attempts + 1
  <2> HIDE DEF n
  <2>2. [turn[k] EXCEPT !.status = s, !.attempts = n] \in TurnRows
    BY <1>1, <2>1 DEF TurnRows, n
  <2> QED BY <2>2 DEF n
<1>4. \A n \in Nat : [NoTurn EXCEPT !.status = "running", !.attempts = 1, !.message = n] \in TurnRows
  BY DEF TurnRows, NoTurn
<1> QED BY <1>1, <1>2, <1>3, <1>4

LEMMA ReplaySound ==
  ASSUME ConvInv, NEW p \in Processes, NEW k \in SourceKeys, ReplayTurn(p, k) PROVE ConvInv'
<1> DEFINE r == [NoRunner EXCEPT !.pc = "replying", !.key = k]
<1>1. r \in RunnerStates /\ r.pc = "replying" /\ r.key = k
  BY RunnersTyped DEF ConvInv, RunnerSteps, NoRunner
<1> HIDE DEF r
<1>2. runner' = [runner EXCEPT ![p] = r]
  BY DEF ReplayTurn, r
<1>3. ConvTypeOK'
  BY <1>1, <1>2, TypedStep DEF ConvInv, ConvTypeOK, ReplayTurn, Begun
<1>4. runner'[p] = r
  BY <1>1, <1>2 DEF ConvInv, ConvTypeOK
<1>5. Quiet(p)
  BY <1>1, <1>2, <1>4 DEF Quiet, ReplayTurn, Begun, Acting, CallBegun
<1> QED BY <1>3, <1>5, QuietKeeps

\* A step by which an execution only moves on.
LEMMA MovesOn ==
  ASSUME ConvInv, NEW p \in Processes, NEW pc \in RunnerSteps \ Begun,
         runner' = [runner EXCEPT ![p] = [@ EXCEPT !.pc = pc]],
         runner[p].pc \in Acting \cup {"failing"}, pc \in Acting => runner[p].pc \in Acting,
         turn' \in [SourceKeys -> TurnRows],
         \A k \in SourceKeys :
           /\ turn'[k].message = turn[k].message
           /\ turn'[k].status = "absent" <=> turn[k].status = "absent"
           /\ turn'[k].attempts = turn[k].attempts,
         UNCHANGED <<grants, toolCall, messages, engineRuns, executed, consents>>
  PROVE  ConvInv'
<1> DEFINE r == [runner[p] EXCEPT !.pc = pc]
<1>1. r \in RunnerStates /\ runner[p] \in RunnerStates
  BY RunnersTyped DEF ConvInv
<1>2. r.pc = pc /\ r.key = runner[p].key /\ r.message = runner[p].message
  BY <1>1 DEF RunnerStates
<1>3. runner[p].key \in SourceKeys
  BY DEF ConvInv, ConvTypeOK, Acting
<1> HIDE DEF r
<1>4. runner' = [runner EXCEPT ![p] = r]
  BY DEF r
<1>5. ConvTypeOK'
  BY <1>1, <1>2, <1>3, <1>4, TypedStep DEF ConvInv, ConvTypeOK
<1>6. runner'[p] = r
  BY <1>1, <1>4 DEF ConvInv, ConvTypeOK
<1>7. Quiet(p)
  BY <1>2, <1>4, <1>6 DEF Quiet, CallBegun
<1> QED BY <1>5, <1>7, QuietKeeps

LEMMA MovesSound ==
  ASSUME ConvInv, NEW p \in Processes,
         GateFails(p) \/ Publish(p) \/ GiveUp(p) \/ FailAttempt(p) \/ \E wanted \in SUBSET GatedTools : Pause(p, wanted)
  PROVE  ConvInv'
<1> DEFINE k == runner[p].key
<1>0. /\ turn \in [SourceKeys -> TurnRows]
      /\ runner[p].pc \in Acting \cup {"failing"} => k \in SourceKeys
  BY DEF ConvInv, ConvTypeOK, Acting
<1>1. CASE GateFails(p) \/ GiveUp(p)
  BY <1>0, <1>1, MovesOn DEF GateFails, GiveUp, RunnerSteps, Begun, Acting
<1>2. ASSUME k \in SourceKeys, OwnsAttempt(p), NEW s \in {"completed", "awaiting", "failed"},
             turn' = [turn EXCEPT ![k].status = s]
      PROVE  /\ turn' \in [SourceKeys -> TurnRows]
             /\ \A j \in SourceKeys :
                  /\ turn'[j].message = turn[j].message
                  /\ turn'[j].status = "absent" <=> turn[j].status = "absent"
                  /\ turn'[j].attempts = turn[j].attempts
  <2>1. [turn[k] EXCEPT !.status = s] \in TurnRows
    BY <1>2, TurnsTyped DEF ConvInv
  <2>2. turn' = [turn EXCEPT ![k] = [turn[k] EXCEPT !.status = s]]
    BY <1>2, <1>0
  <2>3. [turn[k] EXCEPT !.status = s].message = turn[k].message
        /\ [turn[k] EXCEPT !.status = s].attempts = turn[k].attempts
        /\ [turn[k] EXCEPT !.status = s].status = s
    BY <1>2, <1>0 DEF TurnRows
  <2>4. turn[k].status = "running"
    BY <1>2 DEF OwnsAttempt
  <2> QED BY <1>0, <1>2, <2>1, <2>2, <2>3, <2>4
<1>3. CASE Publish(p)
  BY <1>0, <1>2, <1>3, MovesOn DEF Publish, RunnerSteps, Begun, Acting
<1>4. CASE FailAttempt(p)
  BY <1>0, <1>2, <1>4, MovesOn DEF FailAttempt, RunnerSteps, Begun, Acting
<1>5. ASSUME NEW wanted \in SUBSET GatedTools, Pause(p, wanted) PROVE ConvInv'
  BY <1>0, <1>2, <1>5, MovesOn DEF Pause, RunnerSteps, Begun, Acting
<1> QED BY <1>1, <1>3, <1>4, <1>5

LEMMA SettleSound ==
  ASSUME ConvInv, NEW p \in Processes, SettleCall(p) PROVE ConvInv'
<1> DEFINE r == [runner[p] EXCEPT !.pc = "thinking", !.tool = "none", !.requested = 0, !.used = 0]
<1>0. runner[p] \in RunnerStates
  BY DEF ConvInv, ConvTypeOK
<1>1. r \in RunnerStates /\ runner[p] \in RunnerStates
  BY <1>0 DEF RunnerStates, RunnerSteps, Acting
<1>2. r.pc = "thinking" /\ r.key = runner[p].key /\ r.message = runner[p].message
  BY <1>1 DEF RunnerStates
<1>3. runner[p].key \in SourceKeys /\ runner[p].pc \in Acting
  BY DEF SettleCall, ConvInv, ConvTypeOK, Acting
<1> HIDE DEF r
<1>4. runner' = [runner EXCEPT ![p] = r]
  BY <1>1 DEF SettleCall, ConvInv, ConvTypeOK, r
<1>5. /\ toolCall' \in [SourceKeys \X GatedTools -> {"none", "started", "completed", "failed"}]
      /\ \A c \in SourceKeys \X GatedTools : toolCall'[c] = "none" <=> toolCall[c] = "none"
  BY DEF SettleCall, ConvInv, ConvTypeOK
<1>6. ConvTypeOK'
  BY <1>1, <1>2, <1>3, <1>4, <1>5, TypedStep DEF ConvInv, ConvTypeOK, SettleCall, Begun
<1>7. runner'[p] = r
  BY <1>1, <1>4 DEF ConvInv, ConvTypeOK
<1>8. Quiet(p)
  BY <1>2, <1>3, <1>4, <1>5, <1>7 DEF Quiet, CallBegun, SettleCall, Begun
<1> QED BY <1>6, <1>8, QuietKeeps

LEMMA CloseSound ==
  ASSUME ConvInv, NEW p \in Processes, RevokeGrants(p) \/ DeliverReply(p) \/ Restart(p)
  PROVE  ConvInv'
<1>0. turn \in [SourceKeys -> TurnRows] /\ runner \in [Processes -> RunnerStates]
  BY DEF ConvInv, ConvTypeOK
<1>1. ASSUME NEW r \in RunnerStates, runner' = [runner EXCEPT ![p] = r], r.pc \in {"idle", "replying"},
             r.pc = "replying" => r.key \in SourceKeys,
             turn' \in [SourceKeys -> TurnRows],
             \A k \in SourceKeys :
               /\ turn'[k].message = turn[k].message
               /\ turn'[k].status = "absent" <=> turn[k].status = "absent"
               /\ turn'[k].attempts = turn[k].attempts,
             grants' \subseteq grants,
             UNCHANGED <<toolCall, messages, engineRuns, executed, consents>>
      PROVE  ConvInv'
  <2>1. ConvTypeOK'
    BY <1>1, TypedStep DEF ConvInv, ConvTypeOK, Begun
  <2>2. runner'[p] = r
    BY <1>0, <1>1
  <2>3. Quiet(p)
    BY <1>1, <2>2 DEF Quiet, CallBegun, Begun, Acting
  <2> QED BY <2>1, <2>3, QuietKeeps
<1>2. NoRunner \in RunnerStates /\ NoRunner.pc = "idle"
  BY DEF NoRunner, RunnerStates, RunnerSteps
<1>3. CASE RevokeGrants(p)
  <2> DEFINE r == IF turn[runner[p].key].status = "completed"
                  THEN [NoRunner EXCEPT !.pc = "replying", !.key = runner[p].key] ELSE NoRunner
  <2>1. runner[p].key \in SourceKeys
    BY <1>3 DEF RevokeGrants, ConvInv, ConvTypeOK
  <2>2. r \in RunnerStates /\ r.pc \in {"idle", "replying"} /\ (r.pc = "replying" => r.key \in SourceKeys)
    BY <2>1 DEF NoRunner, RunnerStates, RunnerSteps
  <2>3. runner' = [runner EXCEPT ![p] = r]
    BY <1>3 DEF RevokeGrants
  <2> HIDE DEF r
  <2>4. grants' \subseteq grants
    BY <1>3 DEF RevokeGrants
  <2> QED BY <1>0, <1>1, <1>3, <2>2, <2>3, <2>4 DEF RevokeGrants
<1>4. CASE DeliverReply(p)
  <2> DEFINE k == runner[p].key
  <2>1. k \in SourceKeys
    BY <1>4 DEF DeliverReply, ConvInv, ConvTypeOK
  <2>2. /\ turn' \in [SourceKeys -> TurnRows]
        /\ \A j \in SourceKeys :
             /\ turn'[j].message = turn[j].message
             /\ turn'[j].status = turn[j].status
             /\ turn'[j].attempts = turn[j].attempts
    BY <1>0, <1>4, <2>1 DEF DeliverReply, TurnRows
  <2> QED BY <1>0, <1>1, <1>2, <1>4, <2>2 DEF DeliverReply
<1>5. CASE Restart(p)
  <2>1. /\ turn' \in [SourceKeys -> TurnRows]
        /\ \A j \in SourceKeys :
             /\ turn'[j].message = turn[j].message
             /\ turn'[j].status = "absent" <=> turn[j].status = "absent"
             /\ turn'[j].attempts = turn[j].attempts
    BY <1>0, <1>5 DEF Restart, TurnRows
  <2> QED BY <1>0, <1>1, <1>2, <1>5, <2>1 DEF Restart
<1> QED BY <1>3, <1>4, <1>5

\* A step of no process, by which grants or turns end.
LEMMA OutsideKeeps ==
  ASSUME ConvInv, UNCHANGED runner,
         turn' \in [SourceKeys -> TurnRows],
         \A k \in SourceKeys :
           /\ turn'[k].message = turn[k].message
           /\ turn'[k].status = "absent" <=> turn[k].status = "absent"
           /\ turn'[k].attempts = turn[k].attempts,
         grants' \subseteq grants,
         UNCHANGED <<toolCall, messages, engineRuns, executed, consents>>
  PROVE  ConvInv'
<1> USE DEF ConvInv
<1>1. ConvTypeOK'
  BY DEF ConvTypeOK
<1>2. \A k \in SourceKeys : \A m : Belongs(k, m) <=> Belongs(k, m)'
  BY DEF Belongs, Begins
<1>3. AgentRunsOncePerAttempt' /\ MessagesKnown' /\ MessagesApart'
  BY <1>2 DEF AgentRunsOncePerAttempt, MessagesKnown, MessagesApart, Known
<1>4. \A q \in Processes : ActsForTurn(runner[q])'
  BY <1>2 DEF ActsForTurn, ConvTypeOK, Acting
<1>5. CallsApart' /\ HoldersAgree' /\ ConsentsStand'
  BY DEF CallsApart, HoldersAgree, ConsentsStand, CallBegun, CallOf, Holding, LaterMessage, ExactConsent
<1>6. Granted' \subseteq Granted /\ HeldNow' = HeldNow /\ Spent' = Spent /\ Holding' = Holding
  BY DEF Granted, HeldNow, Spent, Holding, LicenceOf
<1>7. UsedOnce'
  BY <1>6 DEF UsedOnce, LicenceOf
<1>8. LicencesFounded'
  BY <1>2, <1>6 DEF LicencesFounded, Licences, Founded, FromCall, FromConsent, CallBegun
<1> QED BY <1>1, <1>3, <1>4, <1>5, <1>7, <1>8

LEMMA OutsideSound ==
  ASSUME ConvInv,
         \/ \E p \in Processes, k \in SourceKeys, allow, refuse \in SUBSET GatedTools : DecidePart(p, k, allow, refuse)
         \/ \E k \in SourceKeys : CloseExpired(k)
         \/ \E g \in grants : GrantExpires(g)
  PROVE  ConvInv'
<1>0. turn \in [SourceKeys -> TurnRows]
  BY DEF ConvInv, ConvTypeOK
<1>1. ASSUME NEW p \in Processes, NEW k \in SourceKeys, NEW allow \in SUBSET GatedTools,
             NEW refuse \in SUBSET GatedTools, DecidePart(p, k, allow, refuse)
      PROVE  ConvInv'
  BY <1>0, <1>1, OutsideKeeps DEF DecidePart
<1>2. ASSUME NEW k \in SourceKeys, CloseExpired(k) PROVE ConvInv'
  <2>1. /\ turn' \in [SourceKeys -> TurnRows]
        /\ \A j \in SourceKeys :
             /\ turn'[j].message = turn[j].message
             /\ turn'[j].status = "absent" <=> turn[j].status = "absent"
             /\ turn'[j].attempts = turn[j].attempts
    BY <1>0, <1>2 DEF CloseExpired, PendingFor, TurnRows
  <2> QED BY <1>2, <2>1, OutsideKeeps DEF CloseExpired
<1>3. ASSUME NEW g \in grants, GrantExpires(g) PROVE ConvInv'
  BY <1>0, <1>3, OutsideKeeps DEF GrantExpires
<1> QED BY <1>1, <1>2, <1>3

--------------------------------------------------------------------------------
(* A turn begins, or goes on with a consent: a message nobody has had *)

LEMMA FreshMessage ==
  ASSUME ConvInv
  PROVE  /\ messages + 1 \in Nat /\ messages + 1 # 0 /\ messages \in Nat
         /\ \A k \in SourceKeys, m \in Nat : Belongs(k, m) => m <= messages /\ m # messages + 1
         /\ \A k \in SourceKeys : ~Belongs(k, messages + 1)
<1>1. messages \in Nat
  BY DEF ConvInv, ConvTypeOK
<1>2. \A m \in 1 .. messages : m <= messages /\ m # messages + 1
  BY <1>1
<1>3. messages + 1 \in Nat /\ messages + 1 # 0
  BY <1>1
<1>4. \A k \in SourceKeys, m \in Nat : Belongs(k, m) => m \in 1 .. messages
  BY DEF ConvInv, MessagesKnown, Known
<1> QED BY <1>1, <1>2, <1>3, <1>4

\* A message that belongs to a turn is a number.
LEMMA MessagesAreNumbers ==
  ASSUME ConvInv, NEW k \in SourceKeys, NEW m, Belongs(k, m) PROVE m \in Nat
BY DEF ConvInv, ConvTypeOK, Belongs, Begins, TurnRows

LEMMA KnownGrows ==
  ASSUME NEW n \in Nat PROVE \A m \in 1 .. n : m \in 1 .. (n + 1)
OBVIOUS
LEMMA KnownLast ==
  ASSUME NEW n \in Nat PROVE n + 1 \in 1 .. (n + 1)
OBVIOUS

\* What the new message changes: it belongs to one turn, and everything else is as it was.
LEMMA MessageArrives ==
  ASSUME ConvInv, ConvTypeOK', NEW p \in Processes, NEW k \in SourceKeys,
         runner' = [runner EXCEPT ![p] = runner'[p]],
         runner[p].pc = "idle",
         runner'[p].pc = "thinking", runner'[p].key = k, runner'[p].message = messages + 1,
         messages' = messages + 1,
         \A j \in SourceKeys : \A m : Belongs(j, m)' <=> Belongs(j, m) \/ (j = k /\ m = messages + 1),
         engineRuns' = [engineRuns EXCEPT ![k] = @ + 1],
         \A j \in SourceKeys : engineRuns'[j] <= turn'[j].attempts,
         consents \subseteq consents',
         UNCHANGED <<toolCall, executed>>
  PROVE  /\ AgentRunsOncePerAttempt'
         /\ MessagesKnown' /\ MessagesApart'
         /\ \A q \in Processes : ActsForTurn(runner[q])'
         /\ CallsApart' /\ HoldersAgree' /\ ConsentsStand'
         /\ HeldNow' = HeldNow /\ Spent' = Spent /\ Holding' = Holding
         /\ \A q \in Holding : runner'[q] = runner[q]
         /\ \A l \in Licences : Founded(l) => Founded(l)'
<1> USE DEF ConvInv
<1>0. \A q \in Processes : q # p => runner'[q] = runner[q]
  BY DEF ConvTypeOK
<1>1. AgentRunsOncePerAttempt'
  BY DEF AgentRunsOncePerAttempt
<1>2. MessagesKnown'
  <2>1. \A m \in Nat : Known(m) => Known(m)'
    BY KnownGrows DEF Known, ConvTypeOK
  <2>2. messages + 1 \in 1 .. messages'
    BY KnownLast DEF ConvTypeOK
  <2> QED BY <2>1, <2>2 DEF MessagesKnown, Known
<1>3. MessagesApart'
  <2> SUFFICES ASSUME NEW i \in SourceKeys, NEW j \in SourceKeys, NEW m \in Nat, Belongs(i, m)', Belongs(j, m)'
               PROVE  i = j
    BY DEF MessagesApart
  <2>1. Belongs(i, m) \/ (i = k /\ m = messages + 1)
    OBVIOUS
  <2>2. Belongs(j, m) \/ (j = k /\ m = messages + 1)
    OBVIOUS
  <2> QED BY <2>1, <2>2, FreshMessage DEF MessagesApart
<1>4. \A q \in Processes : ActsForTurn(runner[q])'
  BY <1>0 DEF ActsForTurn, ConvTypeOK, Acting
<1>5. \A q \in Processes : runner'[q].pc \in {"gate", "effect"} => runner'[q] = runner[q] /\ q # p
  BY <1>0
<1>6. CallsApart'
  BY <1>5 DEF CallsApart, Begun, CallOf, CallBegun
<1>7. Holding' = Holding /\ \A q \in Holding : runner'[q] = runner[q]
  BY <1>0 DEF Holding
<1>8. HoldersAgree'
  BY <1>7 DEF HoldersAgree
<1>9. ConsentsStand'
  BY DEF ConsentsStand, LaterMessage, ExactConsent
<1>10. HeldNow' = HeldNow /\ Spent' = Spent
  BY <1>7 DEF HeldNow, Spent, LicenceOf
<1>11. ASSUME NEW l \in Licences, Founded(l) PROVE Founded(l)'
  <2>1. CASE l[3] = 0
    <3>1. PICK j \in SourceKeys : Belongs(j, l[2]) /\ CallBegun(j, l[1])
            /\ \A q \in Processes : runner[q].pc = "gate" /\ runner[q].tool = l[1] => runner[q].key # j
      BY <2>1, <1>11 DEF Founded, FromCall
    <3> QED BY <2>1, <3>1, <1>5 DEF Founded, FromCall, CallBegun
  <2>2. CASE l[3] # 0
    BY <2>2, <1>11 DEF Founded, FromConsent
  <2> QED BY <2>1, <2>2
<1> QED BY <1>1, <1>2, <1>3, <1>4, <1>6, <1>7, <1>8, <1>9, <1>10, <1>11

LEMMA BeginSound ==
  ASSUME ConvInv, NEW p \in Processes, NEW k \in SourceKeys, BeginTurn(p, k) PROVE ConvInv'
<1> DEFINE n == messages + 1
           row == [NoTurn EXCEPT !.status = "running", !.attempts = 1, !.message = n]
           r == [NoRunner EXCEPT !.pc = "thinking", !.key = k, !.attempt = 1, !.message = n]
<1>0. turn \in [SourceKeys -> TurnRows] /\ runner \in [Processes -> RunnerStates] /\ messages \in Nat
  BY DEF ConvInv, ConvTypeOK
<1>1. turn[k].status = "absent" /\ runner[p].pc = "idle"
  BY DEF BeginTurn, Claims
<1>2. row.status = "running" /\ row.attempts = 1 /\ row.message = n
  BY DEF NoTurn
<1>3. n \in Nat
  BY FreshMessage
<1>4. row \in TurnRows
  BY <1>3, TurnsTyped DEF ConvInv
<1>5. turn' = [turn EXCEPT ![k] = row] /\ messages' = n
  BY <1>1 DEF BeginTurn
<1> HIDE DEF row
<1>6. turn' \in [SourceKeys -> TurnRows] /\ turn'[k] = row /\ \A j \in SourceKeys : j # k => turn'[j] = turn[j]
  BY <1>0, <1>4, <1>5
<1>7. r \in RunnerStates
  BY <1>3 DEF NoRunner, RunnerStates, RunnerSteps, Acting
<1>8. r.pc = "thinking" /\ r.key = k /\ r.message = n
  BY DEF NoRunner
<1>9. runner' = [runner EXCEPT ![p] = r]
  <2>1. turn'[k].attempts = 1
    BY <1>2, <1>6
  <2> QED BY <1>1, <2>1 DEF BeginTurn
<1> HIDE DEF r
<1>10. engineRuns' = [engineRuns EXCEPT ![k] = @ + 1]
       /\ UNCHANGED <<native, plan, approval, grants, toolCall, executed, consents>>
  BY DEF BeginTurn
<1>11. engineRuns[k] = 0 /\ engineRuns \in [SourceKeys -> Nat]
  <2>1. turn[k].attempts = 0 /\ engineRuns[k] \in Nat /\ engineRuns[k] <= turn[k].attempts
    BY <1>1 DEF ConvInv, ConvTypeOK, AgentRunsOncePerAttempt
  <2> QED BY <2>1 DEF ConvInv, ConvTypeOK
<1>12. engineRuns' \in [SourceKeys -> Nat] /\ \A j \in SourceKeys : engineRuns'[j] <= turn'[j].attempts
  BY <1>2, <1>6, <1>10, <1>11 DEF ConvInv, AgentRunsOncePerAttempt
<1>13. \A j \in SourceKeys : turn'[j].status = "absent" => turn'[j].attempts = 0
  BY <1>2, <1>6 DEF ConvInv, ConvTypeOK
<1>14. ConvTypeOK'
  BY <1>3, <1>5, <1>6, <1>7, <1>8, <1>9, <1>10, <1>12, <1>13, TypedStep DEF ConvInv, ConvTypeOK, Begun
<1>15. runner'[p] = r
  BY <1>0, <1>7, <1>9
<1>16. \A j \in SourceKeys : \A m : Belongs(j, m)' <=> Belongs(j, m) \/ (j = k /\ m = n)
  BY <1>1, <1>2, <1>6, <1>10 DEF Belongs, Begins
<1>17. /\ AgentRunsOncePerAttempt'
       /\ MessagesKnown' /\ MessagesApart'
       /\ \A q \in Processes : ActsForTurn(runner[q])'
       /\ CallsApart' /\ HoldersAgree' /\ ConsentsStand'
       /\ HeldNow' = HeldNow /\ Spent' = Spent /\ Holding' = Holding
       /\ \A q \in Holding : runner'[q] = runner[q]
       /\ \A l \in Licences : Founded(l) => Founded(l)'
  BY <1>1, <1>5, <1>8, <1>9, <1>10, <1>12, <1>14, <1>15, <1>16, MessageArrives, ZenonT(60)
<1>18. Granted' = Granted
  BY <1>10 DEF Granted
<1>19. UsedOnce'
  BY <1>10, <1>17, <1>18 DEF UsedOnce, ConvInv, LicenceOf
<1>20. LicencesFounded'
  BY <1>17, <1>18 DEF LicencesFounded, Licences, ConvInv
<1> QED BY <1>14, <1>17, <1>19, <1>20 DEF ConvInv


\* The user is asked about gated calls only.
ApprovalRows == [status : {"none", "pending", "claimed"}, asked : SUBSET GatedTools,
                 allowed : SUBSET GatedTools, refused : SUBSET GatedTools]
ApprovalsTyped == approval \in [SourceKeys -> ApprovalRows]

LEMMA ApprovalsStep ==
  ASSUME ConvInv, ApprovalsTyped, ConvNext PROVE ApprovalsTyped'
<1>1. ASSUME NEW k \in SourceKeys, NEW wanted \in SUBSET GatedTools,
             approval' = [approval EXCEPT ![k] = [NoApproval EXCEPT !.status = "pending", !.asked = wanted]]
      PROVE  ApprovalsTyped'
  BY <1>1 DEF ApprovalsTyped, ApprovalRows, NoApproval
<1>2. ASSUME NEW k \in SourceKeys, NEW allow \in SUBSET GatedTools, NEW refuse \in SUBSET GatedTools
      PROVE  ApprovalsTyped =>
               /\ Merged(k, allow, refuse) \in ApprovalRows
               /\ [Merged(k, allow, refuse) EXCEPT !.status = "claimed"] \in ApprovalRows
  BY DEF ApprovalsTyped, ApprovalRows, Merged
<1>3. ASSUME NEW p \in Processes, NEW wanted \in SUBSET GatedTools, Pause(p, wanted) PROVE ApprovalsTyped'
  <2>1. runner[p].key \in SourceKeys
    BY <1>3 DEF Pause, ConvInv, ConvTypeOK
  <2> QED BY <1>1, <1>3, <2>1 DEF Pause
<1>4. ASSUME NEW p \in Processes, NEW k \in SourceKeys, NEW allow \in SUBSET GatedTools,
             NEW refuse \in SUBSET GatedTools, DecidePart(p, k, allow, refuse) \/ DecideAll(p, k, allow, refuse)
      PROVE  ApprovalsTyped'
  <2>1. PICK a \in ApprovalRows : approval' = [approval EXCEPT ![k] = a]
    BY <1>2, <1>4 DEF DecidePart, DecideAll
  <2> QED BY <2>1 DEF ApprovalsTyped
<1>5. ASSUME UNCHANGED approval PROVE ApprovalsTyped'
  BY <1>5 DEF ApprovalsTyped
<1> QED
  BY <1>3, <1>4, <1>5 DEF ConvNext, BeginTurn, ReplayTurn, BeginCall, ConsumeGrant, RegisterGrant, GateFails,
     Execute, SettleCall, Publish, GiveUp, FailAttempt, RevokeGrants, DeliverReply, Restart, CloseExpired,
     GrantExpires

LEMMA ConsentSound ==
  ASSUME ConvInv, ApprovalsTyped, NEW p \in Processes, NEW k \in SourceKeys, NEW allow \in SUBSET GatedTools,
         NEW refuse \in SUBSET GatedTools, DecideAll(p, k, allow, refuse)
  PROVE  ConvInv'
<1> DEFINE a == Merged(k, allow, refuse)
           n == messages + 1
           row == [turn[k] EXCEPT !.status = "running", !.attempts = turn[k].attempts + 1]
           r == [NoRunner EXCEPT !.pc = "thinking", !.key = k, !.attempt = turn[k].attempts + 1,
                                 !.message = n, !.consent = n]
           new == [message |-> n, key |-> k, allowed |-> a.allowed]
<1>0. turn \in [SourceKeys -> TurnRows] /\ runner \in [Processes -> RunnerStates] /\ messages \in Nat
      /\ grants \subseteq GrantRows
  BY DEF ConvInv, ConvTypeOK
<1>1. turn[k].status = "awaiting" /\ runner[p].pc = "idle"
  BY DEF DecideAll, Decidable, PendingFor
<1>2. turn[k] \in TurnRows /\ turn[k].attempts \in Nat /\ turn[k].message \in Nat
  BY <1>0 DEF TurnRows
<1>3. n \in Nat /\ n # 0 /\ turn[k].attempts + 1 \in Nat
  BY <1>2, FreshMessage
<1>4. row \in TurnRows
  BY <1>0, TurnsTyped DEF ConvInv
<1>5. row.status = "running" /\ row.attempts = turn[k].attempts + 1 /\ row.message = turn[k].message
  BY <1>2 DEF TurnRows
<1>6. turn' = [turn EXCEPT ![k] = row]
  BY <1>0 DEF DecideAll
<1>7. a.allowed \subseteq GatedTools
  BY DEF ApprovalsTyped, ApprovalRows, Merged
<1>8. r \in RunnerStates
  BY <1>3, RunnersTyped DEF ConvInv, RunnerSteps, Acting
<1>9. r.pc = "thinking" /\ r.key = k /\ r.message = n
  BY DEF NoRunner
<1>10. /\ runner' = [runner EXCEPT ![p] = r]
       /\ messages' = n
       /\ grants' = {g \in grants : g.tool \notin a.allowed} \cup GrantsOf(k, a, n)
       /\ consents' = consents \cup {new}
       /\ engineRuns' = [engineRuns EXCEPT ![k] = @ + 1]
       /\ UNCHANGED <<toolCall, executed>>
  BY DEF DecideAll
<1>11. new.message = n /\ new.key = k /\ new.allowed = a.allowed
  OBVIOUS
<1> HIDE DEF row, r, new, a
<1>12. turn' \in [SourceKeys -> TurnRows] /\ turn'[k] = row /\ \A j \in SourceKeys : j # k => turn'[j] = turn[j]
  BY <1>0, <1>4, <1>6
<1>13. engineRuns' \in [SourceKeys -> Nat] /\ \A j \in SourceKeys : engineRuns'[j] <= turn'[j].attempts
  <2>1. \A j \in SourceKeys : engineRuns[j] \in Nat /\ engineRuns[j] <= turn[j].attempts
    BY DEF ConvInv, ConvTypeOK, AgentRunsOncePerAttempt
  <2>2. engineRuns[k] + 1 \in Nat /\ engineRuns[k] + 1 <= turn[k].attempts + 1
    BY <2>1, <1>2
  <2> QED BY <1>5, <1>10, <1>12, <2>1, <2>2 DEF ConvInv, ConvTypeOK
<1>14. \A j \in SourceKeys : turn'[j].status = "absent" => turn'[j].attempts = 0
  BY <1>5, <1>12 DEF ConvInv, ConvTypeOK
<1>15. \A g \in GrantsOf(k, a, n) : g \in GrantRows /\ g.tool \in a.allowed /\ g.consent = n
  BY <1>2, <1>3, <1>7 DEF GrantsOf, GrantRows
<1>16. grants' \subseteq GrantRows
  BY <1>0, <1>10, <1>15
<1>17. \A c \in consents' : c.key \in SourceKeys /\ c.message \in Nat
  BY <1>3, <1>10, <1>11 DEF ConvInv, ConvTypeOK
<1>18. ConvTypeOK'
  BY <1>3, <1>8, <1>9, <1>10, <1>12, <1>13, <1>14, <1>16, <1>17, TypedStep DEF ConvInv, ConvTypeOK, Begun
<1>19. runner'[p] = r
  BY <1>0, <1>8, <1>10
<1>20. \A j \in SourceKeys : \A m : Belongs(j, m)' <=> Belongs(j, m) \/ (j = k /\ m = n)
  <2>1. \A j \in SourceKeys : \A m : Begins(j, m)' <=> Begins(j, m)
    BY <1>1, <1>5, <1>12 DEF Begins
  <2> QED BY <1>10, <1>11, <2>1 DEF Belongs
<1>21. /\ AgentRunsOncePerAttempt'
       /\ MessagesKnown' /\ MessagesApart'
       /\ \A q \in Processes : ActsForTurn(runner[q])'
       /\ CallsApart' /\ HoldersAgree' /\ ConsentsStand'
       /\ HeldNow' = HeldNow /\ Spent' = Spent /\ Holding' = Holding
       /\ \A q \in Holding : runner'[q] = runner[q]
       /\ \A l \in Licences : Founded(l) => Founded(l)'
  <2>1. consents \subseteq consents' /\ runner' = [runner EXCEPT ![p] = runner'[p]]
    BY <1>10, <1>19
  <2>2. runner'[p].pc = "thinking" /\ runner'[p].key = k /\ runner'[p].message = messages + 1
    BY <1>9, <1>19
  <2>3. /\ messages' = messages + 1
        /\ engineRuns' = [engineRuns EXCEPT ![k] = @ + 1]
        /\ UNCHANGED <<toolCall, executed>>
    BY <1>10
  <2>4. \A j \in SourceKeys : \A m : Belongs(j, m)' <=> Belongs(j, m) \/ (j = k /\ m = messages + 1)
    BY <1>20
  <2> HIDE DEF n
  <2> QED BY <2>1, <2>2, <2>3, <2>4, <1>1, <1>13, <1>18, MessageArrives
\* The licences the consent gives are new ones.
<1>22. ASSUME NEW l \in Licences PROVE l[3] # n
  <2>1. Founded(l)
    BY DEF ConvInv, LicencesFounded
  <2>2. CASE l[3] = 0
    BY <2>2, <1>3
  <2>3. CASE l[3] # 0
    <3>1. PICK c \in consents : c.message = l[3]
      BY <2>1, <2>3 DEF Founded, FromConsent
    <3>2. c.key \in SourceKeys /\ Belongs(c.key, l[3])
      BY <3>1 DEF ConvInv, ConvTypeOK, Belongs
    <3> QED BY <3>2, FreshMessage
  <2> QED BY <2>2, <2>3
<1>23. ASSUME NEW l \in Granted'
       PROVE  l \in Granted \/ (l[3] = n /\ l[1] \in a.allowed)
  <2>1. PICK g \in grants' : l = Licence(g.tool, g.requested, g.consent)
    BY DEF Granted
  <2>2. CASE g \in grants
    BY <2>1, <2>2 DEF Granted
  <2>3. CASE g \in GrantsOf(k, a, n)
    BY <2>1, <2>3, <1>15 DEF Licence
  <2> QED BY <1>10, <2>2, <2>3
<1>24. Granted \subseteq Licences /\ HeldNow \subseteq Licences /\ Spent \subseteq Licences
  BY DEF Licences
<1>25. UsedOnce'
  BY <1>10, <1>21, <1>22, <1>23, <1>24 DEF UsedOnce, ConvInv, LicenceOf
<1>26. ASSUME NEW l, l[3] = n, l[1] \in a.allowed PROVE Founded(l)'
  BY <1>3, <1>10, <1>11, <1>26 DEF Founded, FromConsent
<1>27. LicencesFounded'
  BY <1>21, <1>23, <1>24, <1>26 DEF LicencesFounded, Licences, ConvInv
<1> QED BY <1>18, <1>21, <1>25, <1>27 DEF ConvInv

--------------------------------------------------------------------------------
(* Gated calls *)

LEMMA CallSound ==
  ASSUME ConvInv, NEW p \in Processes, NEW t \in GatedTools, BeginCall(p, t) PROVE ConvInv'
<1> USE DEF ConvInv
<1> DEFINE k == runner[p].key
           r == [runner[p] EXCEPT !.pc = "gate", !.tool = t]
<1>0. /\ runner \in [Processes -> RunnerStates] /\ runner[p] \in RunnerStates
      /\ toolCall \in [SourceKeys \X GatedTools -> {"none", "started", "completed", "failed"}]
  BY DEF ConvTypeOK
<1>1. runner[p].pc = "thinking" /\ k \in SourceKeys
  BY DEF BeginCall, ConvTypeOK
<1>2. r \in RunnerStates
  BY <1>0 DEF RunnerStates, RunnerSteps, Acting
<1>3. r.pc = "gate" /\ r.tool = t /\ r.key = k /\ r.message = runner[p].message
  BY <1>0 DEF RunnerStates
<1> HIDE DEF r
<1>4. /\ ~CallBegun(k, t)
      /\ toolCall' = [toolCall EXCEPT ![<<k, t>>] = "started"]
      /\ runner' = [runner EXCEPT ![p] = r]
      /\ UNCHANGED <<turn, grants, messages, engineRuns, executed, consents>>
  BY <1>0 DEF BeginCall, Started, CallBegun, r
<1>5. /\ toolCall' \in [SourceKeys \X GatedTools -> {"none", "started", "completed", "failed"}]
      /\ \A j \in SourceKeys, u \in GatedTools : CallBegun(j, u)' <=> CallBegun(j, u) \/ (j = k /\ u = t)
  BY <1>0, <1>1, <1>4 DEF CallBegun
<1>6. ConvTypeOK'
  BY <1>1, <1>2, <1>3, <1>4, <1>5, TypedStep DEF ConvTypeOK
<1>7. runner'[p] = r /\ \A q \in Processes : q # p => runner'[q] = runner[q]
  BY <1>0, <1>4
<1>8. \A j, m : Belongs(j, m)' <=> Belongs(j, m)
  BY <1>4 DEF Belongs, Begins
<1>9. AgentRunsOncePerAttempt' /\ MessagesKnown' /\ MessagesApart' /\ ConsentsStand'
  BY <1>4, <1>8 DEF AgentRunsOncePerAttempt, MessagesKnown, MessagesApart, Known, ConsentsStand, LaterMessage, ExactConsent
<1>10. \A q \in Processes : ActsForTurn(runner[q])'
  <2> TAKE q \in Processes
  <2>1. CASE q = p
    BY <2>1, <1>1, <1>3, <1>7, <1>8 DEF ActsForTurn, Acting
  <2>2. CASE q # p
    BY <2>2, <1>7, <1>8 DEF ActsForTurn, Acting
  <2> QED BY <2>1, <2>2
<1>11. Holding' = Holding /\ p \notin Holding /\ \A q \in Holding : runner'[q] = runner[q]
  BY <1>1, <1>3, <1>7 DEF Holding
<1>12. HoldersAgree'
  BY <1>11 DEF HoldersAgree
<1>13. CallsApart'
  <2>1. \A x \in executed : CallBegun(x.key, x.tool) /\ (x.key = k => x.tool # t)
    BY <1>4 DEF CallsApart
  <2>2. \A q \in Processes : q # p /\ runner[q].pc \in Begun =>
          /\ CallBegun(runner[q].key, runner[q].tool)
          /\ runner[q].key \in SourceKeys /\ runner[q].tool \in GatedTools
          /\ ~(runner[q].key = k /\ runner[q].tool = t)
    BY <1>4 DEF CallsApart, ConvTypeOK, Begun
  <2>3. \A x \in executed : CallBegun(x.key, x.tool)'
    BY <1>5, <2>1 DEF ConvTypeOK
  <2>4. ASSUME NEW q \in Processes, runner'[q].pc \in Begun
        PROVE  /\ CallBegun(runner[q].key, runner[q].tool)'
               /\ \A x \in executed : x.key = runner'[q].key => x.tool # runner'[q].tool
    <3>1. CASE q = p
      BY <3>1, <1>1, <1>3, <1>5, <1>7, <2>1
    <3>2. CASE q # p
      BY <3>2, <1>5, <1>7, <2>2, <2>4 DEF CallsApart
    <3> QED BY <3>1, <3>2
  <2>5. ASSUME NEW q \in Processes, NEW s \in Processes, runner'[q].pc \in Begun, runner'[s].pc \in Begun,
               CallOf(runner'[q]) = CallOf(runner'[s])
        PROVE  q = s
    <3>1. runner'[q].key = runner'[s].key /\ runner'[q].tool = runner'[s].tool
      BY <2>5 DEF CallOf
    <3>2. CASE q # p /\ s # p
      BY <3>1, <3>2, <1>7, <2>5 DEF CallsApart, CallOf
    <3>3. CASE q = p \/ s = p
      BY <3>1, <3>3, <1>3, <1>7, <2>2, <2>5
    <3> QED BY <3>2, <3>3
  <2> QED BY <1>4, <2>3, <2>4, <2>5 DEF CallsApart
<1>14. Granted' = Granted /\ HeldNow' = HeldNow /\ Spent' = Spent
  BY <1>4, <1>11 DEF Granted, HeldNow, Spent, LicenceOf
<1>15. UsedOnce'
  BY <1>4, <1>11, <1>14 DEF UsedOnce, LicenceOf
<1>16. ASSUME NEW l \in Licences, Founded(l) PROVE Founded(l)'
  <2>1. CASE l[3] = 0
    <3>1. PICK j \in SourceKeys : Belongs(j, l[2]) /\ CallBegun(j, l[1])
            /\ \A q \in Processes : runner[q].pc = "gate" /\ runner[q].tool = l[1] => runner[q].key # j
      BY <2>1, <1>16 DEF Founded, FromCall
    <3>2. l[1] \in GatedTools
      BY DEF Licences, Granted, HeldNow, Spent, Licence, LicenceOf, Holding, ConvTypeOK, GrantRows, Begun
    <3>3. CallBegun(j, l[1])' /\ Belongs(j, l[2])'
      BY <3>1, <3>2, <1>5, <1>8
    <3>4. ~(j = k /\ l[1] = t)
      BY <3>1, <1>4
    <3>5. \A q \in Processes : runner'[q].pc = "gate" /\ runner'[q].tool = l[1] => runner'[q].key # j
      BY <3>1, <3>4, <1>3, <1>7
    <3> QED BY <2>1, <3>3, <3>5 DEF Founded, FromCall
  <2>2. CASE l[3] # 0
    BY <2>2, <1>4, <1>16 DEF Founded, FromConsent
  <2> QED BY <2>1, <2>2
<1>17. LicencesFounded'
  BY <1>14, <1>16 DEF LicencesFounded, Licences
<1> QED BY <1>6, <1>9, <1>10, <1>12, <1>13, <1>15, <1>17

\* A process moves within a call it has begun: what does not depend on its licence stays.
LEMMA WithinCall ==
  ASSUME ConvInv, NEW p \in Processes, NEW r \in RunnerStates,
         runner' = [runner EXCEPT ![p] = r],
         runner[p].pc \in Begun, r.pc \in {"effect", "ack", "nack"},
         r.key = runner[p].key, r.message = runner[p].message, r.tool = runner[p].tool,
         grants' \subseteq GrantRows,
         UNCHANGED <<turn, toolCall, messages, engineRuns, consents>>
  PROVE  /\ executed' = executed => ConvTypeOK' /\ CallsApart'
         /\ AgentRunsOncePerAttempt' /\ MessagesKnown' /\ MessagesApart'
         /\ \A q \in Processes : ActsForTurn(runner[q])'
         /\ runner[p].key \in SourceKeys /\ runner[p].tool \in GatedTools
         /\ runner'[p] = r /\ \A q \in Processes : q # p => runner'[q] = runner[q]
         /\ \A j, m : Belongs(j, m)' <=> Belongs(j, m)
         /\ \A l \in Licences : Founded(l)'
<1> USE DEF ConvInv
<1>1. runner[p].key \in SourceKeys /\ runner[p].tool \in GatedTools /\ runner \in [Processes -> RunnerStates]
  BY DEF ConvTypeOK, Begun
<1>2. executed' = executed => ConvTypeOK'
  BY <1>1, TypedStep DEF ConvTypeOK
<1>3. runner'[p] = r /\ \A q \in Processes : q # p => runner'[q] = runner[q]
  BY <1>1
<1>4. \A j, m : Belongs(j, m)' <=> Belongs(j, m)
  BY DEF Belongs, Begins
<1>5. AgentRunsOncePerAttempt' /\ MessagesKnown' /\ MessagesApart'
  BY <1>4 DEF AgentRunsOncePerAttempt, MessagesKnown, MessagesApart, Known
<1>6. \A q \in Processes : ActsForTurn(runner[q])'
  <2> TAKE q \in Processes
  <2>1. CASE q = p
    BY <2>1, <1>3, <1>4 DEF ActsForTurn, Acting, Begun
  <2>2. CASE q # p
    BY <2>2, <1>3, <1>4 DEF ActsForTurn, Acting
  <2> QED BY <2>1, <2>2
<1>7. executed' = executed => CallsApart'
  <2>1. \A q \in Processes : runner'[q].pc \in Begun =>
          runner[q].pc \in Begun /\ runner'[q].key = runner[q].key /\ runner'[q].tool = runner[q].tool
    BY <1>3
  <2> QED BY <2>1 DEF CallsApart, CallOf, CallBegun
<1>8. ASSUME NEW l \in Licences PROVE Founded(l)'
  <2>0. Founded(l)
    BY DEF LicencesFounded
  <2>1. CASE l[3] = 0
    <3>1. PICK j \in SourceKeys : Belongs(j, l[2]) /\ CallBegun(j, l[1])
            /\ \A q \in Processes : runner[q].pc = "gate" /\ runner[q].tool = l[1] => runner[q].key # j
      BY <2>0, <2>1 DEF Founded, FromCall
    <3>2. \A q \in Processes : runner'[q].pc = "gate" => runner'[q] = runner[q]
      BY <1>3
    <3> QED BY <2>1, <3>1, <3>2, <1>4 DEF Founded, FromCall, CallBegun
  <2>2. CASE l[3] # 0
    BY <2>0, <2>2 DEF Founded, FromConsent
  <2> QED BY <2>1, <2>2
<1> QED BY <1>1, <1>2, <1>3, <1>4, <1>5, <1>6, <1>7, <1>8

LEMMA ConsumeSound ==
  ASSUME ConvInv, NEW p \in Processes, ConsumeGrant(p) PROVE ConvInv'
<1> USE DEF ConvInv
<1>1. PICK g \in grants :
        /\ Matches(g, p)
        /\ grants' = grants \ {g}
        /\ runner' = [runner EXCEPT ![p].pc = "effect", ![p].requested = g.requested, ![p].used = g.consent]
  BY DEF ConsumeGrant
<1> DEFINE r == [runner[p] EXCEPT !.pc = "effect", !.requested = g.requested, !.used = g.consent]
           l == Licence(g.tool, g.requested, g.consent)
<1>0. /\ runner \in [Processes -> RunnerStates] /\ runner[p] \in RunnerStates
      /\ grants \subseteq GrantRows
  BY DEF ConvTypeOK
<1>2. g \in GrantRows /\ g.requested \in Nat /\ g.consent \in Nat
  BY <1>0 DEF GrantRows
<1>3. r \in RunnerStates
  BY <1>0, <1>2 DEF RunnerStates, RunnerSteps, Acting
<1>4. /\ r.pc = "effect" /\ r.key = runner[p].key /\ r.message = runner[p].message
      /\ r.tool = runner[p].tool /\ r.requested = g.requested /\ r.used = g.consent
  BY <1>0 DEF RunnerStates
<1>5. runner' = [runner EXCEPT ![p] = r]
  BY <1>0, <1>1
<1> HIDE DEF r
<1>6. /\ g.tool = r.tool /\ r.requested < r.message /\ r.used \in {0, r.message}
      /\ runner[p].pc = "gate"
  BY <1>1, <1>4 DEF Matches, ConsumeGrant
<1>7. UNCHANGED <<turn, toolCall, messages, engineRuns, executed, consents>>
  BY DEF ConsumeGrant
<1>8. /\ ConvTypeOK' /\ CallsApart' /\ AgentRunsOncePerAttempt' /\ MessagesKnown' /\ MessagesApart'
      /\ \A q \in Processes : ActsForTurn(runner[q])'
      /\ runner'[p] = r /\ \A q \in Processes : q # p => runner'[q] = runner[q]
      /\ \A m \in Licences : Founded(m)'
  <2>1. grants' \subseteq GrantRows
    BY <1>0, <1>1
  <2> QED BY <2>1, <1>3, <1>4, <1>5, <1>6, <1>7, WithinCall DEF Begun
<1>9. p \notin Holding /\ Holding' = Holding \cup {p} /\ \A q \in Holding : runner'[q] = runner[q]
  BY <1>4, <1>6, <1>8 DEF Holding
<1>10. LicenceOf(r) = l
  BY <1>4, <1>6 DEF LicenceOf
<1>11. HoldersAgree'
  BY <1>6, <1>8, <1>9 DEF HoldersAgree
<1>12. ConsentsStand'
  BY <1>7 DEF ConsentsStand, LaterMessage, ExactConsent
<1>13. l \in Granted /\ Granted' \subseteq Granted /\ l \notin Granted'
  <2>1. ASSUME NEW h \in grants, Licence(h.tool, h.requested, h.consent) = l PROVE h = g
    <3>1. h \in GrantRows /\ h.tool = g.tool /\ h.requested = g.requested /\ h.consent = g.consent
      BY <1>0, <2>1 DEF Licence
    <3> QED BY <1>2, <3>1 DEF GrantRows
  <2> HIDE DEF l
  <2>2. l \in Granted
    BY DEF Granted, l
  <2> QED BY <1>1, <2>1, <2>2 DEF Granted
<1>14. HeldNow' = HeldNow \cup {l} /\ Spent' = Spent
  BY <1>7, <1>8, <1>9, <1>10 DEF HeldNow, Spent
<1> HIDE DEF l
<1>15. UsedOnce'
  <2>1. Granted' \cap HeldNow' = {} /\ Granted' \cap Spent' = {} /\ HeldNow' \cap Spent' = {}
    BY <1>13, <1>14 DEF UsedOnce
  <2>2. ASSUME NEW q \in Holding', NEW s \in Holding', LicenceOf(runner'[q]) = LicenceOf(runner'[s]) PROVE q = s
    <3>1. \A u \in Holding : LicenceOf(runner[u]) \in HeldNow /\ LicenceOf(runner[u]) # l
      BY <1>13 DEF HeldNow, UsedOnce
    <3>2. CASE q # p /\ s # p
      BY <2>2, <3>2, <1>9 DEF UsedOnce
    <3>3. CASE q = p \/ s = p
      BY <2>2, <3>1, <3>3, <1>8, <1>9, <1>10
    <3> QED BY <3>2, <3>3
  <2> QED BY <2>1, <2>2, <1>7 DEF UsedOnce
<1>16. LicencesFounded'
  BY <1>8, <1>13, <1>14 DEF LicencesFounded, Licences
<1> QED BY <1>8, <1>11, <1>12, <1>15, <1>16

LEMMA RegisterSound ==
  ASSUME ConvInv, NEW p \in Processes, RegisterGrant(p) PROVE ConvInv'
<1> USE DEF ConvInv
<1> DEFINE r == [runner[p] EXCEPT !.pc = "ack"]
           g == [tool |-> runner[p].tool, requested |-> runner[p].message, consent |-> 0]
           l == Licence(runner[p].tool, runner[p].message, 0)
<1>0. /\ runner \in [Processes -> RunnerStates] /\ runner[p] \in RunnerStates
      /\ grants \subseteq GrantRows
  BY DEF ConvTypeOK
<1>1. runner[p].pc = "gate" /\ runner[p].key \in SourceKeys /\ runner[p].tool \in GatedTools
      /\ runner[p].message \in Nat
  BY <1>0 DEF RegisterGrant, ConvTypeOK, Begun, RunnerStates
<1>2. r \in RunnerStates
  BY <1>0 DEF RunnerStates, RunnerSteps, Acting
<1>3. /\ r.pc = "ack" /\ r.key = runner[p].key /\ r.message = runner[p].message
      /\ r.tool = runner[p].tool
  BY <1>0 DEF RunnerStates
<1>4. runner' = [runner EXCEPT ![p] = r]
  BY <1>0 DEF RegisterGrant
<1>5. g \in GrantRows /\ Licence(g.tool, g.requested, g.consent) = l
  BY <1>1 DEF GrantRows, Licence
<1>6. /\ grants' = {h \in grants : h.tool # runner[p].tool} \cup {g}
      /\ UNCHANGED <<turn, toolCall, messages, engineRuns, executed, consents>>
  BY DEF RegisterGrant
<1> HIDE DEF r, g
<1>7. /\ ConvTypeOK' /\ CallsApart' /\ AgentRunsOncePerAttempt' /\ MessagesKnown' /\ MessagesApart'
      /\ \A q \in Processes : ActsForTurn(runner[q])'
      /\ runner'[p] = r /\ \A q \in Processes : q # p => runner'[q] = runner[q]
      /\ \A j, m : Belongs(j, m)' <=> Belongs(j, m)
      /\ \A m \in Licences : Founded(m)'
  <2>1. grants' \subseteq GrantRows
    BY <1>0, <1>5, <1>6
  <2> QED BY <2>1, <1>1, <1>2, <1>3, <1>4, <1>6, WithinCall DEF Begun
<1>8. Holding' = Holding /\ \A q \in Holding : runner'[q] = runner[q]
  BY <1>1, <1>3, <1>7 DEF Holding
<1>9. HoldersAgree' /\ ConsentsStand' /\ HeldNow' = HeldNow /\ Spent' = Spent
  BY <1>6, <1>8 DEF HoldersAgree, ConsentsStand, LaterMessage, ExactConsent, HeldNow, Spent
<1>10. Granted' \subseteq Granted \cup {l}
  BY <1>5, <1>6 DEF Granted
<1>11. l[1] = runner[p].tool /\ l[2] = runner[p].message /\ l[3] = 0
  BY DEF Licence
<1> HIDE DEF l
<1>12. l \notin Licences
  <2> SUFFICES ASSUME l \in Licences PROVE FALSE
    OBVIOUS
  <2>1. PICK j \in SourceKeys : Belongs(j, runner[p].message)
          /\ \A q \in Processes : runner[q].pc = "gate" /\ runner[q].tool = runner[p].tool => runner[q].key # j
    BY <1>11 DEF LicencesFounded, Founded, FromCall
  <2>2. Belongs(runner[p].key, runner[p].message)
    BY <1>1 DEF ActsForTurn, Acting
  <2>3. j = runner[p].key
    BY <1>1, <2>1, <2>2 DEF MessagesApart
  <2> QED BY <1>1, <2>1, <2>3
<1>13. UsedOnce'
  BY <1>6, <1>8, <1>9, <1>10, <1>12 DEF UsedOnce, Licences, LicenceOf
<1>14. ASSUME NEW m, m = l PROVE Founded(m)'
  <2>1. PICK k \in SourceKeys, t \in GatedTools, n \in Nat :
          runner[p].key = k /\ runner[p].tool = t /\ runner[p].message = n
    BY <1>1
  <2>2. m[1] = t /\ m[2] = n /\ m[3] = 0
    BY <1>11, <1>14, <2>1
  <2>3. Belongs(k, n)'
    BY <1>1, <1>7, <2>1 DEF ActsForTurn, Acting
  <2>4. CallBegun(k, t)'
    BY <1>1, <1>6, <2>1 DEF CallsApart, CallBegun, Begun
  <2>5. \A q \in Processes : runner'[q].pc = "gate" /\ runner'[q].tool = t => runner'[q].key # k
    <3> SUFFICES ASSUME NEW q \in Processes, runner'[q].pc = "gate", runner'[q].tool = t, runner'[q].key = k
                 PROVE  FALSE
      OBVIOUS
    <3>1. q # p
      BY <1>3, <1>7
    <3>2. runner[q].pc = "gate" /\ CallOf(runner[q]) = CallOf(runner[p])
      BY <2>1, <3>1, <1>7 DEF CallOf
    <3> QED BY <3>1, <3>2, <1>1 DEF CallsApart, Begun
  <2> QED BY <2>2, <2>3, <2>4, <2>5 DEF Founded, FromCall
<1>15. LicencesFounded'
  BY <1>7, <1>9, <1>10, <1>14 DEF LicencesFounded, Licences
<1> QED BY <1>7, <1>9, <1>13, <1>15

LEMMA ExecuteSound ==
  ASSUME ConvInv, NEW p \in Processes, Execute(p) PROVE ConvInv'
<1> USE DEF ConvInv
<1>1. PICK acted \in BOOLEAN, next \in {"ack", "nack"} :
        /\ executed' = IF acted
                       THEN executed \cup {[key |-> runner[p].key, tool |-> runner[p].tool,
                              message |-> runner[p].message, requested |-> runner[p].requested,
                              consent |-> runner[p].used, nth |-> Cardinality(executed) + 1]}
                       ELSE executed
        /\ runner' = [runner EXCEPT ![p].pc = next]
  BY DEF Execute
<1> DEFINE r == [runner[p] EXCEPT !.pc = next]
           y == [key |-> runner[p].key, tool |-> runner[p].tool,
                 message |-> runner[p].message, requested |-> runner[p].requested,
                 consent |-> runner[p].used, nth |-> Cardinality(executed) + 1]
           l == LicenceOf(runner[p])
<1>0. runner \in [Processes -> RunnerStates] /\ runner[p] \in RunnerStates /\ p \in Holding
  BY DEF ConvTypeOK, Execute, Holding
<1>2. runner[p].pc = "effect" /\ runner[p].key \in SourceKeys /\ runner[p].tool \in GatedTools
  BY <1>0 DEF Holding, ConvTypeOK, Begun
<1>3. r \in RunnerStates
  BY <1>0 DEF RunnerStates, RunnerSteps, Acting
<1>4. /\ r.pc = next /\ r.key = runner[p].key /\ r.message = runner[p].message /\ r.tool = runner[p].tool
  BY <1>0 DEF RunnerStates
<1>5. runner' = [runner EXCEPT ![p] = r]
  BY <1>0, <1>1
<1>6. UNCHANGED <<turn, grants, toolCall, messages, engineRuns, consents>>
  BY DEF Execute
<1>7. /\ y.key = runner[p].key /\ y.tool = runner[p].tool /\ y.message = runner[p].message
      /\ y.requested = runner[p].requested /\ y.consent = runner[p].used
  OBVIOUS
<1>8. executed' = IF acted THEN executed \cup {y} ELSE executed
  BY <1>1
<1> HIDE DEF r, y
<1>9. /\ executed' = executed => ConvTypeOK' /\ CallsApart'
      /\ AgentRunsOncePerAttempt' /\ MessagesKnown' /\ MessagesApart'
      /\ \A q \in Processes : ActsForTurn(runner[q])'
      /\ runner'[p] = r /\ \A q \in Processes : q # p => runner'[q] = runner[q]
      /\ \A m \in Licences : Founded(m)'
  <2>1. grants' \subseteq GrantRows
    BY <1>6 DEF ConvTypeOK
  <2> QED BY <2>1, <1>2, <1>3, <1>4, <1>5, <1>6, WithinCall DEF Begun
<1>10. ConvTypeOK'
  <2>1. \A x \in executed' : x.key \in SourceKeys /\ x.tool \in GatedTools
    BY <1>2, <1>7, <1>8 DEF ConvTypeOK
  <2> QED BY <2>1, <1>2, <1>3, <1>4, <1>5, <1>6, TypedStep DEF ConvTypeOK, Begun
<1>11. Holding' = Holding \ {p} /\ \A q \in Holding' : runner'[q] = runner[q] /\ q # p
  BY <1>4, <1>9 DEF Holding
<1>12. HoldersAgree'
  BY <1>11 DEF HoldersAgree
<1>13. CallsApart'
  <2>1. \A x \in executed' : CallBegun(x.key, x.tool)'
    BY <1>2, <1>6, <1>7, <1>8, ZenonT(60) DEF CallsApart, CallBegun, Begun
  <2>2. \A x \in executed : ~(x.key = y.key /\ x.tool = y.tool)
    BY <1>2, <1>7 DEF CallsApart, Begun
  <2>3. \A u, v \in executed' : u.key = v.key /\ u.tool = v.tool => u = v
    BY <1>8, <2>2 DEF CallsApart
  <2>4. \A q \in Processes : runner'[q].pc \in Begun => q # p /\ runner'[q] = runner[q]
    BY <1>4, <1>9 DEF Begun
  <2>5. ASSUME NEW q \in Processes, runner'[q].pc \in Begun
        PROVE  /\ CallBegun(runner[q].key, runner[q].tool)'
               /\ \A x \in executed' : x.key = runner'[q].key => x.tool # runner'[q].tool
    <3>1. q # p /\ runner'[q] = runner[q] /\ CallBegun(runner[q].key, runner[q].tool)
      BY <2>4, <2>5 DEF CallsApart
    <3>2. CallOf(runner[q]) # CallOf(runner[p])
      BY <3>1, <1>2, <2>5 DEF CallsApart, Begun
    <3>3. ~(y.key = runner[q].key /\ y.tool = runner[q].tool)
      BY <3>2, <1>7 DEF CallOf
    <3> QED BY <3>1, <3>3, <1>6, <1>8, <2>5 DEF CallsApart, CallBegun
  <2> QED BY <2>1, <2>3, <2>4, <2>5 DEF CallsApart
<1>14. Granted' = Granted
  BY <1>6 DEF Granted
<1>15. /\ l \in HeldNow /\ HeldNow' \subseteq HeldNow \ {l}
       /\ Spent' \subseteq Spent \cup {l}
  <2>1. \A q \in Holding' : LicenceOf(runner'[q]) \in HeldNow /\ LicenceOf(runner'[q]) # l
    BY <1>0, <1>11 DEF UsedOnce, HeldNow
  <2>2. Licence(y.tool, y.requested, y.consent) = l
    BY <1>7 DEF LicenceOf
  <2> QED BY <1>0, <1>8, <2>1, <2>2 DEF HeldNow, Spent
<1>16. UsedOnce'
  <2>1. Granted' \cap HeldNow' = {} /\ Granted' \cap Spent' = {} /\ HeldNow' \cap Spent' = {}
    BY <1>14, <1>15 DEF UsedOnce
  <2>2. \A q, s \in Holding' : LicenceOf(runner'[q]) = LicenceOf(runner'[s]) => q = s
    BY <1>11 DEF UsedOnce
  <2>3. Licence(y.tool, y.requested, y.consent) = l
    BY <1>7 DEF LicenceOf
  <2>4. \A x \in executed : Licence(x.tool, x.requested, x.consent) # l
    BY <1>15 DEF UsedOnce, Spent
  <2>5. \A u, v \in executed' :
          Licence(u.tool, u.requested, u.consent) = Licence(v.tool, v.requested, v.consent) => u = v
    BY <1>8, <2>3, <2>4 DEF UsedOnce
  <2> QED BY <2>1, <2>2, <2>5 DEF UsedOnce
<1>17. LicencesFounded'
  BY <1>9, <1>14, <1>15 DEF LicencesFounded, Licences
<1>18. ConsentsStand'
  <2>1. LaterMessage(y)
    BY <1>0, <1>7 DEF LaterMessage, HoldersAgree
  <2>2. ASSUME y.consent # 0
        PROVE  y.consent = y.message /\ \E c \in consents : c.message = y.consent /\ c.key = y.key /\ y.tool \in c.allowed
    <3>1. y.consent = y.message
      BY <1>0, <1>7, <2>2 DEF HoldersAgree
    <3>2. l \in Licences /\ l[1] = y.tool /\ l[3] = y.consent
      BY <1>7, <1>15 DEF Licences, LicenceOf, Licence
    <3>3. PICK c \in consents : c.message = y.consent /\ y.tool \in c.allowed
      BY <2>2, <3>2 DEF LicencesFounded, Founded, FromConsent
    <3>4. Belongs(c.key, y.message) /\ c.key \in SourceKeys /\ y.message \in Nat
      BY <3>1, <3>3 DEF Belongs, ConvTypeOK
    <3>5. Belongs(y.key, y.message) /\ y.key \in SourceKeys
      BY <1>2, <1>7 DEF ActsForTurn, Acting
    <3>6. c.key = y.key
      BY <3>4, <3>5 DEF MessagesApart
    <3> QED BY <3>1, <3>3, <3>6
  <2>3. \A x \in executed' : LaterMessage(x) /\ ExactConsent(x)
    BY <1>8, <2>1, <2>2 DEF ConsentsStand, ExactConsent
  <2> QED BY <2>3, <1>6 DEF ConsentsStand, LaterMessage, ExactConsent
<1> QED BY <1>9, <1>10, <1>12, <1>13, <1>16, <1>17, <1>18

LEMMA ConvStep == ConvInv /\ ApprovalsTyped /\ [ConvNext]_convVars => ConvInv' /\ ApprovalsTyped'
<1> SUFFICES ASSUME ConvInv, ApprovalsTyped, [ConvNext]_convVars PROVE ConvInv' /\ ApprovalsTyped'
  OBVIOUS
<1>1. CASE UNCHANGED convVars
  <2>1. turn \in [SourceKeys -> TurnRows]
    BY DEF ConvInv, ConvTypeOK
  <2> QED BY <1>1, <2>1, OutsideKeeps DEF convVars, ApprovalsTyped
<1>2. CASE ConvNext
  <2>1. ASSUME NEW p \in Processes, NEW k \in SourceKeys, BeginTurn(p, k) \/ ReplayTurn(p, k) PROVE ConvInv'
    BY <2>1, BeginSound, ReplaySound
  <2>2. ASSUME NEW p \in Processes, NEW t \in GatedTools, BeginCall(p, t) PROVE ConvInv'
    BY <2>2, CallSound
  <2>3. ASSUME NEW p \in Processes,
               ConsumeGrant(p) \/ RegisterGrant(p) \/ GateFails(p) \/ Execute(p) \/ SettleCall(p)
        PROVE  ConvInv'
    BY <2>3, ConsumeSound, RegisterSound, MovesSound, ExecuteSound, SettleSound
  <2>4. ASSUME NEW p \in Processes,
               Publish(p) \/ GiveUp(p) \/ FailAttempt(p) \/ RevokeGrants(p) \/ DeliverReply(p) \/ Restart(p)
        PROVE  ConvInv'
    BY <2>4, MovesSound, CloseSound
  <2>5. ASSUME NEW p \in Processes, NEW wanted \in SUBSET GatedTools, Pause(p, wanted) PROVE ConvInv'
    BY <2>5, MovesSound
  <2>6. ASSUME NEW p \in Processes, NEW k \in SourceKeys, NEW allow \in SUBSET GatedTools,
               NEW refuse \in SUBSET GatedTools, DecidePart(p, k, allow, refuse) \/ DecideAll(p, k, allow, refuse)
        PROVE  ConvInv'
    BY <2>6, OutsideSound, ConsentSound
  <2>7. ASSUME (\E k \in SourceKeys : CloseExpired(k)) \/ \E g \in grants : GrantExpires(g) PROVE ConvInv'
    BY <2>7, OutsideSound
  <2>8. ConvInv'
    BY <1>2, <2>1, <2>2, <2>3, <2>4, <2>5, <2>6, <2>7 DEF ConvNext
  <2> QED BY <1>2, <2>8, ApprovalsStep
<1> QED BY <1>1, <1>2

\* A turn starts its agent once for each attempt it was granted, a gated call runs on
\* a confirmation that came later or on the user's consent to this very execution, one
\* licence serves once, and a call has its effect once: whatever is repeated, restarted or
\* decided late (BeginConversationTurn, withApproval, withInvocationIdempotency).
THEOREM TurnsSafe == ConvSpec => []TurnsAreSafe
<1>1. ConvInit => ConvInv /\ ApprovalsTyped
  BY ConvInitial DEF ConvInit, ApprovalsTyped, ApprovalRows, NoApproval
<1>2. ConvInv => TurnsAreSafe
  <2> SUFFICES ASSUME ConvInv PROVE TurnsAreSafe
    OBVIOUS
  <2>1. CallsRunOnce
    BY DEF ConvInv, CallsApart, CallsRunOnce
  <2>2. \A x, y \in executed :
          x.tool = y.tool /\ x.requested = y.requested /\ x.consent = y.consent => x = y
    BY DEF ConvInv, UsedOnce, Licence
  <2> QED BY <2>1, <2>2 DEF TurnsAreSafe, ActionsHaveConsent, ConvInv, ConsentsStand
<1> QED BY <1>1, <1>2, ConvStep, PTL DEF ConvSpec

\* A turn that is completed or failed stays so: an execution that was overtaken or given
\* up for lost neither publishes nor reopens it (CompleteConversationTurn,
\* FailConversationTurnAttempt, FailStaleConversationTurns).
THEOREM EndedTurnsStand == ConvSpec => EndedTurnsStayEnded
<1> DEFINE Stands == \A k \in SourceKeys :
                       turn[k].status \in {"completed", "failed"} => turn'[k].status = turn[k].status
<1>1. ConvInit => ConvInv /\ ApprovalsTyped
  BY ConvInitial DEF ConvInit, ApprovalsTyped, ApprovalRows, NoApproval
<1>2. ConvInv /\ [ConvNext]_convVars => [Stands]_convVars
  <2> SUFFICES ASSUME ConvInv, ConvNext PROVE Stands
    BY DEF Stands
  <2>0. turn \in [SourceKeys -> TurnRows]
    BY DEF ConvInv, ConvTypeOK
  <2>1. ASSUME NEW p \in Processes, NEW k \in SourceKeys, BeginTurn(p, k) PROVE Stands
    BY <2>0, <2>1 DEF BeginTurn, Claims
  <2>2. ASSUME NEW p \in Processes, Publish(p) PROVE Stands
    BY <2>0, <2>2 DEF Publish, OwnsAttempt, TurnRows
  <2>3. ASSUME NEW p \in Processes, FailAttempt(p) PROVE Stands
    BY <2>0, <2>3 DEF FailAttempt, OwnsAttempt, TurnRows
  <2>4. ASSUME NEW p \in Processes, DeliverReply(p) PROVE Stands
    BY <2>0, <2>4 DEF DeliverReply, TurnRows
  <2>5. ASSUME NEW p \in Processes, Restart(p) PROVE Stands
    BY <2>0, <2>5 DEF Restart, TurnRows
  <2>6. ASSUME NEW p \in Processes, NEW wanted \in SUBSET GatedTools, Pause(p, wanted) PROVE Stands
    BY <2>0, <2>6 DEF Pause, OwnsAttempt, TurnRows
  <2>7. ASSUME NEW p \in Processes, NEW k \in SourceKeys, NEW allow \in SUBSET GatedTools,
               NEW refuse \in SUBSET GatedTools, DecideAll(p, k, allow, refuse)
        PROVE  Stands
    BY <2>0, <2>7 DEF DecideAll, Decidable, PendingFor, TurnRows
  <2>8. ASSUME NEW k \in SourceKeys, CloseExpired(k) PROVE Stands
    BY <2>0, <2>8 DEF CloseExpired, PendingFor, TurnRows
  <2>9. ASSUME UNCHANGED turn PROVE Stands
    BY <2>9
  <2> HIDE DEF Stands
  <2> QED
    BY <2>1, <2>2, <2>3, <2>4, <2>5, <2>6, <2>7, <2>8, <2>9
    DEF ConvNext, ReplayTurn, BeginCall, ConsumeGrant, RegisterGrant, GateFails, Execute, SettleCall, GiveUp,
        RevokeGrants, DecidePart, GrantExpires
<1> QED BY <1>1, <1>2, ConvStep, PTL DEF ConvSpec, EndedTurnsStayEnded

--------------------------------------------------------------------------------
(* Streamed replies: once the handler says the reply is delivered, every part of   *)
(* it stands on the screen exactly once, whatever the editor's loop was doing when  *)
(* the handler stopped it and wherever the process was restarted.                   *)


\* Where the editor's loop may still run, and where the handler is at the parts.
Speaking == {"turn", "stop", "stopping"}
AtParts  == {"begin", "edit", "send", "mark", "unsent"}
IsPart(text) == \E i \in PartNos : text = PartText(i)

\* The loop is over before the handler touches the draft.
LoopIsOver ==
  /\ handler.at \notin Speaking => editor.loop \in {"none", "done"}
  /\ handler.at \in Speaking => handler.part = 1

\* As long as the draft may be edited or deleted it is no part of the reply.
DraftIsNoPart ==
  /\ HasDraft /\ \/ handler.at \in Speaking \cup {"apologise", "edit"}
                 \/ handler.at = "begin" /\ handler.part = 1
     => ~IsPart(display[editor.msg])
  /\ handler.at = "edit" => HasDraft

\* The messages show the parts that were seen, each one once.
PartsOnScreen ==
  /\ \A m \in MessageNos, i \in PartNos : display[m] = PartText(i) => i \in seen
  /\ \A i \in seen : \E m \in MessageNos : display[m] = PartText(i)
  /\ \A m, o \in MessageNos : IsPart(display[m]) /\ display[m] = display[o] => m = o

\* A part is begun in the ledger before it is seen; the handler is behind the parts that
\* were seen, and ends without trouble behind all of them.
LedgerLeads ==
  /\ \A i \in seen : receipts[i] # "none"
  /\ handler.at \in {"edit", "send"} => handler.part \notin seen /\ receipts[handler.part] # "none"
  /\ handler.at = "mark" => handler.part \in seen
  /\ handler.at \in AtParts => \A i \in PartNos : i < handler.part => i \in seen
  /\ handler.at = "record" /\ ~handler.trouble => seen = PartNos

ReplyInv == StreamTypeOK /\ LoopIsOver /\ DraftIsNoPart /\ PartsOnScreen /\ LedgerLeads /\ NoHoles /\ DeliveredIsSeen

LEMMA ReplyInitial == StreamInit => ReplyInv
<1> SUFFICES ASSUME StreamInit PROVE ReplyInv
  OBVIOUS
<1> USE StreamAssumption DEF StreamInit, NoEditor
<1>1. StreamTypeOK
  BY DEF StreamTypeOK, MessageNos, PartNos
<1>2. LoopIsOver /\ DraftIsNoPart /\ LedgerLeads /\ NoHoles /\ DeliveredIsSeen
  BY DEF LoopIsOver, DraftIsNoPart, LedgerLeads, NoHoles, DeliveredIsSeen, HasDraft, Speaking, AtParts
<1>3. PartsOnScreen
  BY DEF PartsOnScreen, IsPart, Other, PartText
<1> QED BY <1>1, <1>2, <1>3 DEF ReplyInv

\* The rows of the reply.
Answers  == [status : {"absent", "running", "completed", "failed"}, delivery : {"pending", "delivered", "failed"}]
Editors  == [loop : {"none", "idle", "flushing", "done"}, buf : 0..Drafts, cur : 0..Drafts,
             sent : 0..Drafts, msg : 0..MaxMessages, stopped : BOOLEAN]
Handlers == [at : {"none", "turn", "stop", "stopping", "begin", "edit", "send", "mark",
                   "unsent", "apologise", "record"},
             plan : {"finish", "discard", "fail"}, part : PartNos, trouble : BOOLEAN, times : 0..MaxHandlings]
Texts    == {Other(x) : x \in {"none", "draft", "error", "deleted"}} \cup {PartText(i) : i \in PartNos}

\* A step that neither shows a part nor moves the ledger.
LEMMA NothingShown ==
  ASSUME ReplyInv, StreamTypeOK', UNCHANGED <<receipts, seen>>,
         \A m \in MessageNos : display'[m] = display[m] \/ (~IsPart(display[m]) /\ ~IsPart(display'[m])),
         LoopIsOver', DraftIsNoPart',
         answer'.delivery = "delivered" => answer.delivery = "delivered" \/ (handler.at = "record" /\ ~handler.trouble),
         \/ handler'.at \notin AtParts \cup {"record"}
         \/ handler'.at = handler.at /\ handler'.part = handler.part /\ handler'.trouble = handler.trouble
         \/ handler'.at = "begin" /\ handler'.part = 1
         \/ handler'.at = "record" /\ handler'.trouble
  PROVE  ReplyInv'
<1>1. PartsOnScreen'
  <2>1. \A m \in MessageNos, i \in PartNos : display'[m] = PartText(i) <=> display[m] = PartText(i)
    BY DEF IsPart
  <2>2. \A m \in MessageNos : IsPart(display'[m]) <=> IsPart(display[m])
    BY DEF IsPart
  <2>3. \A i \in seen : i \in PartNos
    BY DEF ReplyInv, StreamTypeOK
  <2>4. \A m, o \in MessageNos : IsPart(display'[m]) /\ display'[m] = display'[o] => m = o
    <3>1. \A m \in MessageNos : IsPart(display'[m]) => display'[m] = display[m]
      BY <2>2
    <3>2. \A m, o \in MessageNos : IsPart(display'[m]) /\ display'[m] = display'[o] => IsPart(display'[o])
      BY DEF IsPart
    <3> QED BY <2>2, <3>1, <3>2 DEF ReplyInv, PartsOnScreen
  <2> QED BY <2>1, <2>3, <2>4 DEF ReplyInv, PartsOnScreen, IsPart
<1>2. LedgerLeads'
  <2>1. \A i \in seen' : receipts'[i] # "none"
    BY DEF ReplyInv, LedgerLeads
  <2>2. CASE handler'.at \notin AtParts \cup {"record"}
    BY <2>1, <2>2 DEF LedgerLeads, AtParts
  <2>3. CASE handler'.at = handler.at /\ handler'.part = handler.part /\ handler'.trouble = handler.trouble
    BY <2>1, <2>3 DEF ReplyInv, LedgerLeads
  <2>4. CASE handler'.at = "begin" /\ handler'.part = 1
    <3>1. \A i \in PartNos : ~(i < 1)
      BY StreamAssumption DEF PartNos
    <3> QED BY <2>1, <2>4, <3>1 DEF LedgerLeads
  <2>5. CASE handler'.at = "record" /\ handler'.trouble
    BY <2>1, <2>5 DEF LedgerLeads, AtParts
  <2> QED BY <2>2, <2>3, <2>4, <2>5
<1>3. NoHoles' /\ DeliveredIsSeen'
  BY DEF ReplyInv, NoHoles, DeliveredIsSeen, LedgerLeads
<1> QED BY <1>1, <1>2, <1>3 DEF ReplyInv


LEMMA StreamTypes ==
  /\ StreamTypeOK <=> /\ display \in [MessageNos -> Texts] /\ answer \in Answers
                      /\ receipts \in [PartNos -> {"none", "started", "delivered", "failed"}]
                      /\ editor \in Editors /\ handler \in Handlers /\ seen \subseteq PartNos
  /\ \A x \in {"none", "draft", "error", "deleted"} : Other(x) \in Texts /\ ~IsPart(Other(x))
  /\ \A i \in PartNos : PartText(i) \in Texts /\ IsPart(PartText(i))
  /\ \A i, j \in PartNos : PartText(i) = PartText(j) => i = j
<1>1. \A x \in {"none", "draft", "error", "deleted"} : Other(x) \in Texts /\ ~IsPart(Other(x))
  BY DEF Texts, IsPart, Other, PartText
<1>2. \A i \in PartNos : PartText(i) \in Texts /\ IsPart(PartText(i))
  BY DEF Texts, IsPart
<1>3. \A i, j \in PartNos : PartText(i) = PartText(j) => i = j
  BY DEF PartText
<1>4. StreamTypeOK <=> /\ display \in [MessageNos -> Texts] /\ answer \in Answers
                       /\ receipts \in [PartNos -> {"none", "started", "delivered", "failed"}]
                       /\ editor \in Editors /\ handler \in Handlers /\ seen \subseteq PartNos
  BY DEF StreamTypeOK, Texts, Answers, Editors, Handlers
<1> QED BY <1>1, <1>2, <1>3, <1>4

\* What the handler's place says about the loop and the draft.
LEMMA PlacesKnown ==
  ASSUME ReplyInv
  PROVE  /\ display \in [MessageNos -> Texts] /\ answer \in Answers /\ editor \in Editors /\ handler \in Handlers
         /\ receipts \in [PartNos -> {"none", "started", "delivered", "failed"}] /\ seen \subseteq PartNos
         /\ handler.part \in PartNos /\ editor.msg \in 0..MaxMessages
         /\ HasDraft => editor.msg \in MessageNos
<1>1. /\ display \in [MessageNos -> Texts] /\ answer \in Answers /\ editor \in Editors /\ handler \in Handlers
      /\ receipts \in [PartNos -> {"none", "started", "delivered", "failed"}] /\ seen \subseteq PartNos
  BY StreamTypes DEF ReplyInv
<1>2. handler.part \in PartNos /\ editor.msg \in 0..MaxMessages
  BY <1>1 DEF Handlers, Editors
<1> QED BY <1>1, <1>2, StreamAssumption DEF HasDraft, MessageNos

LEMMA NoEditorIsOne == /\ NoEditor \in Editors /\ [NoEditor EXCEPT !.loop = "idle"] \in Editors
                       /\ NoEditor.msg = 0 /\ NoEditor.loop = "none"
                       /\ [NoEditor EXCEPT !.loop = "idle"].msg = 0
<1>1. 0 \in 0..Drafts /\ 0 \in 0..MaxMessages
  BY StreamAssumption
<1> QED BY <1>1 DEF NoEditor, Editors

LEMMA HandlePrivateKeeps == ReplyInv /\ HandlePrivate => ReplyInv'
<1> SUFFICES ASSUME ReplyInv, HandlePrivate PROVE ReplyInv'
  OBVIOUS
<1>1. UNCHANGED <<display, receipts, seen>> /\ editor' \in Editors /\ editor'.msg = 0
  BY NoEditorIsOne DEF HandlePrivate
<1> DEFINE n == handler.times + 1
<1>2. n \in 0..MaxHandlings /\ 1 \in PartNos
  BY PlacesKnown, StreamAssumption DEF HandlePrivate, Handlers, PartNos
<1>a. \/ /\ answer' = [answer EXCEPT !.status = "running"]
         /\ handler' = [at |-> "turn", plan |-> "finish", part |-> 1, trouble |-> FALSE, times |-> n]
      \/ /\ handler' = [at |-> "stop", plan |-> PlanFor(answer), part |-> 1, trouble |-> FALSE, times |-> n]
         /\ answer' = answer
  BY DEF HandlePrivate
<1> HIDE DEF n
<1>b. PlanFor(answer) \in {"finish", "discard"}
  BY DEF PlanFor
<1>3. /\ handler' \in Handlers /\ handler'.at \in Speaking /\ handler'.part = 1
      /\ answer' \in Answers /\ answer'.delivery = answer.delivery
  <2>1. answer' \in Answers /\ answer'.delivery = answer.delivery
    BY <1>a, PlacesKnown DEF Answers
  <2>2. handler' \in Handlers /\ handler'.at \in Speaking /\ handler'.part = 1
    <3>1. PICK x \in {"turn", "stop"}, p \in {"finish", "discard"} :
            handler' = [at |-> x, plan |-> p, part |-> 1, trouble |-> FALSE, times |-> n]
      BY <1>a, <1>b
    <3> QED BY <1>2, <3>1 DEF Handlers, Speaking
  <2> QED BY <2>1, <2>2
<1>4. StreamTypeOK'
  BY <1>1, <1>3, PlacesKnown, StreamTypes DEF StreamTypeOK, Texts, Answers, Editors, Handlers
<1>5. LoopIsOver' /\ DraftIsNoPart'
  BY <1>1, <1>3 DEF LoopIsOver, DraftIsNoPart, HasDraft, Speaking
<1>6. handler'.at \notin AtParts \cup {"record"}
  BY <1>3 DEF Speaking, AtParts
<1> QED BY <1>1, <1>3, <1>4, <1>5, <1>6, NothingShown

LEMMA OnDeltaKeeps == ASSUME NEW d \in 1..Drafts, ReplyInv, OnDelta(d) PROVE ReplyInv'
<1>1. UNCHANGED <<display, answer, receipts, handler, seen>> /\ editor' = [editor EXCEPT !.buf = d]
  BY DEF OnDelta
<1>2. editor' \in Editors /\ editor'.loop = editor.loop /\ editor'.msg = editor.msg
  BY <1>1, PlacesKnown, StreamAssumption DEF Editors
<1>3. StreamTypeOK'
  BY <1>1, <1>2, PlacesKnown DEF StreamTypeOK, Texts, Answers, Editors, Handlers
<1>4. LoopIsOver' /\ DraftIsNoPart'
  BY <1>1, <1>2 DEF ReplyInv, LoopIsOver, DraftIsNoPart, HasDraft
<1> QED BY <1>1, <1>3, <1>4, NothingShown

LEMMA TurnReturnsKeeps == ASSUME NEW status \in {"completed", "failed"}, ReplyInv, TurnReturns(status) PROVE ReplyInv'
<1>1. UNCHANGED <<display, receipts, editor, seen>> /\ handler.at = "turn"
  BY DEF TurnReturns, HandlerAt
<1>2. /\ handler' \in Handlers /\ handler'.at = "stop" /\ handler'.part = handler.part
      /\ answer' \in Answers /\ answer'.delivery = answer.delivery
  BY PlacesKnown DEF TurnReturns, Handlers, Answers
<1>3. StreamTypeOK'
  BY <1>1, <1>2, PlacesKnown DEF StreamTypeOK, Texts, Answers, Editors, Handlers
<1>4. LoopIsOver' /\ DraftIsNoPart'
  BY <1>1, <1>2 DEF ReplyInv, LoopIsOver, DraftIsNoPart, HasDraft, Speaking
<1>5. handler'.at \notin AtParts \cup {"record"}
  BY <1>2 DEF AtParts
<1> QED BY <1>1, <1>2, <1>3, <1>4, <1>5, NothingShown

\* The loop runs only while the handler has not stopped it.
LEMMA LoopSpeaks == ASSUME ReplyInv, editor.loop \in {"idle", "flushing"} PROVE handler.at \in Speaking
BY DEF ReplyInv, LoopIsOver

LEMMA LoopStepKeeps == ASSUME ReplyInv, FlushReads \/ LoopEnds PROVE ReplyInv'
<1>1. UNCHANGED <<display, answer, receipts, handler, seen>> /\ editor.loop = "idle"
  BY DEF FlushReads, LoopEnds
<1>2. editor' \in Editors /\ editor'.msg = editor.msg
  <2>1. CASE FlushReads
    BY <2>1, PlacesKnown DEF FlushReads, Editors
  <2>2. CASE LoopEnds
    BY <2>2, PlacesKnown DEF LoopEnds, Editors
  <2> QED BY <2>1, <2>2
<1>3. handler.at \in Speaking
  BY <1>1, LoopSpeaks
<1>4. StreamTypeOK'
  BY <1>1, <1>2, PlacesKnown DEF StreamTypeOK, Texts, Answers, Editors, Handlers
<1>5. LoopIsOver' /\ DraftIsNoPart'
  BY <1>1, <1>2, <1>3 DEF ReplyInv, LoopIsOver, DraftIsNoPart, HasDraft
<1> QED BY <1>1, <1>4, <1>5, NothingShown

\* A message that is shown something other than a part.
LEMMA ShownOther ==
  ASSUME ReplyInv, NEW m \in MessageNos, NEW x \in {"none", "draft", "error", "deleted"}, ~IsPart(display[m]),
         display' = [display EXCEPT ![m] = Other(x)] \/ display' = display
  PROVE  /\ display' \in [MessageNos -> Texts]
         /\ \A o \in MessageNos : display'[o] = display[o] \/ (~IsPart(display[o]) /\ ~IsPart(display'[o]))
         /\ ~IsPart(display'[m])
<1>1. Other(x) \in Texts /\ ~IsPart(Other(x))
  BY StreamTypes
<1> QED BY <1>1, PlacesKnown

LEMMA FlushKeeps ==
  ASSUME ReplyInv, NEW m \in MessageNos, NEW result \in Results, FlushSends(m, result) \/ FlushEdits(result)
  PROVE  ReplyInv'
<1>1. UNCHANGED <<answer, receipts, handler, seen>> /\ editor.loop = "flushing"
  BY DEF FlushSends, FlushEdits
<1>2. handler.at \in Speaking
  BY <1>1, LoopSpeaks
<1>3. PICK o \in MessageNos : /\ ~IsPart(display[o])
                              /\ display' = [display EXCEPT ![o] = Other("draft")] \/ display' = display
                              /\ editor'.msg \in {editor.msg, o} /\ editor' \in Editors
                              /\ HasDraft => o = editor.msg
  <2>1. CASE FlushSends(m, result)
    <3>1. display[m] = Other("none") /\ ~HasDraft
      BY <2>1 DEF FlushSends, NextMessage
    <3>2. editor' \in Editors /\ editor'.msg \in {editor.msg, m}
      <4>1. m \in 0..MaxMessages
        BY StreamAssumption DEF MessageNos
      <4>2. editor' = [editor EXCEPT !.loop = "idle", !.msg = m, !.sent = editor.cur]
            \/ editor' = [editor EXCEPT !.loop = "idle"]
        BY <2>1 DEF FlushSends
      <4> QED BY <4>1, <4>2, PlacesKnown DEF Editors
    <3> QED BY <2>1, <3>1, <3>2, StreamTypes DEF FlushSends, Shows
  <2>2. CASE FlushEdits(result)
    <3>1. HasDraft /\ editor.msg \in MessageNos
      BY <2>2, PlacesKnown DEF FlushEdits
    <3>2. ~IsPart(display[editor.msg])
      BY <1>2, <3>1 DEF ReplyInv, DraftIsNoPart
    <3>3. editor' \in Editors /\ editor'.msg = editor.msg
      <4>1. editor' = [editor EXCEPT !.loop = "idle", !.sent = editor.cur] \/ editor' = [editor EXCEPT !.loop = "idle", !.sent = editor.sent]
        BY <2>2 DEF FlushEdits
      <4> QED BY <4>1, PlacesKnown DEF Editors
    <3> QED BY <2>2, <3>1, <3>2, <3>3 DEF FlushEdits, Shows
  <2> QED BY <2>1, <2>2
<1>4. /\ display' \in [MessageNos -> Texts]
      /\ \A n \in MessageNos : display'[n] = display[n] \/ (~IsPart(display[n]) /\ ~IsPart(display'[n]))
      /\ ~IsPart(display'[o])
  BY <1>3, ShownOther
<1>5. StreamTypeOK'
  BY <1>1, <1>3, <1>4, PlacesKnown DEF StreamTypeOK, Texts, Answers, Editors, Handlers
<1>6. LoopIsOver'
  BY <1>1, <1>2 DEF ReplyInv, LoopIsOver
<1>7. DraftIsNoPart'
  <2>1. HasDraft' => editor'.msg = o
    BY <1>3 DEF HasDraft
  <2>2. handler'.at # "edit"
    BY <1>1, <1>2 DEF Speaking
  <2> QED BY <1>4, <2>1, <2>2 DEF DraftIsNoPart
<1> QED BY <1>1, <1>4, <1>5, <1>6, <1>7, NothingShown


\* The handler goes on to a place.
LEMMA GoesOn ==
  ASSUME ReplyInv, NEW x \in {"none", "stopping", "begin", "edit", "send", "mark", "unsent", "apologise"}, ReplyGoes(x)
  PROVE  handler' \in Handlers /\ handler'.at = x /\ handler'.part = handler.part /\ handler'.trouble = handler.trouble
BY PlacesKnown DEF ReplyGoes, Handlers

LEMMA StopLoopKeeps == ReplyInv /\ StopLoop => ReplyInv'
<1> SUFFICES ASSUME ReplyInv, StopLoop PROVE ReplyInv'
  OBVIOUS
<1>1. UNCHANGED <<display, answer, receipts, seen>> /\ handler.at = "stop" /\ ReplyGoes("stopping")
  BY DEF StopLoop, HandlerAt
<1>2. handler' \in Handlers /\ handler'.at = "stopping" /\ handler'.part = handler.part
  BY <1>1, GoesOn
<1>3. editor' \in Editors /\ editor'.loop = editor.loop /\ editor'.msg = editor.msg
  BY PlacesKnown DEF StopLoop, Editors
<1>4. StreamTypeOK'
  BY <1>1, <1>2, <1>3, PlacesKnown DEF StreamTypeOK, Texts, Answers, Editors, Handlers
<1>5. LoopIsOver' /\ DraftIsNoPart'
  BY <1>1, <1>2, <1>3 DEF ReplyInv, LoopIsOver, DraftIsNoPart, HasDraft, Speaking
<1>6. handler'.at \notin AtParts \cup {"record"}
  BY <1>2 DEF AtParts
<1> QED BY <1>1, <1>4, <1>5, <1>6, NothingShown

LEMMA AfterStopKeeps == ASSUME NEW result \in Results, ReplyInv, AfterStop(result) PROVE ReplyInv'
<1>1. UNCHANGED <<answer, receipts, editor, seen>> /\ handler.at = "stopping" /\ editor.loop = "done"
  BY DEF AfterStop, HandlerAt, LoopStopped
<1>2. handler.part = 1 /\ (HasDraft => editor.msg \in MessageNos /\ ~IsPart(display[editor.msg]))
  BY <1>1, PlacesKnown DEF ReplyInv, LoopIsOver, DraftIsNoPart, Speaking
<1>3. handler.plan \in {"finish", "discard", "fail"}
  BY PlacesKnown DEF Handlers
<1>4. PICK x \in {"none", "begin", "apologise"} : ReplyGoes(x) /\ (x = "none" \/ display' = display)
  BY <1>3 DEF AfterStop
<1>5. /\ display' \in [MessageNos -> Texts]
      /\ \A o \in MessageNos : display'[o] = display[o] \/ (~IsPart(display[o]) /\ ~IsPart(display'[o]))
  <2>1. display' = display \/ (HasDraft /\ display' = [display EXCEPT ![editor.msg] = Other("deleted")])
    BY <1>3 DEF AfterStop, Discarded
  <2> QED BY <1>2, <2>1, ShownOther, PlacesKnown
<1>6. handler' \in Handlers /\ handler'.at = x /\ handler'.part = 1
  BY <1>2, <1>4, GoesOn
<1>7. StreamTypeOK'
  BY <1>1, <1>5, <1>6, PlacesKnown DEF StreamTypeOK, Texts, Answers, Editors, Handlers
<1>8. LoopIsOver'
  BY <1>1, <1>4, <1>6 DEF LoopIsOver, Speaking
<1>9. DraftIsNoPart'
  <2>1. CASE x = "none"
    BY <1>6, <2>1 DEF DraftIsNoPart, Speaking
  <2>2. CASE x # "none"
    BY <1>1, <1>2, <1>4, <1>6, <2>2 DEF DraftIsNoPart, HasDraft
  <2> QED BY <2>1, <2>2
<1>10. handler'.at \notin AtParts \cup {"record"} \/ (handler'.at = "begin" /\ handler'.part = 1)
  BY <1>4, <1>6 DEF AtParts
<1> QED BY <1>1, <1>5, <1>7, <1>8, <1>9, <1>10, NothingShown

LEMMA ApologiseKeeps ==
  ASSUME NEW m \in MessageNos, NEW result \in Results, ReplyInv, Apologise(m, result) PROVE ReplyInv'
<1>1. UNCHANGED <<answer, receipts, seen>> /\ handler.at = "apologise"
  BY DEF Apologise, HandlerAt
<1>2. editor.loop \in {"none", "done"}
  BY <1>1 DEF ReplyInv, LoopIsOver, Speaking
<1>3. ~IsPart(display[m])
  <2>1. CASE HasDraft /\ m = editor.msg
    BY <1>1, <2>1 DEF ReplyInv, DraftIsNoPart
  <2>2. CASE display[m] = Other("none")
    BY <2>2, StreamTypes
  <2> QED BY <2>1, <2>2 DEF Apologise, NextMessage
<1>4. /\ display' \in [MessageNos -> Texts]
      /\ \A o \in MessageNos : display'[o] = display[o] \/ (~IsPart(display[o]) /\ ~IsPart(display'[o]))
  <2>1. display' = [display EXCEPT ![m] = Other("error")] \/ display' = display
    BY DEF Apologise, Shows
  <2> QED BY <1>3, <2>1, ShownOther
<1>5. \/ handler' = handler /\ editor' = [editor EXCEPT !.msg = 0]
      \/ ReplyGoes("none") /\ editor' = editor
  BY DEF Apologise
<1>6. /\ handler' \in Handlers /\ handler'.at \in {"apologise", "none"}
      /\ editor' \in Editors /\ editor'.loop = editor.loop
      /\ handler'.at = "apologise" => editor'.msg = 0
  <2>1. CASE handler' = handler /\ editor' = [editor EXCEPT !.msg = 0]
    <3>1. 0 \in 0..MaxMessages
      BY StreamAssumption
    <3> QED BY <1>1, <2>1, <3>1, PlacesKnown DEF Editors
  <2>2. CASE ReplyGoes("none") /\ editor' = editor
    BY <2>2, GoesOn, PlacesKnown
  <2> QED BY <1>5, <2>1, <2>2
<1>7. StreamTypeOK'
  BY <1>1, <1>4, <1>6, PlacesKnown DEF StreamTypeOK, Texts, Answers, Editors, Handlers
<1>8. LoopIsOver' /\ DraftIsNoPart'
  BY <1>2, <1>6 DEF LoopIsOver, DraftIsNoPart, HasDraft, Speaking
<1>9. handler'.at \notin AtParts \cup {"record"}
  BY <1>6 DEF AtParts
<1> QED BY <1>1, <1>4, <1>7, <1>8, <1>9, NothingShown

\* At the parts the loop is over and the draft is not touched any more.
LEMMA PastTheLoop ==
  ASSUME ReplyInv, handler.at \in AtParts \cup {"record"}, editor' = editor, handler'.at \notin Speaking
  PROVE  LoopIsOver'
BY DEF ReplyInv, LoopIsOver, Speaking, AtParts

\* Behind the last part everything was seen.
LEMMA AllBehind ==
  ASSUME ReplyInv, handler.at \in AtParts, handler.part \in seen
  PROVE  /\ \A i \in PartNos : i < handler.part + 1 => i \in seen
         /\ handler.part < Parts => handler.part + 1 \in PartNos
         /\ ~(handler.part < Parts) => seen = PartNos
<1>1. \A i \in PartNos : i < handler.part => i \in seen
  BY DEF ReplyInv, LedgerLeads
<1>2. handler.part \in 1..Parts /\ PartNos = 1..Parts /\ Parts \in Nat /\ seen \subseteq PartNos
  BY PlacesKnown, StreamAssumption DEF PartNos
<1>3. \A i \in PartNos : i < handler.part + 1 => i \in seen
  <2> SUFFICES ASSUME NEW i \in PartNos, i < handler.part + 1 PROVE i \in seen
    OBVIOUS
  <2>1. i < handler.part \/ i = handler.part
    BY <1>2
  <2> QED BY <1>1, <2>1
<1>4. handler.part < Parts => handler.part + 1 \in PartNos
  BY <1>2
<1>5. ~(handler.part < Parts) => seen = PartNos
  <2>1. ~(handler.part < Parts) => \A i \in PartNos : i < handler.part + 1
    BY <1>2
  <2> QED BY <1>2, <1>3, <2>1
<1> QED BY <1>3, <1>4, <1>5

LEMMA NextPartKeeps ==
  ASSUME ReplyInv, handler.at \in {"begin", "mark"}, handler.part \in seen, NEW trouble \in BOOLEAN,
         handler.trouble => trouble,
         \/ handler.part < Parts /\ handler' = [handler EXCEPT !.at = "begin", !.part = handler.part + 1, !.trouble = trouble]
         \/ ~(handler.part < Parts) /\ handler' = [handler EXCEPT !.at = "record", !.trouble = trouble],
         UNCHANGED <<display, answer, editor, seen>>,
         receipts' = receipts \/ receipts' = [receipts EXCEPT ![handler.part] = "delivered"]
  PROVE  ReplyInv'
<1>1. handler.at \in AtParts
  BY DEF AtParts
<1> DEFINE n == handler.part + 1
<1>2. /\ \A i \in PartNos : i < n => i \in seen
      /\ handler.part < Parts => n \in PartNos /\ n # 1
      /\ ~(handler.part < Parts) => seen = PartNos
  <2>1. handler.part < Parts => n # 1
    BY PlacesKnown, StreamAssumption DEF PartNos
  <2> QED BY <1>1, <2>1, AllBehind
<1> HIDE DEF n
<1>3. /\ handler' \in Handlers
      /\ \/ handler.part < Parts /\ handler'.at = "begin" /\ handler'.part = n
         \/ ~(handler.part < Parts) /\ handler'.at = "record"
  <2>1. CASE handler.part < Parts /\ handler' = [handler EXCEPT !.at = "begin", !.part = n, !.trouble = trouble]
    BY <1>2, <2>1, PlacesKnown DEF Handlers
  <2>2. CASE ~(handler.part < Parts) /\ handler' = [handler EXCEPT !.at = "record", !.trouble = trouble]
    BY <2>2, PlacesKnown DEF Handlers
  <2> QED BY <2>1, <2>2 DEF n
<1>4. /\ receipts' \in [PartNos -> {"none", "started", "delivered", "failed"}]
      /\ \A i \in PartNos : receipts'[i] = receipts[i] \/ (i \in seen /\ receipts'[i] = "delivered")
  BY PlacesKnown
<1>5. StreamTypeOK'
  BY <1>3, <1>4, PlacesKnown DEF StreamTypeOK, Texts, Answers, Editors, Handlers
<1>6. LoopIsOver'
  BY <1>1, <1>3, PastTheLoop DEF Speaking
<1>7. DraftIsNoPart'
  BY <1>2, <1>3 DEF DraftIsNoPart, Speaking
<1>8. PartsOnScreen' /\ NoHoles'
  BY DEF ReplyInv, PartsOnScreen, NoHoles, IsPart
<1>9. LedgerLeads'
  <2>1. \A i \in seen : receipts'[i] # "none"
    BY <1>4, PlacesKnown DEF ReplyInv, LedgerLeads
  <2> QED BY <1>2, <1>3, <2>1 DEF LedgerLeads, AtParts
<1>10. DeliveredIsSeen'
  BY <1>4 DEF ReplyInv, DeliveredIsSeen
<1> QED BY <1>5, <1>6, <1>7, <1>8, <1>9, <1>10 DEF ReplyInv

LEMMA GivesUpKeeps ==
  ASSUME ReplyInv, handler.at \in {"begin", "unsent"}, GivesUp, UNCHANGED <<display, answer, editor, seen>>,
         receipts' = receipts \/ (handler.at = "unsent" /\ receipts' = [receipts EXCEPT ![handler.part] = "failed"])
  PROVE  ReplyInv'
<1>1. handler' \in Handlers /\ handler'.at = "record" /\ handler'.trouble = TRUE
  BY PlacesKnown DEF GivesUp, Handlers
<1>2. /\ receipts' \in [PartNos -> {"none", "started", "delivered", "failed"}]
      /\ \A i \in PartNos : receipts'[i] = receipts[i] \/ receipts'[i] = "failed"
  BY PlacesKnown
<1>3. StreamTypeOK'
  BY <1>1, <1>2, PlacesKnown DEF StreamTypeOK, Texts, Answers, Editors, Handlers
<1>4. LoopIsOver' /\ DraftIsNoPart'
  BY <1>1 DEF ReplyInv, LoopIsOver, DraftIsNoPart, Speaking
<1>5. PartsOnScreen' /\ NoHoles'
  BY DEF ReplyInv, PartsOnScreen, NoHoles, IsPart
<1>6. LedgerLeads'
  <2>1. \A i \in seen : receipts'[i] # "none"
    BY <1>2, PlacesKnown DEF ReplyInv, LedgerLeads
  <2> QED BY <1>1, <2>1 DEF LedgerLeads, AtParts
<1>7. DeliveredIsSeen'
  BY <1>2 DEF ReplyInv, DeliveredIsSeen
<1> QED BY <1>3, <1>4, <1>5, <1>6, <1>7 DEF ReplyInv

LEMMA BeginPartKeeps == ReplyInv /\ BeginPart => ReplyInv'
<1> SUFFICES ASSUME ReplyInv, BeginPart PROVE ReplyInv'
  OBVIOUS
<1> DEFINE p == handler.part
<1>1. UNCHANGED <<display, answer, editor, seen>> /\ handler.at = "begin" /\ p \in PartNos
  BY PlacesKnown DEF BeginPart, HandlerAt
<1>2. CASE /\ receipts[p] = "none" /\ receipts' = [receipts EXCEPT ![p] = "started"]
           /\ ReplyGoes(IF p = 1 /\ HasDraft THEN "edit" ELSE "send")
  <2>1. PICK x \in {"edit", "send"} : ReplyGoes(x) /\ (x = "edit" => p = 1 /\ HasDraft)
    BY <1>2
  <2>2. handler' \in Handlers /\ handler'.at = x /\ handler'.part = p /\ handler'.trouble = handler.trouble
    BY <2>1, GoesOn
  <2>3. /\ receipts' \in [PartNos -> {"none", "started", "delivered", "failed"}]
        /\ receipts'[p] = "started" /\ \A i \in PartNos \ {p} : receipts'[i] = receipts[i]
    BY <1>1, <1>2, PlacesKnown
  <2>4. p \notin seen
    BY <1>2 DEF ReplyInv, LedgerLeads
  <2>5. StreamTypeOK'
    BY <1>1, <2>2, <2>3, PlacesKnown DEF StreamTypeOK, Texts, Answers, Editors, Handlers
  <2>6. LoopIsOver' /\ DraftIsNoPart'
    BY <1>1, <2>1, <2>2 DEF ReplyInv, LoopIsOver, DraftIsNoPart, Speaking, HasDraft
  <2>7. PartsOnScreen' /\ NoHoles'
    BY <1>1 DEF ReplyInv, PartsOnScreen, NoHoles, IsPart
  <2>8. LedgerLeads'
    <3>1. \A i \in seen : receipts'[i] # "none"
      BY <2>3, PlacesKnown DEF ReplyInv, LedgerLeads
    <3>2. \A i \in PartNos : i < p => i \in seen
      BY <1>1 DEF ReplyInv, LedgerLeads, AtParts
    <3> QED BY <1>1, <2>1, <2>2, <2>3, <2>4, <3>1, <3>2 DEF LedgerLeads
  <2>9. DeliveredIsSeen'
    BY <1>1, <2>3 DEF ReplyInv, DeliveredIsSeen
  <2> QED BY <2>5, <2>6, <2>7, <2>8, <2>9 DEF ReplyInv
<1>3. CASE receipts[p] = "delivered" /\ NextPart /\ receipts' = receipts
  <2>1. p \in seen
    BY <1>1, <1>3 DEF ReplyInv, DeliveredIsSeen
  <2>2. handler.trouble \in BOOLEAN /\ handler \in Handlers
    BY PlacesKnown DEF Handlers
  <2>3. \/ p < Parts /\ handler' = [handler EXCEPT !.at = "begin", !.part = p + 1, !.trouble = handler.trouble]
        \/ ~(p < Parts) /\ handler' = [handler EXCEPT !.at = "record", !.trouble = handler.trouble]
    <3> DEFINE n == p + 1
    <3>1. \/ p < Parts /\ handler' = [handler EXCEPT !.at = "begin", !.part = n]
          \/ ~(p < Parts) /\ handler' = [handler EXCEPT !.at = "record"]
      BY <1>3 DEF NextPart
    <3> HIDE DEF n
    <3>2. /\ [handler EXCEPT !.at = "begin", !.part = n] = [handler EXCEPT !.at = "begin", !.part = n, !.trouble = handler.trouble]
          /\ [handler EXCEPT !.at = "record"] = [handler EXCEPT !.at = "record", !.trouble = handler.trouble]
      BY <2>2 DEF Handlers
    <3> QED BY <3>1, <3>2 DEF n
  <2> QED BY <1>1, <1>3, <2>1, <2>2, <2>3, NextPartKeeps
<1>4. CASE GivesUp /\ receipts' = receipts
  BY <1>1, <1>4, GivesUpKeeps
<1> QED BY <1>2, <1>3, <1>4 DEF BeginPart

LEMMA MarkDeliveredKeeps == ASSUME NEW saved \in BOOLEAN, ReplyInv, MarkDelivered(saved) PROVE ReplyInv'
<1> DEFINE trouble == handler.trouble \/ ~saved
<1>1. UNCHANGED <<display, answer, editor, seen>> /\ handler.at = "mark"
  BY DEF MarkDelivered, HandlerAt
<1>2. handler.part \in seen
  BY <1>1 DEF ReplyInv, LedgerLeads
<1>3. trouble \in BOOLEAN /\ (handler.trouble => trouble) /\ handler \in Handlers
  BY PlacesKnown
<1>4. \/ handler.part < Parts /\ handler' = [handler EXCEPT !.at = "begin", !.part = handler.part + 1, !.trouble = trouble]
      \/ ~(handler.part < Parts) /\ handler' = [handler EXCEPT !.at = "record", !.trouble = trouble]
  <2> DEFINE n == handler.part + 1
  <2>1. \/ handler.part < Parts /\ handler' = [handler EXCEPT !.at = "begin", !.part = n, !.trouble = trouble]
        \/ ~(handler.part < Parts) /\ handler' = [handler EXCEPT !.at = "record", !.part = handler.part, !.trouble = trouble]
    BY DEF MarkDelivered
  <2> HIDE DEF n, trouble
  <2>2. [handler EXCEPT !.at = "record", !.part = handler.part, !.trouble = trouble] =
        [handler EXCEPT !.at = "record", !.trouble = trouble]
    BY <1>3 DEF Handlers
  <2> QED BY <2>1, <2>2 DEF n
<1>5. receipts' = receipts \/ receipts' = [receipts EXCEPT ![handler.part] = "delivered"]
  BY DEF MarkDelivered
<1> HIDE DEF trouble
<1> QED BY <1>1, <1>2, <1>3, <1>4, <1>5, NextPartKeeps

LEMMA MarkFailedKeeps == ASSUME NEW saved \in BOOLEAN, ReplyInv, MarkFailed(saved) PROVE ReplyInv'
BY GivesUpKeeps DEF MarkFailed, HandlerAt, StopsAtFailure


\* A part is shown in a message that showed none, or not shown at all.
LEMMA PartShown ==
  ASSUME ReplyInv, NEW m \in MessageNos, NEW result, ShowsPart(m, result),
         handler.at \in {"edit", "send"}, ~IsPart(display[m]),
         NEW x \in {"mark", "send", "unsent"}, ReplyGoes(x), UNCHANGED <<answer, receipts, editor>>,
         x = "mark" => TookEffect(result), x = "send" => ~TookEffect(result)
  PROVE  ReplyInv'
<1> DEFINE p == handler.part
<1>1. p \in PartNos /\ PartText(p) \in Texts /\ IsPart(PartText(p)) /\ p \notin seen /\ receipts[p] # "none"
  BY PlacesKnown, StreamTypes DEF ReplyInv, LedgerLeads
<1>2. \/ TookEffect(result) /\ display' = [display EXCEPT ![m] = PartText(p)] /\ seen' = seen \cup {p}
      \/ ~TookEffect(result) /\ display' = display /\ seen' = seen
  BY DEF ShowsPart, Shows
<1>3. handler' \in Handlers /\ handler'.at = x /\ handler'.part = p /\ handler'.trouble = handler.trouble
  BY GoesOn
<1>4. StreamTypeOK'
  <2>1. display' \in [MessageNos -> Texts] /\ seen' \subseteq PartNos
    BY <1>1, <1>2, PlacesKnown
  <2> QED BY <1>3, <2>1, PlacesKnown DEF StreamTypeOK, Texts, Answers, Editors, Handlers
<1>5. LoopIsOver' /\ DraftIsNoPart'
  BY <1>3 DEF ReplyInv, LoopIsOver, DraftIsNoPart, Speaking
<1>6. \A i \in PartNos : i < p => i \in seen
  BY DEF ReplyInv, LedgerLeads, AtParts
<1>7. CASE ~TookEffect(result) /\ display' = display /\ seen' = seen
  <2>1. PartsOnScreen' /\ NoHoles' /\ DeliveredIsSeen'
    BY <1>7 DEF ReplyInv, PartsOnScreen, NoHoles, DeliveredIsSeen, IsPart
  <2>2. LedgerLeads'
    BY <1>1, <1>3, <1>6, <1>7 DEF ReplyInv, LedgerLeads
  <2> QED BY <1>4, <1>5, <2>1, <2>2 DEF ReplyInv
<1>8. CASE TookEffect(result) /\ display' = [display EXCEPT ![m] = PartText(p)] /\ seen' = seen \cup {p}
  <2>1. display'[m] = PartText(p) /\ \A o \in MessageNos \ {m} : display'[o] = display[o]
    BY <1>8, PlacesKnown
  <2>2. \A o \in MessageNos : display[o] # PartText(p)
    BY <1>1 DEF ReplyInv, PartsOnScreen
  <2>3. PartsOnScreen'
    <3>1. \A o \in MessageNos, i \in PartNos : display'[o] = PartText(i) => i \in seen'
      BY <1>1, <1>8, <2>1, StreamTypes DEF ReplyInv, PartsOnScreen
    <3>2. \A i \in seen' : \E o \in MessageNos : display'[o] = PartText(i)
      <4> SUFFICES ASSUME NEW i \in seen' PROVE \E o \in MessageNos : display'[o] = PartText(i)
        OBVIOUS
      <4>1. CASE i = p
        BY <2>1, <4>1
      <4>2. CASE i \in seen
        <5>1. PICK o \in MessageNos : display[o] = PartText(i)
          BY <4>2 DEF ReplyInv, PartsOnScreen
        <5>2. o # m
          BY <4>2, <5>1, PlacesKnown DEF IsPart
        <5> QED BY <2>1, <5>1, <5>2
      <4> QED BY <1>8, <4>1, <4>2
    <3>3. \A o, q \in MessageNos : IsPart(display'[o]) /\ display'[o] = display'[q] => o = q
      BY <2>1, <2>2 DEF ReplyInv, PartsOnScreen
    <3> QED BY <3>1, <3>2, <3>3 DEF PartsOnScreen, IsPart
  <2>4. NoHoles'
    <3>1. p = 1 \/ (p - 1 \in PartNos /\ p - 1 < p)
      BY <1>1, StreamAssumption DEF PartNos
    <3>2. p = 1 \/ p - 1 \in seen
      BY <1>6, <3>1
    <3> QED BY <1>8, <3>2 DEF ReplyInv, NoHoles
  <2>5. DeliveredIsSeen'
    <3>1. answer.delivery # "delivered"
      BY <1>1 DEF ReplyInv, DeliveredIsSeen
    <3> QED BY <1>8, <3>1 DEF ReplyInv, DeliveredIsSeen
  <2>6. LedgerLeads'
    BY <1>1, <1>3, <1>6, <1>8 DEF ReplyInv, LedgerLeads
  <2> QED BY <1>4, <1>5, <2>3, <2>4, <2>5, <2>6 DEF ReplyInv
<1> QED BY <1>2, <1>7, <1>8

LEMMA EditPlaceholderKeeps == ASSUME NEW result \in Results, ReplyInv, EditPlaceholder(result) PROVE ReplyInv'
<1>1. handler.at = "edit" /\ UNCHANGED <<answer, receipts, editor>> /\ ShowsPart(editor.msg, result)
  BY DEF EditPlaceholder, HandlerAt
<1>2. editor.msg \in MessageNos /\ ~IsPart(display[editor.msg])
  BY <1>1, PlacesKnown DEF ReplyInv, DraftIsNoPart
<1>3. PICK x \in {"mark", "send", "unsent"} : ReplyGoes(x) /\ (x = "mark" => result = "done") /\ (x = "send" => result = "refused")
  BY DEF EditPlaceholder
<1>4. (x = "mark" => TookEffect(result)) /\ (x = "send" => ~TookEffect(result))
  BY <1>3 DEF TookEffect
<1> QED BY <1>1, <1>2, <1>3, <1>4, PartShown

LEMMA SendOneMessageKeeps ==
  ASSUME NEW m \in MessageNos, NEW result \in Results, ReplyInv, SendOneMessage(m, result) PROVE ReplyInv'
<1>1. handler.at = "send" /\ UNCHANGED <<answer, receipts, editor>> /\ ShowsPart(m, result)
  BY DEF SendOneMessage, HandlerAt
<1>2. ~IsPart(display[m])
  BY StreamTypes DEF SendOneMessage, NextMessage
<1>3. PICK x \in {"mark", "unsent"} : ReplyGoes(x) /\ (x = "mark" => result = "done")
  BY DEF SendOneMessage
<1>4. x = "mark" => TookEffect(result)
  BY <1>3 DEF TookEffect
<1> QED BY <1>1, <1>2, <1>3, <1>4, PartShown

LEMMA RecordTurnDeliveryKeeps == ASSUME NEW saved \in BOOLEAN, ReplyInv, RecordTurnDelivery(saved) PROVE ReplyInv'
<1>1. UNCHANGED <<display, receipts, editor, seen>> /\ handler.at = "record" /\ ReplyGoes("none")
  BY DEF RecordTurnDelivery, HandlerAt
<1>2. handler' \in Handlers /\ handler'.at = "none"
  BY <1>1, GoesOn
<1>3. /\ answer' \in Answers
      /\ answer'.delivery = "delivered" => answer.delivery = "delivered" \/ ~handler.trouble
  <2>1. \/ answer' = answer
        \/ ~handler.trouble /\ answer' = [answer EXCEPT !.delivery = "delivered"]
        \/ answer' = [answer EXCEPT !.delivery = "failed"]
    BY DEF RecordTurnDelivery
  <2> QED BY <2>1, PlacesKnown DEF Answers
<1>4. StreamTypeOK'
  BY <1>1, <1>2, <1>3, PlacesKnown DEF StreamTypeOK, Texts, Answers, Editors, Handlers
<1>5. LoopIsOver' /\ DraftIsNoPart'
  BY <1>1, <1>2 DEF ReplyInv, LoopIsOver, DraftIsNoPart, Speaking
<1>6. handler'.at \notin AtParts \cup {"record"}
  BY <1>2 DEF AtParts
<1> QED BY <1>1, <1>3, <1>4, <1>5, <1>6, NothingShown

LEMMA HandlerStopsKeeps == ReplyInv /\ HandlerStops => ReplyInv'
<1> SUFFICES ASSUME ReplyInv, HandlerStops PROVE ReplyInv'
  OBVIOUS
<1>1. UNCHANGED <<display, answer, receipts, seen>> /\ editor' = NoEditor /\ ReplyGoes("none")
  BY DEF HandlerStops
<1>2. handler' \in Handlers /\ handler'.at = "none"
  BY <1>1, GoesOn
<1>3. StreamTypeOK'
  BY <1>1, <1>2, NoEditorIsOne, PlacesKnown DEF StreamTypeOK, Texts, Answers, Editors, Handlers
<1>4. LoopIsOver' /\ DraftIsNoPart'
  BY <1>1, <1>2, NoEditorIsOne DEF LoopIsOver, DraftIsNoPart, Speaking
<1>5. handler'.at \notin AtParts \cup {"record"}
  BY <1>2 DEF AtParts
<1> QED BY <1>1, <1>3, <1>4, <1>5, NothingShown

LEMMA UserDeletesKeeps == ASSUME NEW m \in MessageNos, ReplyInv, UserDeletes(m) PROVE ReplyInv'
<1>1. UNCHANGED <<answer, receipts, editor, handler, seen>> /\ display[m] = Other("draft")
      /\ display' = [display EXCEPT ![m] = Other("deleted")]
  BY DEF UserDeletes
<1>2. ~IsPart(display[m])
  BY <1>1, StreamTypes
<1>3. /\ display' \in [MessageNos -> Texts]
      /\ \A o \in MessageNos : display'[o] = display[o] \/ (~IsPart(display[o]) /\ ~IsPart(display'[o]))
  BY <1>1, <1>2, ShownOther
<1>4. StreamTypeOK'
  BY <1>1, <1>3, PlacesKnown DEF StreamTypeOK, Texts, Answers, Editors, Handlers
<1>5. LoopIsOver' /\ DraftIsNoPart'
  BY <1>1, <1>3, PlacesKnown DEF ReplyInv, LoopIsOver, DraftIsNoPart, HasDraft
<1> QED BY <1>1, <1>3, <1>4, <1>5, NothingShown

LEMMA ReplyStep == ReplyInv /\ [StreamNext]_streamVars => ReplyInv'
<1> SUFFICES ASSUME ReplyInv, [StreamNext]_streamVars PROVE ReplyInv'
  OBVIOUS
<1>1. CASE UNCHANGED streamVars
  <2>1. UNCHANGED <<display, answer, receipts, editor, handler, seen>>
    BY <1>1 DEF streamVars
  <2> QED BY <2>1 DEF ReplyInv, StreamTypeOK, LoopIsOver, DraftIsNoPart, HasDraft, PartsOnScreen, LedgerLeads,
                      NoHoles, DeliveredIsSeen, IsPart
<1>2. CASE HandlePrivate \/ FlushReads \/ LoopEnds \/ StopLoop \/ BeginPart \/ HandlerStops
  BY <1>2, HandlePrivateKeeps, LoopStepKeeps, StopLoopKeeps, BeginPartKeeps, HandlerStopsKeeps
<1>3. ASSUME NEW m \in MessageNos, NEW result \in Results,
             \/ FlushSends(m, result) \/ FlushEdits(result) \/ Apologise(m, result) \/ SendOneMessage(m, result)
      PROVE  ReplyInv'
  BY <1>3, FlushKeeps, ApologiseKeeps, SendOneMessageKeeps
<1>4. CASE \E result \in Results : FlushEdits(result)
  <2>1. PICK result \in Results : FlushEdits(result)
    BY <1>4
  <2>2. editor.msg \in MessageNos
    BY <2>1, PlacesKnown DEF FlushEdits
  <2> QED BY <2>1, <2>2, <1>3
<1>5. CASE \E result \in Results : AfterStop(result) \/ EditPlaceholder(result)
  BY <1>5, AfterStopKeeps, EditPlaceholderKeeps
<1>6. CASE \E saved \in BOOLEAN : MarkDelivered(saved) \/ MarkFailed(saved) \/ RecordTurnDelivery(saved)
  BY <1>6, MarkDeliveredKeeps, MarkFailedKeeps, RecordTurnDeliveryKeeps
<1>7. CASE (\E d \in 1..Drafts : OnDelta(d)) \/ (\E status \in {"completed", "failed"} : TurnReturns(status))
           \/ (\E m \in MessageNos : UserDeletes(m))
  BY <1>7, OnDeltaKeeps, TurnReturnsKeeps, UserDeletesKeeps
<1> QED BY <1>1, <1>2, <1>3, <1>4, <1>5, <1>6, <1>7 DEF StreamNext

\* The reply to a message reaches the user in order, each part shown once from the moment
\* it is seen, and what the ledger or the turn calls delivered was seen: whatever Telegram
\* answers, whoever deletes the draft, and wherever the process stops and handles the
\* message again (stopLoop, editPlaceholder, sendPreparedParts, deliverTelegramPartOnce).
THEOREM RepliesWhole == StreamSpec => []ReplyIsWhole
<1>1. ReplyInv => ReplyIsWhole
  <2> SUFFICES ASSUME ReplyInv PROVE ReplyIsWhole
    OBVIOUS
  <2>1. ShownOnce
    <3> SUFFICES ASSUME NEW i \in seen
                 PROVE  Cardinality({m \in MessageNos : display[m] = PartText(i)}) = 1
      BY DEF ShownOnce
    <3>1. i \in PartNos
      BY PlacesKnown
    <3>2. PICK m \in MessageNos : display[m] = PartText(i)
      BY DEF ReplyInv, PartsOnScreen
    <3>3. \A o \in MessageNos : display[o] = PartText(i) => o = m
      BY <3>1, <3>2 DEF ReplyInv, PartsOnScreen, IsPart
    <3>4. {o \in MessageNos : display[o] = PartText(i)} = {m}
      BY <3>2, <3>3
    <3> QED BY <3>4, FS_Singleton
  <2> QED BY <2>1 DEF ReplyInv, ReplyIsWhole
<1> QED BY <1>1, ReplyInitial, ReplyStep, PTL DEF StreamSpec
================================================================================
