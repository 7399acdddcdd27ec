-------------------------------- MODULE Authority --------------------------------
(* Permissions as a graph of delegations (store/perms.go, tools/perms.go): a row  *)
(* says who may do what to whom and who granted it.  An active row counts as long *)
(* as it can be traced, row by row, to a superadmin who granted the first one.     *)
(* Superadmins come and go: a user is disabled and enabled again, a worker is made *)
(* an administrator and stops being one.  A call is checked when its tool starts    *)
(* and once more by the transaction that writes.                                   *)
EXTENDS Naturals, FiniteSets

CONSTANTS
  Humans, Workers,
  Owner,        \* [Workers -> Humans]: who owns a worker
  Founders,     \* superadmins at the start
  Rights,       \* rows that may be granted: [kind, user, action, target]
  All,          \* the target that stands for every target, "_all"
  MaxRows,      \* bound: rows at one time
  MaxCalls      \* bound: calls in flight

Accounts == Humans \cup Workers

ASSUME AccountsAssumption == Founders \subseteq Humans /\ Owner \in [Workers -> Humans]

ASSUME RightsAssumption ==
  \A r \in Rights : r.kind \in {"active", "passive"} /\ r.user \in Accounts

VARIABLES
  perms,     \* permission rows: a right and who granted it
  live,      \* accounts that are not disabled
  super,     \* accounts that are superadmins
  calls      \* tool calls between their first check and their transaction

authorityVars == <<perms, live, super, calls>>

Row(right, by) == [right |-> right, by |-> by]
Rows == [right : Rights, by : Accounts]
ActiveRows(rows) == {e \in rows : e.right.kind = "active"}

Covers(target, wanted) == target \in {All, wanted}

\* One row hands on what another gives.
Passes(p, e) ==
  /\ p.right.user = e.by
  /\ p.right.action = e.right.action
  /\ Covers(p.right.target, e.right.target)

\* X has every row that counts when the roots and the rows X passes on count.
Closed(X, rows, roots, holders) ==
  \A e \in rows :
    /\ e.right.user \in holders
    /\ e.by \in roots \/ \E p \in X : Passes(p, e)
    => e \in X

\* The rows of the recursive query: the smallest closed set.
Traced(rows, roots, holders) ==
  {e \in rows : \A X \in SUBSET rows : Closed(X, rows, roots, holders) => e \in X}

Effective == Traced(ActiveRows(perms), super \cap live, live)

\* Being disabled suspends a row and does not take it away.
Structural(rows, roots) == Traced(ActiveRows(rows), roots, Accounts)

\* Mistake: what has no chain left stays where it is.
PrunedNothing(rows, roots) == rows

\* The rows a transaction keeps when it prunes what has no chain left.
Pruned(rows, roots) == {e \in rows : e.right.kind = "passive" \/ e \in Structural(rows, roots)}

ActiveSuper(u) == u \in super \cap live

Held(u, action, target) ==
  \E e \in Effective :
    e.right.user = u /\ e.right.action = action /\ Covers(e.right.target, target)

HeldForAnyone(u, action) == \E e \in Effective : e.right.user = u /\ e.right.action = action

Manages(u, other) == Held(u, "manage_perm", other)

AuthorityInit ==
  /\ perms = {}
  /\ live = Accounts
  /\ super = Founders
  /\ calls = {}

--------------------------------------------------------------------------------
(* The checks of a tool call. *)

\* Who is not a superadmin manages others than superadmins, where he was put in charge.
CanManage(u, other) == other \notin super /\ Manages(u, other)

\* One hands on what one holds, to its full extent at most.
CanGrantActive(u, right) == Held(u, right.action, right.target)

\* What a handler checks before it grants or revokes.
AsksForActive(u, right) ==
  /\ right.kind = "active"
  /\ u \in super \/ (CanManage(u, right.user) /\ CanGrantActive(u, right))

AsksForPassive(u, right) ==
  /\ right.kind = "passive"
  /\ u \in super \/ (CanManage(u, right.user) /\ HeldForAnyone(u, "manage_perm"))

AsksForOwnPassive(u, right) == right.kind = "passive" /\ right.user = u

\* The check that precedes every call, and the handler's own.
MayStart(u, tool, right) ==
  /\ u \in live
  /\ u \in Workers => u \in super
  /\ CASE tool \in {"grant", "revoke"} ->
            /\ right.user \in live
            /\ \/ AsksForActive(u, right) \/ AsksForPassive(u, right)
               \/ AsksForOwnPassive(u, right)
       [] tool = "disable" -> u \in super /\ right.user # u
       [] tool = "enable" -> u \in super
       [] tool \in {"promote", "demote"} -> u \in super /\ right.user \in Workers \cap live
       [] tool = "dismiss" -> /\ right.user \in Workers
                              /\ \/ u \in super
                                 \/ HeldForAnyone(u, "manage_worker") /\ Owner[right.user] = u

\* A call about an account, not about a right.
About(u) == [kind |-> "account", user |-> u, action |-> "", target |-> ""]

Call(u, tool, right) == [by |-> u, tool |-> tool, right |-> right]

StartCall(u, tool, right) ==
  /\ Cardinality(calls) < MaxCalls
  /\ MayStart(u, tool, right)
  /\ calls' = calls \cup {Call(u, tool, right)}
  /\ UNCHANGED <<perms, live, super>>

Done(c) == calls' = calls \ {c}

--------------------------------------------------------------------------------
(* GrantPerm and RevokePerm *)

MayGrant(u, right) ==
  \/ ActiveSuper(u)
  \/ IF right.kind = "active"
     THEN /\ right.user \notin super
          /\ Manages(u, right.user)
          /\ Held(u, right.action, right.target)
     ELSE (u = right.user /\ u \in live) \/ Manages(u, right.user)

\* A row that is there already is a conflict.
Grant(c) ==
  /\ c.tool = "grant"
  /\ IF MayGrant(c.by, c.right) /\ Row(c.right, c.by) \notin perms
     THEN Cardinality(perms) < MaxRows /\ perms' = perms \cup {Row(c.right, c.by)}
     ELSE UNCHANGED perms
  /\ Done(c)
  /\ UNCHANGED <<live, super>>

MayRevoke(u, right) ==
  \/ ActiveSuper(u)
  \/ right.kind = "passive" /\ u = right.user /\ u \in live
  \/ /\ right.user \notin super
     /\ Manages(u, right.user)
     /\ right.kind = "active" => Held(u, right.action, right.target)

\* The sources of a right that its reviser controls.
Controls(u, e) ==
  \/ ActiveSuper(u)
  \/ e.right.kind = "passive" /\ u = e.right.user
  \/ e.by = u
  \/ e.by \notin super /\ Manages(u, e.by)

Revoke(c) ==
  LET sources == {e \in perms : e.right = c.right /\ Controls(c.by, e)} IN
  /\ c.tool = "revoke"
  /\ IF ~MayRevoke(c.by, c.right) \/ sources = {}
     THEN UNCHANGED perms
     ELSE perms' = IF c.right.kind = "active" THEN Pruned(perms \ sources, super)
                   ELSE perms \ sources
  /\ Done(c)
  /\ UNCHANGED <<live, super>>

--------------------------------------------------------------------------------
(* SetUserStatus, SetWorkerAdmin, RevokeWorker, PromoteFirstSuperadmin *)

SetStatus(c) ==
  /\ c.tool \in {"disable", "enable"}
  /\ live' = IF c.tool = "enable" THEN live \cup {c.right.user} ELSE live \ {c.right.user}
  /\ Done(c)
  /\ UNCHANGED <<perms, super>>

\* The caller must still be a superadmin, the worker active.
PromoteWorker(c) ==
  /\ c.tool = "promote"
  /\ super' = IF ActiveSuper(c.by) /\ c.right.user \in live THEN super \cup {c.right.user}
              ELSE super
  /\ Done(c)
  /\ UNCHANGED <<perms, live>>

DemoteWorker(c) ==
  /\ c.tool = "demote"
  /\ IF ActiveSuper(c.by) /\ c.right.user \in live
     THEN super' = super \ {c.right.user} /\ perms' = Pruned(perms, super')
     ELSE UNCHANGED <<super, perms>>
  /\ Done(c)
  /\ UNCHANGED live

DismissWorker(c) ==
  /\ c.tool = "dismiss"
  /\ live' = live \ {c.right.user}
  /\ super' = super \ {c.right.user}
  /\ perms' = Pruned(perms, super')
  /\ Done(c)

\* A user makes himself superadmin while there is no active one.
PromoteFirst(u) ==
  /\ super \cap live = {}
  /\ u \in Humans \cap live
  /\ super' = super \cup {u}
  /\ UNCHANGED <<perms, live, calls>>

AuthorityNext ==
  \/ \E u \in Accounts :
       \/ \E tool \in {"grant", "revoke"}, right \in Rights : StartCall(u, tool, right)
       \/ \E tool \in {"disable", "enable", "promote", "demote", "dismiss"}, a \in Accounts :
            StartCall(u, tool, About(a))
       \/ PromoteFirst(u)
  \/ \E c \in calls :
       \/ Grant(c) \/ Revoke(c) \/ SetStatus(c)
       \/ PromoteWorker(c) \/ DemoteWorker(c) \/ DismissWorker(c)

AuthoritySpec == AuthorityInit /\ [][AuthorityNext]_authorityVars

--------------------------------------------------------------------------------
(* Properties *)

\* Whatever is granted, revoked, disabled or demoted meanwhile, no row is left behind
\* that a later, unrelated grant or promotion would bring back to life: every active
\* row of the table can be traced to a superadmin (GrantPerm, RevokePerm,
\* SetUserStatus, SetWorkerAdmin, RevokeWorker).
DelegationsAreRooted == ActiveRows(perms) = Structural(perms, super)
================================================================================
