------------------------------- MODULE Credentials -------------------------------
(* How a person gets into the system and gets an API token (store/keys.go,        *)
(* store/users.go, gateway/telegram).  The first superadmin founds the system from *)
(* a chat or over HTTP; everybody else joins with an invitation that opens once.   *)
(* A token is replaced in two steps, and its text is kept until it was delivered.  *)
EXTENDS Naturals, FiniteSets

CONSTANTS
  Newcomers,     \* people on Telegram without an account
  HttpClients,   \* clients that found the system over HTTP
  Groups,        \* Telegram groups that invite whoever speaks in them
  InviteAsks,    \* invitations an assistant is asked for, each maybe more than once
  Devices,       \* where one user asks for tokens: the chat and a running turn
  MaxInvites,    \* bound: invitations
  MaxTokens      \* bound: token texts

Persons == Newcomers \cup HttpClients
Keys == 1 .. MaxInvites
Tokens == 1 .. MaxTokens

ASSUME InvitesAssumption == MaxInvites \in Nat /\ MaxTokens \in Nat

VARIABLES
  account,   \* a person's account: "none", "member" or "superadmin"
  door,      \* the invitation a member came with, 0 for none
  invite,    \* an invitation: who asked for it and what became of it
  pending,   \* the invitation a group keeps for a newcomer, 0 for none
  inviting,  \* what a group's handler does for a newcomer
  replied,   \* HTTP clients that were told their account exists
  token,     \* the token that authenticates the user, 0 for none
  rotation,  \* the replacement in progress
  inHand,    \* the token text a device is about to show, 0 for none
  known,     \* texts the user has seen
  abandoned, \* unseen texts the user gave up or let run out
  drawn      \* token texts drawn so far

doorVars == <<account, door, invite, pending, inviting, replied>>
tokenVars == <<token, rotation, inHand, known, abandoned, drawn>>
credentialVars == <<doorVars, tokenVars>>

NoInvite == [ask |-> "none", status |-> "none"]
NoRotation == [text |-> 0, live |-> FALSE]

DoorInit ==
  /\ account = [p \in Persons |-> "none"]
  /\ door = [p \in Persons |-> 0]
  /\ invite = [k \in Keys |-> NoInvite]
  /\ pending = [p \in Newcomers |-> 0]
  /\ inviting = [p \in Newcomers |-> [g \in Groups |-> 0]]
  /\ replied = {}

TokenInit ==
  /\ token = 0
  /\ rotation = NoRotation
  /\ inHand = [d \in Devices |-> 0]
  /\ known = {} /\ abandoned = {} /\ drawn = 0

CredentialsInit == DoorInit /\ TokenInit

--------------------------------------------------------------------------------
(* The first superadmin *)

HasSuperadmin == \E p \in Persons : account[p] = "superadmin"

\* /superadmin of a stranger founds, of a member promotes; one lock serves both.
Found(p) ==
  /\ ~HasSuperadmin
  /\ account' = [account EXCEPT ![p] = "superadmin"]
  /\ UNCHANGED <<door, invite, pending, inviting, replied, tokenVars>>

\* An HTTP client brings its token along: repeating the request finds the account.
FoundOverHttp(p, heard) ==
  /\ account[p] = "superadmin" \/ ~HasSuperadmin
  /\ account' = [account EXCEPT ![p] = "superadmin"]
  /\ replied' = IF heard THEN replied \cup {p} ELSE replied
  /\ UNCHANGED <<door, invite, pending, inviting, tokenVars>>

--------------------------------------------------------------------------------
(* Invitations *)

FreeKeys == {k \in Keys : invite[k].status = "none"}

Written(k, ask) == [invite EXCEPT ![k] = [ask |-> ask, status |-> "open"]]

\* Asking again for the same request finds the invitation, whatever became of it,
\* unless it was cancelled.
Invite(ask) ==
  /\ \A k \in Keys : invite[k].ask = ask => invite[k].status = "cancelled"
  /\ \E k \in FreeKeys : invite' = Written(k, ask)
  /\ UNCHANGED <<account, door, pending, inviting, replied, tokenVars>>

\* Cancelling deletes the unused ones.
CancelInvites ==
  /\ invite' = [k \in Keys |-> IF invite[k].status \in {"open", "expired"}
                               THEN [invite[k] EXCEPT !.status = "cancelled"] ELSE invite[k]]
  /\ UNCHANGED <<account, door, pending, inviting, replied, tokenVars>>

InviteExpires(k) ==
  /\ invite[k].status = "open"
  /\ invite' = [invite EXCEPT ![k].status = "expired"]
  /\ UNCHANGED <<account, door, pending, inviting, replied, tokenVars>>

\* A stranger speaks in a group: the invitation kept for him is sent again, or a new
\* one is written and then kept.
GroupInvites(p, g) ==
  /\ account[p] = "none" /\ pending[p] = 0 /\ inviting[p][g] = 0
  /\ \E k \in FreeKeys :
       /\ invite' = Written(k, "group")
       /\ inviting' = [inviting EXCEPT ![p][g] = k]
  /\ UNCHANGED <<account, door, pending, replied, tokenVars>>

GroupKeeps(p, g) ==
  /\ inviting[p][g] # 0
  /\ pending' = [pending EXCEPT ![p] = inviting[p][g]]
  /\ inviting' = [inviting EXCEPT ![p][g] = 0]
  /\ UNCHANGED <<account, door, invite, replied, tokenVars>>

\* Mistake: the invitation is not looked at again.
AdmitAnyhow(p, k) ==
  /\ account[p] = "none"
  /\ invite[k].status # "none"
  /\ account' = [account EXCEPT ![p] = "member"]
  /\ door' = [door EXCEPT ![p] = k]
  /\ invite' = [invite EXCEPT ![k].status = "used"]

\* The whole of joining is one transaction that holds the invitation.
Admit(p, k) ==
  /\ account[p] = "none"
  /\ invite[k].status = "open"
  /\ account' = [account EXCEPT ![p] = "member"]
  /\ door' = [door EXCEPT ![p] = k]
  /\ invite' = [invite EXCEPT ![k].status = "used"]

\* The text of an invitation, in whoever's hand, comes before the one kept by a group.
Join(p, k) ==
  /\ Admit(p, k)
  /\ pending' = [pending EXCEPT ![p] = 0]
  /\ UNCHANGED <<inviting, replied, tokenVars>>

\* A private message of a stranger uses the invitation kept for him or forgets it.
JoinPending(p) ==
  /\ account[p] = "none" /\ pending[p] # 0
  /\ \/ Admit(p, pending[p])
     \/ invite[pending[p]].status # "open" /\ UNCHANGED <<account, door, invite>>
  /\ pending' = [pending EXCEPT ![p] = 0]
  /\ UNCHANGED <<inviting, replied, tokenVars>>

DoorRestart ==
  /\ \E p \in Newcomers, g \in Groups : inviting[p][g] # 0
  /\ inviting' = [p \in Newcomers |-> [g \in Groups |-> 0]]
  /\ UNCHANGED <<account, door, invite, pending, replied, tokenVars>>

DoorNext ==
  \/ \E p \in Newcomers :
       \/ Found(p)
       \/ \E k \in Keys : Join(p, k)
       \/ JoinPending(p)
       \/ \E g \in Groups : GroupInvites(p, g) \/ GroupKeeps(p, g)
  \/ \E p \in HttpClients, heard \in BOOLEAN : FoundOverHttp(p, heard)
  \/ \E ask \in InviteAsks : Invite(ask)
  \/ \E k \in Keys : InviteExpires(k)
  \/ CancelInvites \/ DoorRestart

--------------------------------------------------------------------------------
(* Tokens of one user *)

\* The unseen token in use can no longer be read once its text is gone.
GiveUpToken == abandoned' = IF token = rotation.text THEN abandoned \cup {token} ELSE abandoned

\* A replacement that is in progress and has not run out is kept.
BeginRotation ==
  /\ IF rotation.live
     THEN UNCHANGED <<rotation, drawn>>
     ELSE /\ drawn < MaxTokens
          /\ drawn' = drawn + 1
          /\ rotation' = [text |-> drawn', live |-> TRUE]
  /\ UNCHANGED <<token, inHand, known, abandoned, doorVars>>

\* Confirming again gives the same token.
ConfirmRotation(d) ==
  /\ inHand[d] = 0
  /\ rotation.live
  /\ token' = rotation.text
  /\ inHand' = [inHand EXCEPT ![d] = rotation.text]
  /\ UNCHANGED <<rotation, known, abandoned, drawn, doorVars>>

\* Mistake: whatever is kept is deleted.
AcknowledgedAny(text) == NoRotation

\* The message with the text arrives: only now its text may go, if it is still there,
\* and the process may stop before.
Acknowledged(text) == IF rotation.text = text THEN NoRotation ELSE rotation

DeliverToken(d, arrives, swept) ==
  /\ inHand[d] # 0
  /\ known' = IF arrives THEN known \cup {inHand[d]} ELSE known
  /\ rotation' = IF arrives /\ swept THEN Acknowledged(inHand[d]) ELSE rotation
  /\ inHand' = [inHand EXCEPT ![d] = 0]
  /\ UNCHANGED <<token, abandoned, drawn, doorVars>>

CancelRotation ==
  /\ rotation # NoRotation
  /\ rotation' = NoRotation
  /\ GiveUpToken
  /\ UNCHANGED <<token, inHand, known, drawn, doorVars>>

\* Ten minutes pass; maintenance deletes the row some time later.
RotationExpires ==
  /\ rotation.live
  /\ rotation' = [rotation EXCEPT !.live = FALSE]
  /\ GiveUpToken
  /\ UNCHANGED <<token, inHand, known, drawn, doorVars>>

SweepRotation ==
  /\ rotation # NoRotation /\ ~rotation.live
  /\ rotation' = NoRotation
  /\ UNCHANGED <<token, inHand, known, abandoned, drawn, doorVars>>

\* A caller that names no request gets a token at once, and only once.
IssueToken(arrives) ==
  /\ drawn < MaxTokens
  /\ drawn' = drawn + 1
  /\ token' = drawn'
  /\ known' = IF arrives THEN known \cup {drawn'} ELSE known
  /\ abandoned' = IF arrives THEN abandoned ELSE abandoned \cup {drawn'}
  /\ UNCHANGED <<rotation, inHand, doorVars>>

RevokeToken ==
  /\ token' = 0
  /\ UNCHANGED <<rotation, inHand, known, abandoned, drawn, doorVars>>

TokenNext ==
  \/ BeginRotation \/ CancelRotation \/ RotationExpires \/ SweepRotation \/ RevokeToken
  \/ \E d \in Devices : ConfirmRotation(d) \/ \E arrives, swept \in BOOLEAN : DeliverToken(d, arrives, swept)
  \/ \E arrives \in BOOLEAN : IssueToken(arrives)

CredentialsNext == DoorNext \/ TokenNext

CredentialsSpec == CredentialsInit /\ [][CredentialsNext]_credentialVars

--------------------------------------------------------------------------------
(* Properties *)

\* The system is founded once, however many try and however often one repeats it.
FoundedOnce ==
  /\ Cardinality({p \in Persons : account[p] = "superadmin"}) <= 1
  /\ \A p \in replied : account[p] = "superadmin"

\* An invitation admits one person, and nobody comes with two or with none.
OneDoorEach ==
  /\ \A k \in Keys :
       invite[k].status = "used" <=> Cardinality({p \in Newcomers : door[p] = k}) = 1
  /\ \A p \in Persons : account[p] = "member" => door[p] # 0

\* A user whose token was replaced has seen the new one or can still ask for it,
\* unless he cancelled, waited too long or lost the answer of an unnamed request.
TokenCanBeRead ==
  token \in known \cup abandoned \cup {0} \/ (rotation.live /\ rotation.text = token)

\* Credentials are given once and none is lost on the way (BootstrapSuperadmin,
\* BindUserWithKey, ConfirmAPITokenRotation, AcknowledgeAPITokenRotation).
CredentialsAreSafe == FoundedOnce /\ OneDoorEach /\ TokenCanBeRead
================================================================================
