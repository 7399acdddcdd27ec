------------------------------- MODULE MCRequests -------------------------------
(* The components that act when somebody asks them to, one at a time; they         *)
(* share no variable and "asked" says which one is asked.  To stay small:          *)
(*  - conversation: the first message comes first, no reply is lost for good, and  *)
(*    from the third attempt in all on two processes are at work only on two native*)
(*    turns of which none has ended;                                               *)
(*  - uploads: three of them or two with a failure, collected meanwhile, while     *)
(*    nothing is analysed; analyses: two uploads, one after the other, and         *)
(*    nothing fails;                                                               *)
(*  - rights: one account is disabled or one right but management granted at a     *)
(*    time;                                                                        *)
(*  - runs: the second run of a worker is shorter than the first;                  *)
(*  - learning: two miners or a miner and a reviewer overlap; a second rule is     *)
(*    learnt by one miner alone, and a job mined twice is not reviewed meanwhile;  *)
(*  - reviews: verdicts on a submitted task, two acceptances of prerequisites      *)
(*    and refreshes of the decision queue; changes: two calls of the other         *)
(*    tools while the worker works; superiors make only some of the calls;         *)
(*  - lines: the worker's connections come and go while it asks for work;          *)
(*    signals: its work is queued and cancelled over its first connection.         *)
EXTENDS Conversation, Transcript, FileStore, Authority, Credentials, Execution,
        Learning, Campaigns, TaskDesk, WorkerLink,
        StreamReply, TLC

CONSTANTS
  Requests, \* what is asked of the instance
  p1, p2    \* processes, runs of a worker, findings of its judge, miners

VARIABLE asked

Right(kind, user, action, target) ==
  [kind |-> kind, user |-> user, action |-> action, target |-> target]

\* Two managers who may hand the management on to each other, and two other rights.
Management ==
  {Right("active", "a", "manage_perm", "_all"), Right("active", "b", "manage_perm", "_all")}

GrantedRights ==
  Management \cup {Right("active", "a", "manage_worker", "_all"),
                   Right("passive", "b", "view_profile", "_all")}

OwnedByA == [w \in Workers |-> "a"]

\* What the agent plans by message: both want the same call, or the first wants two.
MessagePlans == {("m1" :> {"t"}) @@ ("m2" :> {"t"}), ("m1" :> {"t", "u"}) @@ ("m2" :> {})}

\* Two texts of one rule.
OneRule(f) == "T"

LearnsOther ==
  "rule2" \in learnt \cup {candidate[c].text : c \in Cands}
             \cup UNION {miner[p].found : p \in Miners}

ShortLearning ==
  /\ (\E r \in Reviewers : review'[r] # NoReview) => \A m \in Messages : mining'[m].attempts <= 1
  /\ LearnsOther' => \A r \in Reviewers : review'[r] = NoReview
  /\ LearnsOther' /\ ~LearnsOther => miner' # miner
  /\ LearnsOther' => \E p \in Miners : miner'[p] = NoMiner

\* The first message comes first, no reply is lost for good, and from the third attempt
\* on two processes are at work only on open native turns that want the same call.
ShortTalk ==
  /\ turn'["m2"].status # "absent" => turn["m1"].status # "absent"
  /\ \A k \in SourceKeys : turn'[k].delivery # "failed"
  /\ turn'["m1"].attempts + turn'["m2"].attempts > 2
       => \/ \E p \in Processes : runner'[p] = NoRunner
          \/ native /\ plan["m2"] # {} /\ \A k \in SourceKeys : turn'[k].status \in {"awaiting", "running"}

NoRoles == [u \in People |-> "none"]

DeskRosters == {NoRoles, [NoRoles EXCEPT !["r"] = "reviewer"]}

ReviewTools == {"done", "pending", "accept", "reject", "sibling", "queue"}
ChangeTools == {"update", "reassign", "cancel", "delete", "attach", "participants",
                "in_progress", "pass"}

\* The tools of one kind, by those who may use them.
DeskCalls(tools, most) ==
  /\ toolCalls' <= most
  /\ \A d \in Desks :
       desk'[d] = NoTool \/
         /\ desk'[d].tool \in tools
         /\ desk'[d].who = "h" <=> desk'[d].tool \in {"done", "pending", "in_progress"}
         /\ desk'[d].who = "r" => desk'[d].tool \in {"accept", "reject"}
         /\ desk'[d].arg # "r"

\* What the desk starts with: submitted work of a person or a worker and its
\* reviewer, or work of a worker.
DeskStarts ==
  CASE asked = "reviews" -> board.status = "done" /\ roster["r"] = "reviewer" /\ circumstances.gone = {}
    [] asked = "changes" -> board.status = "pending" /\ board.assignee = "w" /\ ~circumstances.late
    [] OTHER -> board.assignee = "w" /\ board.status = "done" /\ roster = NoRoles
                /\ circumstances = [late |-> FALSE, gone |-> {}]

RequestsInit ==
  /\ asked \in Requests
  /\ ConvInit /\ TranscriptInit /\ FilesInit /\ AuthorityInit /\ CredentialsInit
  /\ ExecutionInit /\ LearningInit /\ CampaignInit /\ DeskInit /\ LinkInit
  /\ StreamInit
  /\ \A m \in Members : info[m] = {}
  /\ DeskStarts
  /\ asked # "conversation" => native /\ plan = CHOOSE p \in Plans : TRUE

requestsVars ==
  <<asked, convVars, transcriptVars, fileVars, authorityVars, credentialVars,
    executionVars, learningVars, campaignVars, deskVars, linkVars, streamVars>>

RequestsNext ==
  /\ UNCHANGED asked
  /\ \/ asked = "conversation" /\ ConvNext /\ ShortTalk
     \/ asked # "conversation" /\ UNCHANGED convVars
  /\ \/ asked = "transcript" /\ TranscriptNext
     \/ asked # "transcript" /\ UNCHANGED transcriptVars
  /\ \/ asked = "uploads" /\ FilesNext /\ UNCHANGED analyses /\ (faults' > 0 => uploads' <= 2)
     \/ /\ asked = "analyses" /\ FilesNext
        /\ uploads' <= 2 /\ \A u \in Uploaders : upload'[u].ref \notin RunRefs
        /\ \E u \in Uploaders : upload'[u] = NoUpload
        /\ UNCHANGED <<collector, leased, faults>>
     \/ asked \notin {"uploads", "analyses"} /\ UNCHANGED fileVars
  /\ \/ asked = "rights" /\ AuthorityNext
        /\ Cardinality(Accounts \ live') + Cardinality({e \in perms' : e.right \notin Management}) <= 1
     \/ asked # "rights" /\ UNCHANGED authorityVars
  /\ \/ asked = "joining" /\ DoorNext
     \/ asked = "tokens" /\ TokenNext
     \/ asked \notin {"joining", "tokens"} /\ UNCHANGED credentialVars
  /\ \/ asked = "runs" /\ ExecutionNext /\ (job'.no > 1 => work' <= 1)
     \/ asked # "runs" /\ UNCHANGED executionVars
  /\ \/ asked = "learning" /\ LearningNext /\ ShortLearning
     \/ asked # "learning" /\ UNCHANGED learningVars
  /\ \/ asked = "campaign" /\ CampaignNext /\ campaign' # "cancelled"
     \/ asked # "campaign" /\ UNCHANGED campaignVars
  /\ \/ asked = "reviews" /\ DeskNext /\ DeskCalls(ReviewTools, 3) /\ ~board'.claimed
     \/ asked = "changes" /\ DeskNext /\ DeskCalls(ChangeTools, 2)
     \/ asked \notin {"reviews", "changes"} /\ UNCHANGED deskVars
  /\ \/ asked = "lines" /\ LinkNext /\ client'.loop = "asking" /\ runs'[2] = "absent"
     \/ asked = "signals" /\ LinkNext /\ line'[2].handler = "none" /\ heard'.stops = 0
     \/ asked \notin {"lines", "signals"} /\ UNCHANGED linkVars
  /\ \/ asked = "stream" /\ StreamNext
     \/ asked # "stream" /\ UNCHANGED streamVars

RequestsSpec == RequestsInit /\ [][RequestsNext]_requestsVars

--------------------------------------------------------------------------------
\* A turn's calls run once and only with consent, and its reply is shown whole.
RepliesAreSafe ==
  CASE asked = "conversation" -> TurnsAreSafe
    [] asked = "stream" -> ReplyIsWhole
    [] OTHER -> TRUE

\* Neither a worker's run, nor what is learnt, nor a campaign, nor what the task tools
\* leave behind claims more than happened; and a worker's link loses no signal by itself.
WorkIsHonest ==
  CASE asked = "runs" -> ExecutionIsHonest
    [] asked = "learning" -> LearningIsHonest
    [] asked = "campaign" -> CampaignIsHonest
    [] asked \in {"reviews", "changes"} -> DeskIsTrue
    [] asked \in {"lines", "signals"} -> LinkIsTrue
    [] OTHER -> TRUE

\* The processes that serve a user are alike; a worker's runs and what its judge may
\* find wrong bear the same two names.
Alike == Permutations({p1, p2})
================================================================================
