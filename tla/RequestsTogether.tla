--------------------------- MODULE RequestsTogether ---------------------------
(* The components together.  Whatever is asked of the instance, a step of it is a  *)
(* step of the component asked and leaves the others alone, so each component      *)
(* behaves as it does by itself and keeps what it promises.                        *)
EXTENDS MCRequests, RequestsProofs, WorkProofs

LEMMA PartsBegin ==
  RequestsInit => /\ ConvInit /\ StreamInit /\ ExecutionInit /\ LearningInit
                  /\ CampaignInit /\ DeskInit /\ LinkInit
BY DEF RequestsInit

LEMMA PartsMove ==
  ASSUME RequestsNext
  PROVE  /\ ConvNext \/ UNCHANGED convVars
         /\ StreamNext \/ UNCHANGED streamVars
         /\ ExecutionNext \/ UNCHANGED executionVars
         /\ LearningNext \/ UNCHANGED learningVars
         /\ CampaignNext \/ UNCHANGED campaignVars
         /\ DeskNext \/ UNCHANGED deskVars
         /\ LinkNext \/ UNCHANGED linkVars
BY Zenon DEF RequestsNext

LEMMA PartsRest ==
  ASSUME UNCHANGED requestsVars
  PROVE  /\ UNCHANGED convVars /\ UNCHANGED streamVars /\ UNCHANGED executionVars
         /\ UNCHANGED learningVars /\ UNCHANGED campaignVars /\ UNCHANGED deskVars
         /\ UNCHANGED linkVars
BY DEF requestsVars

LEMMA PartsRun ==
  RequestsSpec => /\ ConvSpec /\ StreamSpec /\ ExecutionSpec /\ LearningSpec
                  /\ CampaignSpec /\ DeskSpec /\ LinkSpec
<1>1. [RequestsNext]_requestsVars =>
        /\ [ConvNext]_convVars /\ [StreamNext]_streamVars /\ [ExecutionNext]_executionVars
        /\ [LearningNext]_learningVars /\ [CampaignNext]_campaignVars
        /\ [DeskNext]_deskVars /\ [LinkNext]_linkVars
  BY PartsMove, PartsRest
<1> QED
  BY <1>1, PartsBegin, PTL
  DEF RequestsSpec, ConvSpec, StreamSpec, ExecutionSpec, LearningSpec, CampaignSpec, DeskSpec, LinkSpec

\* A turn's calls run once and only with consent, and its reply is shown whole, for
\* any number of turns, processes, parts and attempts (src/chat/chat.go,
\* src/gateway/telegram/telegram.go).
THEOREM RepliesSafe == RequestsSpec => []RepliesAreSafe
<1>1. TurnsAreSafe /\ ReplyIsWhole => RepliesAreSafe
  BY DEF RepliesAreSafe
<1> QED BY <1>1, PartsRun, TurnsSafe, RepliesWhole, PTL

\* A run, what is learnt, a campaign and the task tools claim no more than happened, and
\* a worker's link loses no signal by itself, for any number of runs, miners, targets,
\* calls and connections (src/worker/, src/chat/, src/tools/).
THEOREM WorkHonest == RequestsSpec => []WorkIsHonest
<1>1. ExecutionIsHonest /\ LearningIsHonest /\ CampaignIsHonest /\ DeskIsTrue /\ LinkIsTrue => WorkIsHonest
  BY DEF WorkIsHonest
<1> QED
  BY <1>1, PartsRun, ExecutionHonest, LearningHonest, CampaignHonest, DeskTrue, LinkTrue, PTL
================================================================================
