---------------------------- MODULE MCForeground ----------------------------
(***************************************************************************)
(* What a person's request goes through, each a small instance of its      *)
(* module: the Weixin relay, its reply stream, the gate it sends through,  *)
(* the file jobs and the login of the bridge, the two voice routes, the    *)
(* profile that chats write to, the webhooks, the models that answer, and  *)
(* what the tools start: shell commands, a colleague's tasks and commits   *)
(* to the repository.  They share no state, so they are checked one beside *)
(* the other: `part` is chosen at the start, only that part moves, and the *)
(* state graph is the sum of the parts' graphs, not their product.         *)
(***************************************************************************)
EXTENDS WeixinRelay, ReplyStream, Outgoing, FileJobs, BridgeLogin, VoiceCascade, VoiceS2S,
        UserProfile, HookService, ModelAnswer, ShellRuns, TaskRunner, Repository

VARIABLE part

MCNames == {"a", "b", "fuzzy"}
MCFileOf == [n \in MCNames |-> IF n = "b" THEN "b" ELSE "a"]

Parts == {"relay", "reply", "sending", "jobs", "login", "cascade", "s2s", "profile", "hooks",
          "answer", "shell", "runner", "repository"}

foreVars == <<part, relayVars, replyVars, outVars, fileJobsVars, bridgeVars, cascadeVars, s2sVars,
              profileVars, hookVars, answerVars, shellVars, runnerVars, repoVars>>

ForegroundInit ==
  /\ part \in Parts
  /\ RelayInit /\ ReplyInit /\ OutInit /\ FileJobsInit /\ BridgeInit /\ CascadeInit /\ S2SInit
  /\ ProfileInit /\ HookInit /\ AnswerInit /\ ShellInit /\ RunnerInit /\ RepoInit
  \* What a part at rest began with does not matter.
  /\ part # "hooks" => hookOf = [e \in HookEvents |-> CHOOSE h \in Hooks : TRUE]
  /\ part # "answer" => hasSpare = TRUE
  /\ part # "repository" => modified = {}

\* Everything but the part that moves stays.
ForegroundNext ==
  \/ /\ part = "relay" /\ RelayNext
     /\ UNCHANGED <<part, replyVars, outVars, fileJobsVars, bridgeVars, cascadeVars, s2sVars,
                    profileVars, hookVars, answerVars, shellVars, runnerVars, repoVars>>
  \/ /\ part = "reply" /\ ReplyNext
     /\ UNCHANGED <<part, relayVars, outVars, fileJobsVars, bridgeVars, cascadeVars, s2sVars,
                    profileVars, hookVars, answerVars, shellVars, runnerVars, repoVars>>
  \/ /\ part = "sending" /\ OutNext
     /\ UNCHANGED <<part, relayVars, replyVars, fileJobsVars, bridgeVars, cascadeVars, s2sVars,
                    profileVars, hookVars, answerVars, shellVars, runnerVars, repoVars>>
  \/ /\ part = "jobs" /\ FileJobsNext
     /\ UNCHANGED <<part, relayVars, replyVars, outVars, bridgeVars, cascadeVars, s2sVars,
                    profileVars, hookVars, answerVars, shellVars, runnerVars, repoVars>>
  \/ /\ part = "login" /\ BridgeNext
     /\ UNCHANGED <<part, relayVars, replyVars, outVars, fileJobsVars, cascadeVars, s2sVars,
                    profileVars, hookVars, answerVars, shellVars, runnerVars, repoVars>>
  \/ /\ part = "cascade" /\ CascadeNext
     /\ UNCHANGED <<part, relayVars, replyVars, outVars, fileJobsVars, bridgeVars, s2sVars,
                    profileVars, hookVars, answerVars, shellVars, runnerVars, repoVars>>
  \/ /\ part = "s2s" /\ S2SNext
     /\ UNCHANGED <<part, relayVars, replyVars, outVars, fileJobsVars, bridgeVars, cascadeVars,
                    profileVars, hookVars, answerVars, shellVars, runnerVars, repoVars>>
  \/ /\ part = "profile" /\ ProfileNext
     /\ UNCHANGED <<part, relayVars, replyVars, outVars, fileJobsVars, bridgeVars, cascadeVars,
                    s2sVars, hookVars, answerVars, shellVars, runnerVars, repoVars>>
  \/ /\ part = "hooks" /\ HookNext
     /\ UNCHANGED <<part, relayVars, replyVars, outVars, fileJobsVars, bridgeVars, cascadeVars,
                    s2sVars, profileVars, answerVars, shellVars, runnerVars, repoVars>>
  \/ /\ part = "answer" /\ AnswerNext
     /\ UNCHANGED <<part, relayVars, replyVars, outVars, fileJobsVars, bridgeVars, cascadeVars,
                    s2sVars, profileVars, hookVars, shellVars, runnerVars, repoVars>>
  \/ /\ part = "shell" /\ ShellNext
     /\ UNCHANGED <<part, relayVars, replyVars, outVars, fileJobsVars, bridgeVars, cascadeVars,
                    s2sVars, profileVars, hookVars, answerVars, runnerVars, repoVars>>
  \/ /\ part = "runner" /\ RunnerNext
     /\ UNCHANGED <<part, relayVars, replyVars, outVars, fileJobsVars, bridgeVars, cascadeVars,
                    s2sVars, profileVars, hookVars, answerVars, shellVars, repoVars>>
  \/ /\ part = "repository" /\ RepoNext
     /\ UNCHANGED <<part, relayVars, replyVars, outVars, fileJobsVars, bridgeVars, cascadeVars,
                    s2sVars, profileVars, hookVars, answerVars, shellVars, runnerVars>>

ForegroundSpec == ForegroundInit /\ [][ForegroundNext]_foreVars

\* Every variable of every part keeps to its domain.
ForegroundTypeOK ==
  /\ part \in Parts
  /\ RelayTypeOK /\ ReplyTypeOK /\ OutTypeOK /\ FileJobsTypeOK /\ BridgeTypeOK /\ CascadeTypeOK
  /\ S2STypeOK /\ ProfileTypeOK /\ HookTypeOK /\ AnswerTypeOK /\ ShellTypeOK /\ RunnerTypeOK
  /\ RepoTypeOK

\* The text of an answer comes through exactly once, and what is sent arrives as its
\* sender is told (ReplyStream, Outgoing).
HandedOverOnce == NothingTwiceNothingMissing /\ SendsAreKept

\* What the tools start is followed to its end: shell commands and a colleague's tasks
\* (ShellRuns, TaskRunner).
ToolsAreFollowed == ShellIsKept /\ TasksAreFollowed
=============================================================================
