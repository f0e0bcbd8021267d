------------------------------- MODULE Onvif -------------------------------
(***************************************************************************)
(* OnvifAdapter of adapters/onvif.py: the conversation with a device that  *)
(* a probe or a request for stream endpoints is.  Every POST is a step;    *)
(* the device answers each as it likes, whatever it answered before, and   *)
(* a call that WS-Security is refused is made once more with HTTP digest.  *)
(***************************************************************************)
EXTENDS Naturals, Sequences, FiniteSets

CONSTANTS
  Pixels,        \* resolutions a profile can have
  MaxProfiles,   \* bound: profiles of a device
  HasUser        \* whether the options name a user

ASSUME OnvifAssumption ==
  Pixels \subseteq Nat /\ Pixels # {} /\ MaxProfiles \in Nat /\ HasUser \in BOOLEAN

VARIABLE talk
  \* what the conversation is for, the call it is at, whether that call is on its
  \* second try, the profiles, the roles that have an endpoint, the result, and as
  \* history what the device answered to each call of a probe, at each try

Profiles == UNION {[1 .. n -> Pixels] : n \in 0 .. MaxProfiles}
Calls == {"reach", "info", "caps", "profiles", "main", "sub"}

\* What one POST is worth: 401, an answer, a fault that names authentication, any
\* other refusal, an answer that makes no sense, or no answer.
Answer == {"401", "ok", "auth", "fault", "down", "odd"}
Refusals == {"401", "auth"}

Quiet == [is |-> "none", pc |-> "done", digest |-> FALSE, profiles |-> <<>>,
          pixels |-> [r \in {} |-> 0], result |-> "none", said |-> {}]

OnvifTypeOK ==
  /\ talk.is \in {"none", "probe", "endpoints"} /\ talk.pc \in Calls \union {"done"}
  /\ talk.digest \in BOOLEAN /\ talk.profiles \in Profiles
  /\ DOMAIN talk.pixels \subseteq {"main", "sub"}
  /\ talk.result \in {"none", "ok", "unreachable", "auth_failed", "misconfigured", "error", "raised"}
  /\ talk.said \subseteq Calls \X BOOLEAN \X Answer

\* The history, with one more answer.
Said(answer) ==
  IF talk.is = "probe" THEN talk.said \union {<<talk.pc, talk.digest, answer>>} ELSE {}

TalkEnds(result, said) == talk' = [talk EXCEPT !.pc = "done", !.result = result, !.said = said]

\* _soap_call; the reachability check is a bare POST.
SecondTry(answer) ==
  answer = "401" /\ HasUser /\ ~talk.digest /\ talk.pc # "reach"

AskAgain(answer) ==
  SecondTry(answer) /\ talk' = [talk EXCEPT !.digest = TRUE, !.said = Said(answer)]

TalkGoes(pc, answer) ==
  talk' = [talk EXCEPT !.pc = pc, !.digest = FALSE, !.said = Said(answer)]

\* The diagnosis of a call that failed.
Diagnosis(answer) ==
  CASE answer \in Refusals -> "auth_failed"
    [] answer = "down" -> "unreachable"
    [] answer = "fault" -> "misconfigured"

TalkFails(answer) ==
  TalkEnds(IF talk.is = "probe" THEN Diagnosis(answer) ELSE "raised", Said(answer))

\* Any HTTP answer shows that the device is there.
Reach(answer) ==
  /\ talk.pc = "reach" /\ answer \in {"ok", "401", "down"}
  /\ IF answer = "down" THEN TalkFails(answer) ELSE TalkGoes("info", answer)

AskInformation(answer) ==
  /\ talk.pc = "info" /\ answer # "odd"
  /\ IF answer = "ok" THEN TalkGoes("caps", answer) ELSE TalkFails(answer)

\* Mutant: a refusal counts as one more reason for the conventional path.
AnyPathWillDo(answer) ==
  talk.pc = "caps" /\ answer # "odd" /\ TalkGoes("profiles", answer)

\* _media_url: where the media service is, by convention if the device does not
\* say; but wrong credentials end the conversation.
AskMediaPath(answer) ==
  /\ talk.pc = "caps" /\ answer # "odd"
  /\ IF answer \in Refusals THEN TalkFails(answer) ELSE TalkGoes("profiles", answer)

\* A resolution that is no number is nobody's case: a ValueError.
AskProfiles(answer) ==
  LET said == Said(answer) IN
  /\ talk.pc = "profiles"
  /\ CASE answer = "odd" -> TalkEnds(IF talk.is = "probe" THEN "error" ELSE "raised", said)
       [] answer \in Refusals \union {"fault", "down"} -> TalkFails(answer)
       [] answer = "ok" -> \E ps \in Profiles :
            IF ps = <<>> THEN TalkEnds(IF talk.is = "probe" THEN "misconfigured" ELSE "raised", said)
            ELSE talk' = [talk EXCEPT !.profiles = ps, !.said = said, !.digest = FALSE,
                   !.pc = IF talk.is = "probe" THEN "done" ELSE "main",
                   !.result = IF talk.is = "probe" THEN "ok" ELSE "none"]

\* The highest resolution serves recording, the lowest analysis.
ChosenPixels(role) ==
  LET ps == talk.profiles IN
  CHOOSE px \in {ps[i] : i \in DOMAIN ps} :
    \A i \in DOMAIN ps : IF role = "main" THEN ps[i] <= px ELSE ps[i] >= px

\* An answer without a URI is as bad as none.
AskUri(answer) ==
  LET role == talk.pc
      said == Said(answer) IN
  /\ role \in {"main", "sub"}
  /\ IF answer # "ok" THEN TalkEnds("raised", said)
     ELSE LET more == role = "main" /\ Len(talk.profiles) > 1 IN
          talk' = [talk EXCEPT !.digest = FALSE, !.said = said,
            !.pixels = [r \in DOMAIN @ \union {role} |-> IF r = role THEN ChosenPixels(role) ELSE @[r]],
            !.pc = IF more THEN "sub" ELSE "done", !.result = IF more THEN "none" ELSE "ok"]

\* Options that do not validate are found before anything is sent.
StartProbe ==
  /\ talk = Quiet
  /\ \/ talk' = [Quiet EXCEPT !.is = "probe", !.pc = "reach"]
     \/ talk' = [Quiet EXCEPT !.is = "probe", !.result = "misconfigured"]

TalkSteps ==
  /\ talk.pc # "done"
  /\ \E answer \in Answer :
       \/ AskAgain(answer)
       \/ /\ ~SecondTry(answer)
          /\ \/ Reach(answer) \/ AskInformation(answer) \/ AskMediaPath(answer)
             \/ AskProfiles(answer) \/ AskUri(answer)

\* The API turns an AdapterError into a diagnosis, a ValueError into an error 500.
ProbeAnswered == talk.is = "probe" /\ talk.pc = "done" /\ talk' = Quiet

ProbeNext == StartProbe \/ TalkSteps \/ ProbeAnswered

ProbeSpec == talk = Quiet /\ [][ProbeNext]_talk

-----------------------------------------------------------------------------
\* What the probe's device answered to a call c when the call was refused for good: 401
\* on the first try and, where there is a user to try it with, on the second; or, on
\* either try, a fault that names authentication.  The bare POST asks for no rights.
Refused(c) ==
  /\ c # "reach"
  /\ \/ /\ <<c, FALSE, "401">> \in talk.said
        /\ HasUser => <<c, TRUE, "401">> \in talk.said
     \/ \E second \in BOOLEAN : <<c, second, "auth">> \in talk.said

Silent(c) == \E second \in BOOLEAN : <<c, second, "down">> \in talk.said
Heard(c) == \E second \in BOOLEAN : <<c, second, "ok">> \in talk.said

\* A probe blames the credentials exactly when a call was refused for good, which takes
\* both ways of giving them only where the first was answered 401 and there is a user
\* (onvif.py 268-291; line 93 says both of every refusal), and the network exactly when
\* a call it cannot do without got no answer.
ProbeDiagnosed ==
  talk.is = "probe" /\ talk.pc = "done" =>
    /\ talk.result = "auth_failed" <=> \E c \in Calls : Refused(c)
    /\ talk.result = "unreachable" <=> \E c \in {"reach", "info", "profiles"} : Silent(c)
    /\ talk.result = "ok" => Heard("info") /\ Heard("profiles")

\* The endpoint that serves recording is of the best profile the device has, the one
\* that serves analysis of the poorest.
EndpointsChosen ==
  LET offered == {talk.profiles[i] : i \in DOMAIN talk.profiles} IN
  \A r \in DOMAIN talk.pixels :
    /\ talk.pixels[r] \in offered
    /\ \A px \in offered : IF r = "main" THEN px <= talk.pixels[r] ELSE px >= talk.pixels[r]

\* What a conversation reports is what happened: "each failure named precisely"
\* (onvif.py 3-4), and endpoints are the best profile and the poorest.
ReportsWhatHappened == ProbeDiagnosed /\ EndpointsChosen
=============================================================================
