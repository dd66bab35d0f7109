---------------------------- MODULE TokenPromise ----------------------------
(***************************************************************************)
(* What ServiceTokenManager promises its callers, without saying how: it   *)
(* answers every call, with a token if it holds one at that moment, and it *)
(* gives a token up for one of two reasons only, each of them an event of  *)
(* its own: invalidate(), or an empty token that rudra issued.  `cause`    *)
(* names the event, so a step that gives the token up for no reason is not *)
(* a step of this module.  ServiceToken implements this; Outbound relies   *)
(* on it.                                                                  *)
(***************************************************************************)
EXTENDS Naturals

CONSTANTS Callers

VARIABLES
    held,    \* a token has been obtained and not been given up since
    cause,   \* why none is held; "nothing" if one is
    answer   \* how each caller's last call ended

tvars == <<held, cause, answer>>

Init ==
    /\ held = FALSE
    /\ cause = "never"
    /\ answer = [c \in Callers |-> "none"]

Ask(c) ==
    /\ answer[c] # "asked"
    /\ answer' = [answer EXCEPT ![c] = "asked"]
    /\ UNCHANGED <<held, cause>>

\* A token is asked for only on behalf of a call that is running.
Refreshing == \E c \in Callers : answer[c] = "asked"

Obtain ==
    /\ Refreshing
    /\ held' = TRUE
    /\ cause' = "nothing"
    /\ UNCHANGED answer

ObtainEmpty ==
    /\ Refreshing
    /\ held' = FALSE
    /\ cause' = "empty_answer"
    /\ UNCHANGED answer

Invalidate ==
    /\ held' = FALSE
    /\ cause' = "invalidate"
    /\ UNCHANGED answer

Reply(c) ==
    /\ answer[c] = "asked"
    /\ \E reply \in IF held THEN {"token"} ELSE {"empty", "unavailable"} :
           answer' = [answer EXCEPT ![c] = reply]
    /\ UNCHANGED <<held, cause>>

\* The caller is done with what it was told.
Forget(c) ==
    /\ answer[c] # "asked"
    /\ answer' = [answer EXCEPT ![c] = "none"]
    /\ UNCHANGED <<held, cause>>

Next ==
    \/ \E c \in Callers : Ask(c) \/ Reply(c) \/ Forget(c)
    \/ Obtain
    \/ ObtainEmpty
    \/ Invalidate

Spec == Init /\ [][Next]_tvars
=============================================================================
