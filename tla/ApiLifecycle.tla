---------------------------- MODULE ApiLifecycle ----------------------------
(***************************************************************************)
(* The API process: requests in flight, their gauge, and the shutdown that *)
(* waits for the server to close and then closes every dependency at once. *)
(* A handler goes on when its client has hung up, and the server does not  *)
(* wait for it.                                                            *)
(***************************************************************************)
EXTENDS Integers, FiniteSets

CONSTANTS
  Visit,      \* requests
  Dependency  \* what handlers use and shutdown closes

ASSUME ApiAssumption == IsFiniteSet(Visit)

VARIABLES
  visit,       \* visit[v]: how far request v is
  usage,       \* usage[v]: the dependency that v waits for
  inflight,    \* image_ops_http_in_flight_requests
  apiPc,       \* where shutdown() stands
  dependency,  \* dependency[d]: whether d is open, or how its close ended
  apiExit      \* what the process will exit with

apiVars == <<visit, usage, inflight, apiPc, dependency, apiExit>>

Idling == "none"

\* Requests with a connection, and those whose handler runs.
Connected == {v \in Visit : visit[v] = "handled"}
Running   == {v \in Visit : visit[v] \in {"handled", "deserted"}}

ApiInit ==
  /\ visit = [v \in Visit |-> "new"]
  /\ usage = [v \in Visit |-> Idling]
  /\ inflight = 0
  /\ apiPc = "serving"
  /\ dependency = [d \in Dependency |-> "open"]
  /\ apiExit = 0
-----------------------------------------------------------------------------
ArriveAtApi(v) ==
  /\ visit[v] = "new" /\ apiPc = "serving"
  /\ visit' = [visit EXCEPT ![v] = "handled"]
  /\ inflight' = inflight + 1
  /\ UNCHANGED <<usage, apiPc, dependency, apiExit>>

\* The handler awaits a dependency, which fails it when that is closed.
UseDependency(v, d) ==
  /\ v \in Running /\ usage[v] = Idling /\ apiPc # "exited"
  /\ IF dependency[d] = "open"
     THEN usage' = [usage EXCEPT ![v] = d] /\ UNCHANGED visit
     ELSE /\ visit' = [visit EXCEPT ![v] = IF @ = "handled" THEN "broken" ELSE "broken unseen"]
          /\ UNCHANGED usage
  /\ UNCHANGED <<inflight, apiPc, dependency, apiExit>>

DependencyAnswers(v) ==
  /\ v \in Running /\ usage[v] # Idling /\ apiPc # "exited"
  /\ usage' = [usage EXCEPT ![v] = Idling]
  /\ UNCHANGED <<visit, inflight, apiPc, dependency, apiExit>>

Decremented == IF inflight = 0 THEN 0 ELSE inflight - 1

\* The response is sent: 'finish'.  To a client that hung up it may never be.
Respond(v) ==
  /\ v \in Running /\ usage[v] = Idling /\ apiPc # "exited"
  /\ visit' = [visit EXCEPT ![v] = IF @ = "handled" THEN "answered" ELSE "unheard"]
  /\ inflight' \in {Decremented} \cup (IF visit[v] = "deserted" THEN {inflight} ELSE {})
  /\ UNCHANGED <<usage, apiPc, dependency, apiExit>>

HangUp(v) ==
  /\ visit[v] = "handled"
  /\ visit' = [visit EXCEPT ![v] = "deserted"]
  /\ UNCHANGED <<usage, inflight, apiPc, dependency, apiExit>>
-----------------------------------------------------------------------------
\* The first signal: the server accepts nobody any more.
StopApi ==
  /\ apiPc = "serving"
  /\ apiPc' = "closing server"
  /\ UNCHANGED <<visit, usage, inflight, dependency, apiExit>>

\* The last connection is gone; now every close is called.
ServerClosed ==
  /\ apiPc = "closing server" /\ Connected = {}
  /\ apiPc' = "closing dependencies"
  /\ dependency' = [d \in Dependency |-> "closing"]
  /\ UNCHANGED <<visit, usage, inflight, apiExit>>

\* A close that fails does not keep the others from ending.
DependencyCloses(d) ==
  /\ dependency[d] = "closing"
  /\ \E end \in {"closed", "failed"} :
       /\ dependency' = [dependency EXCEPT ![d] = end]
       /\ apiExit' = IF end = "failed" THEN 1 ELSE apiExit
  /\ UNCHANGED <<visit, usage, inflight, apiPc>>

ExitApi ==
  /\ apiPc = "closing dependencies"
  /\ \A d \in Dependency : dependency[d] \in {"closed", "failed"}
  /\ apiPc' = "exited"
  /\ UNCHANGED <<visit, usage, inflight, dependency, apiExit>>

ApiNext ==
  \/ \E v \in Visit :
       \/ ArriveAtApi(v) \/ DependencyAnswers(v) \/ Respond(v) \/ HangUp(v)
       \/ \E d \in Dependency : UseDependency(v, d)
  \/ StopApi \/ ServerClosed \/ ExitApi
  \/ \E d \in Dependency : DependencyCloses(d)

\* A connection ends, by its handler or by its client; so does each close, once
\* Redis and Postgres answer; and the process goes on when they have.
ApiFairness ==
  /\ WF_apiVars(ServerClosed) /\ WF_apiVars(ExitApi)
  /\ \A v \in Visit : WF_apiVars(HangUp(v))
  /\ \A d \in Dependency : WF_apiVars(DependencyCloses(d))

ApiSpec == ApiInit /\ [][ApiNext]_apiVars /\ ApiFairness
-----------------------------------------------------------------------------
(* Properties.                                                             *)

\* Every variable stays in its type.
ApiTypeOK ==
  /\ visit \in [Visit -> {"new", "handled", "deserted", "answered", "unheard", "broken",
                          "broken unseen"}]
  /\ usage \in [Visit -> Dependency \cup {Idling}]
  /\ inflight \in 0..Cardinality(Visit)
  /\ apiPc \in {"serving", "closing server", "closing dependencies", "exited"}
  /\ dependency \in [Dependency -> {"open", "closing", "closed", "failed"}]
  /\ apiExit \in {0, 1}

\* A shutdown fails no request whose client still waits: none meets a closed
\* dependency, however late it came.
WaitingIsServed == \A v \in Visit : visit[v] # "broken" /\ (apiPc = "exited" => visit[v] # "handled")

\* A shutdown that has begun ends, even when some closes fail.
ApiStops == apiPc # "serving" ~> apiPc = "exited"
=============================================================================
