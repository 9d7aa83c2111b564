---------------------------- MODULE MCClient ----------------------------
(***************************************************************************)
(* The browser's components in one run.  They share no variables: each       *)
(* module models what it needs of its neighbours, so `part` picks one of     *)
(* them in the initial state and the others rest.                            *)
(***************************************************************************)
EXTENDS EditorSession, FragmentWrites, SearchBox, BackgroundPolling

CONSTANTS f1, f2

VARIABLE part

ClientInit ==
    /\ part \in {"session", "panel", "search", "background"}
    /\ Init /\ PanelInit /\ SearchInit /\ BackgroundInit
    /\ part # "panel" => openSegment = Gone
    /\ part # "background" => catalog.active = f1

ClientNext ==
    /\ UNCHANGED part
    /\ \/ /\ part = "session" /\ Next
          /\ UNCHANGED <<panelVars, searchVars, backgroundVars>>
       \/ /\ part = "panel" /\ PanelNext
          /\ UNCHANGED <<vars, searchVars, backgroundVars>>
       \/ /\ part = "search" /\ SearchNext
          /\ UNCHANGED <<vars, panelVars, backgroundVars>>
       \/ /\ part = "background" /\ BackgroundNext
          /\ UNCHANGED <<vars, panelVars, searchVars>>

clientVars == <<part, vars, panelVars, searchVars, backgroundVars>>

\* Fairness, PanelFairness and BackgroundFairness, each of the part that runs: the others
\* rest in states in which some of their steps are enabled.
ClientFairness ==
    /\ WF_vars(part = "session" /\ TimerFires)
    /\ WF_vars(part = "session" /\ (SaveSucceeds \/ SaveFails))
    /\ WF_vars(part = "session" /\ (ServerSaves \/ ServerRefuses))
    /\ WF_vars(part = "session" /\ (FlushAgain \/ FlushEnds))
    /\ WF_panelVars(part = "panel" /\ UpdateFragment)
    /\ WF_panelVars(part = "panel" /\ (WriteSucceeds \/ WriteFails))
    /\ WF_panelVars(part = "panel" /\ LoadFragments)
    /\ WF_panelVars(part = "panel" /\ RefreshArrives)
    /\ WF_backgroundVars(part = "background" /\ ReplyArrives)
    /\ WF_backgroundVars(part = "background" /\ PollFires)
    /\ WF_backgroundVars(part = "background" /\ (PollAnswered \/ PollFails))
    /\ WF_backgroundVars(part = "background" /\ WorkspacePolled)
    /\ WF_backgroundVars(part = "background" /\
                         \E r \in asking : ManifestAnswered(r) \/ ManifestFails(r))

ClientSpec == ClientInit /\ [][ClientNext]_clientVars /\ ClientFairness
=============================================================================
