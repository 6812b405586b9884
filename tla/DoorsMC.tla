------------------------------ MODULE DoorsMC ------------------------------
(***************************************************************************)
(* The two doors to the radio, one to a behaviour: the loggers on the CAT  *)
(* proxy and the panel's routes.  What they share, the poll thread's       *)
(* queue, RadioPoller has; the other door rests where it started.          *)
(***************************************************************************)
EXTENDS CatProxy, PanelRoutes

VARIABLE door

doorsVars == <<door, proxyVars, panelVars>>

\* RM4 and RM5 are two meters with the same letters; TX is a set.
MCVerb == [cmd \in {"RM4", "RM5", "FA", "TX1"} |->
             IF cmd \in {"RM4", "RM5"} THEN "RM" ELSE cmd]

\* What is pressed together, and whether the line loses replies.
Press(go, x) == [go |-> go, x |-> x]
MCDesks == {
  [lossy |-> FALSE, routes |-> {Press("up", 5), Press("down", 5)}],
  [lossy |-> TRUE, routes |-> {Press("set", 14200), Press("down", 5), Press("b2a", 0),
                               Press("locktoggle", 0), Press("recall", 3700)}],
  [lossy |-> FALSE, routes |-> {Press("digit", 7), Press("send", 0), Press("erase", 0),
                                Press("lock", 0), Press("unlock", 0), Press("quick", 0)}],
  [lossy |-> FALSE, routes |-> {Press("swap", 0), Press("a2b", 0), Press("lock", 0),
                                Press("up", 5), Press("status", 0)}],
  [lossy |-> FALSE, routes |-> {Press("key", 0), Press("unkey", 0), Press("keytoggle", 0),
                                Press("tune", 0)}],
  [lossy |-> FALSE, routes |-> {Press("cw", 1), Press("play", 0), Press("cwstop", 0),
                                Press("unkey", 0)}],
  [lossy |-> FALSE, routes |-> {Press("toggle", 0), Press("cycle", 0), Press("on", 0),
                                Press("off", 0), Press("mode", CW), Press("volume", 1)}],
  [lossy |-> TRUE, routes |-> {Press("remote", 1), Press("remote", 0), Press("status", 0)}],
  [lossy |-> TRUE, routes |-> {Press("mute", 0), Press("unmute", 0), Press("mutetoggle", 0),
                               Press("louder", 0), Press("softer", 0)}] }

DoorsInit ==
  /\ door \in {"proxy", "panel"}
  /\ ProxyInit /\ PanelInit
  /\ door = "proxy" => desk = CHOOSE d \in Desks : TRUE

Proxy(A) == door = "proxy" /\ A /\ UNCHANGED <<door, panelVars>>
Panel(A) == door = "panel" /\ A /\ UNCHANGED <<door, proxyVars>>

DoorsNext == Proxy(ProxyNext) \/ Panel(PanelNext)

\* The threads of the proxy run, Stop goes on once it is called, the poll
\* thread serves its queue and the HTTP workers run.  No fairness for loggers,
\* operators, the radio or the caller of Stop.
DoorsSpec ==
  /\ DoorsInit /\ [][DoorsNext]_doorsVars
  /\ \A c \in Loggers : WF_doorsVars(Proxy(ClientThread(c)))
  /\ WF_doorsVars(Proxy(AcceptEnds)) /\ WF_doorsVars(Proxy(StopReturns))
  /\ WF_doorsVars(Panel(Serve))
  /\ \A c \in Clients : WF_doorsVars(Panel(Handler(c)))

\* Of both doors.
DoorsTypeOK == ProxyTypeOK /\ PanelTypeOK
=============================================================================
