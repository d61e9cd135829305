----------------------------- MODULE SolverCalls -----------------------------
(***************************************************************************)
(* A benchmark and a solver plugin that talk to each other directly: the   *)
(* benchmark calls a method, the plugin calls back, and arguments, views,  *)
(* results and exceptions arrive as they were sent, at once or later.      *)
(* Tracing is to be invisible: module TracedCalls implements this one.     *)
(***************************************************************************)
EXTENDS Naturals

CONSTANTS
  Arity,  \* the methods, and how many callbacks each is given
  None,   \* no method of these
  Data    \* arguments, views, results and exceptions

VARIABLES
  side,      \* who is running: "benchmark", "plugin", or the wire between them
  method,    \* the method being called
  callback,  \* the callback being called: 1, 2, ..., or 0 for none
  msg        \* what was handed over last

callVars == <<side, method, callback, msg>>

Messages == [kind : {"call", "value", "exception"}, data : Data]
Answers == {m \in Messages : m.kind # "call"}

\* The other side receives the message now, or it is on its way.
To(receiver) ==
  side' \in {receiver, IF receiver = "plugin" THEN "to plugin" ELSE "to benchmark"}

Idle == side = "benchmark" /\ method = None

InCallback == side = "benchmark" /\ callback # 0
-----------------------------------------------------------------------------
Call ==
  /\ Idle
  /\ method' \in DOMAIN Arity
  /\ msg' \in Messages /\ msg'.kind = "call"
  /\ To("plugin")
  /\ UNCHANGED callback

CallBack ==
  /\ side = "plugin"
  /\ callback' \in 1..Arity[method]
  /\ msg' \in Messages /\ msg'.kind = "call"
  /\ To("benchmark")
  /\ UNCHANGED method

\* A callback returns or throws.
CallbackAnswers ==
  /\ InCallback
  /\ callback' = 0
  /\ msg' \in Answers
  /\ To("plugin")
  /\ UNCHANGED method

\* The plugin may throw what its callback threw, something else, or return.
PluginAnswers ==
  /\ side = "plugin"
  /\ method' = None
  /\ msg' \in Answers
  /\ To("benchmark")
  /\ UNCHANGED callback

Deliver ==
  /\ \/ side = "to plugin" /\ side' = "plugin"
     \/ side = "to benchmark" /\ side' = "benchmark"
  /\ UNCHANGED <<method, callback, msg>>

CallsInit ==
  /\ side = "benchmark" /\ method = None /\ callback = 0
  /\ msg \in Answers

CallsNext == Call \/ CallBack \/ CallbackAnswers \/ PluginAnswers \/ Deliver

CallsSpec == CallsInit /\ [][CallsNext]_callVars

=============================================================================
