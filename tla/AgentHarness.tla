----------------------------- MODULE AgentHarness -----------------------------
(***************************************************************************)
(* The tool calls of one agent session (agent-harness/src): the policy     *)
(* that admits them (policy.ts, session.ts), the process each one starts   *)
(* and the races of its answer with a timeout, an abort and a limit        *)
(* (bridge.ts), and what the process makes of the request                  *)
(* (cs2_sim/agent_bridge.py).  The tools of one turn may run at once.      *)
(***************************************************************************)
EXTENDS Naturals, FiniteSets

CONSTANTS
    ToolCalls,       \* the calls the agent makes
    Tools,           \* names it may use, of which some are registered
    ToolLimit,       \* [registered tools -> maxCallsPerTurn]
    AllowedTools,    \* config.allowedTools
    MaxCallsPerTurn, \* config.maxToolCallsPerTurn
    Sizes,           \* sizes of what a process computes
    MaxResponse,     \* MAX_RESPONSE_BYTES of agent_bridge.py
    MaxOutput,       \* maxBridgeOutputBytes
    MaxTurns         \* bounds the turns

ASSUME HarnessAssumption ==
    /\ AllowedTools \subseteq Tools /\ DOMAIN ToolLimit \subseteq Tools
    /\ ToolLimit \in [DOMAIN ToolLimit -> Nat \ {0}]
    /\ MaxCallsPerTurn \in Nat \ {0}
    /\ Sizes \subseteq Nat /\ {MaxResponse, MaxOutput, MaxTurns} \subseteq Nat \ {0}

VARIABLES
    turn,        \* turns started
    callsMade,   \* turnCounter.value
    call,        \* what became of each call
    process,     \* the process of each call
    aborted      \* session.abort() was called

harnessVars == <<turn, callsMade, call, process, aborted>>

Codes == {"TOOL_DENIED", "INVALID_ARGUMENTS", "TOOL_EXECUTION_ERROR", "BRIDGE_PROCESS",
          "BRIDGE_TIMEOUT", "BRIDGE_CANCELLED", "OUTPUT_TOO_LARGE", "INVALID_JSON",
          "BRIDGE_EXIT", "LIMIT_EXCEEDED", "REQUEST_FAILED"}

\* A call's result is its data or the code of an error.
NotCalled == [state |-> "none", turn |-> 0, result |-> "none"]
Answer(c, result) == call' = [call EXCEPT ![c] = [state |-> "answered", turn |-> turn, result |-> result]]

NoProcess == [state |-> "none", tool |-> "none", output |-> "none",
              timedOut |-> FALSE, cancelled |-> FALSE, tooLarge |-> FALSE]

Running(c) == process[c].state \in {"running", "terminated"}

HarnessInit ==
    /\ turn = 1 /\ callsMade = 0 /\ aborted = FALSE
    /\ call = [c \in ToolCalls |-> NotCalled]
    /\ process = [c \in ToolCalls |-> NoProcess]

-----------------------------------------------------------------------------
(* Policy.                                                                  *)

\* Mutant: the last call of a turn is not counted.
PermittedOnceMore(tool, made) ==
    /\ tool \in DOMAIN ToolLimit /\ tool \in AllowedTools
    /\ made <= MaxCallsPerTurn /\ made <= ToolLimit[tool]

\* ToolRegistry.decide: a registered and allowed tool, and few enough calls
\* before it in the turn, of this tool or any other.
Permitted(tool, made) ==
    /\ tool \in DOMAIN ToolLimit /\ tool \in AllowedTools
    /\ made < MaxCallsPerTurn /\ made < ToolLimit[tool]

\* The execute of makePiTool and executeThroughPolicy, up to the first await:
\* the call is counted whatever becomes of it, and its process is started.
CallTool(c, tool, valid, starts) ==
    /\ call[c] = NotCalled
    /\ callsMade' = callsMade + 1
    /\ CASE ~Permitted(tool, callsMade) ->
              Answer(c, "TOOL_DENIED") /\ UNCHANGED process
         [] Permitted(tool, callsMade) /\ ~valid ->
              Answer(c, "INVALID_ARGUMENTS") /\ UNCHANGED process
         [] Permitted(tool, callsMade) /\ valid /\ aborted ->
              Answer(c, "TOOL_EXECUTION_ERROR") /\ UNCHANGED process
         [] Permitted(tool, callsMade) /\ valid /\ ~aborted /\ ~starts ->
              Answer(c, "BRIDGE_PROCESS") /\ UNCHANGED process
         [] OTHER ->
              /\ call' = [call EXCEPT ![c].state = "waiting", ![c].turn = turn]
              /\ process' = [process EXCEPT ![c].state = "running", ![c].tool = tool]
    /\ UNCHANGED <<turn, aborted>>

\* turn_start, once the calls of the turn before it were answered.
StartTurn ==
    /\ turn < MaxTurns /\ \A c \in ToolCalls : call[c].state # "waiting"
    /\ turn' = turn + 1 /\ callsMade' = 0
    /\ UNCHANGED <<call, process, aborted>>

-----------------------------------------------------------------------------
(* What ends a process.                                                     *)

\* terminateChild: SIGTERM, once.
Terminated(x) == IF x.state = "running" THEN [x EXCEPT !.state = "terminated"] ELSE x

\* The timer is cleared only after the process has closed.
TimeOut(c) ==
    /\ call[c].state = "waiting" /\ ~process[c].timedOut
    /\ process' = [process EXCEPT ![c] = [Terminated(@) EXCEPT !.timedOut = TRUE]]
    /\ UNCHANGED <<turn, callsMade, call, aborted>>

\* Every call in progress listens to the session's signal.
Abort ==
    /\ ~aborted /\ aborted' = TRUE
    /\ process' = [c \in ToolCalls |->
                      IF call[c].state = "waiting"
                      THEN [Terminated(process[c]) EXCEPT !.cancelled = TRUE]
                      ELSE process[c]]
    /\ UNCHANGED <<turn, callsMade, call>>

\* What the process answers: _validate_request and handle_request never raise,
\* and _encode_response replaces a response that is too long.
Response(accepted, size) ==
    CASE ~accepted                       -> "REQUEST_FAILED"
      [] accepted /\ size > MaxResponse  -> "LIMIT_EXCEEDED"
      [] accepted /\ size <= MaxResponse -> "data"

\* The process writes its response and exits, unless it is terminated for
\* having written more than the bridge takes.
Respond(c, accepted, size) ==
    /\ Running(c) /\ process[c].output = "none" /\ ~process[c].tooLarge
    /\ LET response == Response(accepted, size) IN
          process' = [process EXCEPT ![c] =
                         IF response = "data" /\ size > MaxOutput
                         THEN [Terminated(@) EXCEPT !.tooLarge = TRUE]
                         ELSE [@ EXCEPT !.output = response, !.state = "closed"]]
    /\ UNCHANGED <<turn, callsMade, call, aborted>>

\* It ends by itself without a response, or with one and an error's exit code.
Crash(c) ==
    /\ Running(c)
    /\ \E output \in {"INVALID_JSON", "BRIDGE_EXIT"} :
          process' = [process EXCEPT ![c].state = "closed", ![c].output = output]
    /\ UNCHANGED <<turn, callsMade, call, aborted>>

\* A terminated process ends, or ignores SIGTERM and is killed a little later.
ObeyTerm(c) ==
    /\ process[c].state = "terminated"
    /\ process' = [process EXCEPT ![c].state = "closed", ![c].output = "INVALID_JSON"]
    /\ UNCHANGED <<turn, callsMade, call, aborted>>

\* Mutant: the process is killed only if it was given time and has not spoken.
KillableUnlessHeard(x) == x.state = "terminated" /\ ~x.tooLarge

Killable(x) == x.state = "terminated"

Kill(c) ==
    /\ Killable(process[c])
    /\ process' = [process EXCEPT ![c].state = "closed", ![c].output = "INVALID_JSON"]
    /\ UNCHANGED <<turn, callsMade, call, aborted>>

\* What the call is answered once its process has closed.
Outcome(x) ==
    CASE x.timedOut                                   -> "BRIDGE_TIMEOUT"
      [] ~x.timedOut /\ x.cancelled                   -> "BRIDGE_CANCELLED"
      [] ~x.timedOut /\ ~x.cancelled /\ x.tooLarge    -> "OUTPUT_TOO_LARGE"
      [] OTHER                                        -> x.output

Settle(c) ==
    /\ call[c].state = "waiting" /\ process[c].state = "closed"
    /\ call' = [call EXCEPT ![c].state = "answered", ![c].result = Outcome(process[c])]
    /\ UNCHANGED <<turn, callsMade, process, aborted>>

HarnessNext ==
    \/ \E c \in ToolCalls, tool \in Tools, valid, starts \in BOOLEAN : CallTool(c, tool, valid, starts)
    \/ StartTurn \/ Abort
    \/ \E c \in ToolCalls, accepted \in BOOLEAN, size \in Sizes : Respond(c, accepted, size)
    \/ \E c \in ToolCalls : TimeOut(c) \/ Crash(c) \/ ObeyTerm(c) \/ Kill(c) \/ Settle(c)

\* Timers fire, SIGKILL cannot be ignored, a closed process is noticed.
HarnessFairness ==
    \A c \in ToolCalls : WF_harnessVars(TimeOut(c)) /\ WF_harnessVars(Kill(c)) /\ WF_harnessVars(Settle(c))

HarnessSpec == HarnessInit /\ [][HarnessNext]_harnessVars /\ HarnessFairness

-----------------------------------------------------------------------------
(* Properties.                                                              *)

HarnessTypeOK ==
    /\ turn \in 1..MaxTurns /\ callsMade \in Nat /\ aborted \in BOOLEAN
    /\ call \in [ToolCalls -> [state : {"none", "waiting", "answered"}, turn : 0..MaxTurns,
                               result : Codes \cup {"none", "data"}]]
    /\ process \in [ToolCalls -> [state : {"none", "running", "terminated", "closed"},
                                  tool : Tools \cup {"none"}, output : Codes \cup {"none", "data"},
                                  timedOut : BOOLEAN, cancelled : BOOLEAN, tooLarge : BOOLEAN]]

Started(t) == {c \in ToolCalls : process[c].state # "none" /\ call[c].turn = t}

\* However many calls the agent makes at once: in a turn no more processes are
\* started than the session allows, nor of a tool than the tool allows; none of
\* them outlives its call; and data reaches the agent only from a process that
\* ended in time, before any abort and within the limit.
ToolCallsAreContained ==
    /\ \A t \in 1..turn :
          /\ Cardinality(Started(t)) <= MaxCallsPerTurn
          /\ \A tool \in AllowedTools :
                tool \in DOMAIN ToolLimit =>
                    Cardinality({c \in Started(t) : process[c].tool = tool}) <= ToolLimit[tool]
    /\ \A c \in ToolCalls :
          /\ call[c].state = "answered" => ~Running(c)
          /\ call[c].result = "data" =>
                ~process[c].timedOut /\ ~process[c].cancelled /\ ~process[c].tooLarge

\* Every call is answered, even if its process hangs and ignores SIGTERM: a turn
\* does not wait for its tools for ever.
ToolCallsEnd ==
    (\E c \in ToolCalls : call[c].state = "waiting") ~> (\A c \in ToolCalls : call[c].state # "waiting")
==============================================================================
