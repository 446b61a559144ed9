----------------------------- MODULE MCRoundTrip -----------------------------
(***************************************************************************)
(* Client and server for TLC.                                              *)
(***************************************************************************)
EXTENDS RoundTrip, TLC

CONSTANTS c1, c2

Setting(after, before, env) == [after |-> after, before |-> before, env |-> env]

\* A flag after the name of the tool.
Flag(v) == Setting(v, "", "")

Call(tool, host, token) ==
  [args |-> "good", tool |-> tool, host |-> host, token |-> token, big |-> FALSE]

ToolCall == Call("list", Flag("server"), Flag("good"))

\* Settings that hide each other.
HiddenCall == Call("version", Setting("", "elsewhere", "server"), Setting("good", "wrong", "wrong"))

\* A call that reaches the server, one that is too long for it, and calls that do not
\* reach it.
Calls ==
  {HiddenCall, [ToolCall EXCEPT !.big = TRUE]}
    \cup {[call EXCEPT !.host = h] : call \in {ToolCall, HiddenCall},
            h \in {Setting(NotGiven, "", "elsewhere"), Flag("invalid"), Flag(""), Flag(NotGiven)}}
    \cup {[call EXCEPT !.token = Setting("", "good", "")] : call \in {ToolCall, HiddenCall}}
    \cup {[ToolCall EXCEPT !.args = "help"], [ToolCall EXCEPT !.args = "bad"],
          [ToolCall EXCEPT !.tool = "unknown"], [ToolCall EXCEPT !.tool = "help"]}

\* The second client calls a tool and takes the only slot.
MCInvocations == c1 :> Calls @@ c2 :> {ToolCall}

\* Both run a tool.
ToolCalls == c1 :> {ToolCall} @@ c2 :> {ToolCall}
=============================================================================
