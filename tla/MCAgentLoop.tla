---------------------------- MODULE MCAgentLoop ----------------------------
EXTENDS AgentLoop

R(stop, text, tools) == [stop |-> stop, text |-> text, tools |-> tools]

\* An answer, a plan, a plan drafted with and without its critique, two tools
\* at once, and the responses the loops guard against: nothing at all, a
\* tool_use stop with no tool_use block, a tool call cut off by max_tokens.
MCResponses ==
    { R("end_turn", "plain", <<>>),
      R("end_turn", "plan", <<>>),
      R("end_turn", "none", <<>>),
      R("tool_use", "plain", <<CritiqueTool>>),
      R("tool_use", "none", <<"other_tool", "other_tool">>),
      R("tool_use", "plain", <<>>),
      R("max_tokens", "plan", <<"other_tool">>) }
=============================================================================
