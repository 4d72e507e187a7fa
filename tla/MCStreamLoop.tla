---------------------------- MODULE MCStreamLoop ----------------------------
EXTENDS StreamLoop

R(stop, text, tools) == [stop |-> stop, text |-> text, tools |-> tools]

\* An answer, a plan, nothing, blank text before a tool, two tools at once, one
\* tool, and what breaks the protocol: a tool_use stop without a tool_use block,
\* a tool call cut off by max_tokens.
MCResponses ==
    { R("end_turn", "plain", <<>>),
      R("end_turn", "plan", <<>>),
      R("end_turn", "none", <<>>),
      R("tool_use", "blank", <<CritiqueTool>>),
      R("tool_use", "plain", <<"other_tool", "other_tool">>),
      R("tool_use", "plain", <<>>),
      R("max_tokens", "plain", <<"other_tool">>) }

\* The responses of a model that keeps to the protocol.
MCConformingResponses == {r \in MCResponses : r.stop = "tool_use" <=> r.tools # <<>>}
=============================================================================
