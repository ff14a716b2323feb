--------------------------- MODULE MCToolServers ---------------------------
(* Setups with the names, kinds and options that the properties tell apart. *)
EXTENDS ToolServers

t == <<"t">>
u == <<"u">>
Ref(name, kind, offers, exclude, children) ==
  [name |-> name, kind |-> kind, offers |-> offers, include |-> {}, exclude |-> exclude, children |-> children,
   behind |-> "nothing", heeds |-> FALSE]
Behind(ref, behind_, heeds) == [ref EXCEPT !.behind = behind_, !.heeds = heeds]
A == Ref(<<"a">>, "command", <<t, u>>, {u}, 0)
B == Behind([Ref(<<"b">>, "command", <<t, u>>, {}, 0) EXCEPT !.include = {t}], "attached", TRUE)
Dotted == Ref(<<"a", "b">>, "command", <<t>>, {}, 0)
Tricky == Behind(Ref(<<"c">>, "command", <<<<"a", "u">>>>, {}, 0), "detached", TRUE)
Agent == Ref(<<"d">>, "agent", <<t>>, {}, 1)
Agents == {Agent, Behind(Agent, "attached", TRUE), Behind(Agent, "attached", FALSE), Behind(Agent, "detached", FALSE)}
Palette == Behind(Ref(<<"palette">>, "palette", << >>, {}, 0), "detached", FALSE)

Chat(refseq, namespacing) ==
  [refs |-> refseq, namespacing |-> namespacing, serve |-> FALSE, sandbox |-> FALSE,
   parallel |-> FALSE, ownIgnore |-> FALSE, timeout |-> TRUE]

\* What may run behind the servers: launchers whose server heeds the end of its
\* input or not, and containers that do or do not.
MCSetups ==
  {Chat(r, n) : r \in {<<A, B>>, <<A, A>>, <<Dotted, A>>, <<Tricky, A>>}, n \in {"auto", "always", "never"}}
  \cup {Chat(<<B, Behind(A, "attached", FALSE)>>, "auto")}
  \cup {Chat(<<Palette, B, Agent>>, "auto"), [Chat(<<Palette, B>>, "auto") EXCEPT !.timeout = FALSE]}
  \cup {Chat(<<g>>, "auto") : g \in Agents}
  \cup {[Chat(<<g>>, "auto") EXCEPT !.parallel = TRUE, !.serve = TRUE] : g \in {Agent, Behind(Agent, "attached", FALSE)}}
  \cup {[Chat(r, "auto") EXCEPT !.serve = TRUE, !.parallel = TRUE, !.sandbox = TRUE, !.ownIgnore = Len(r) = 2] :
           r \in {<<Agent, Behind(Tricky, "detached", TRUE)>>, <<Behind(Tricky, "detached", FALSE)>>}}

MCParts == {"a", "b", "c", "d", "t", "u", "palette"} \cup PaletteParts
MCNames == {t, u, <<"a", "u">>, <<"palette", "palette_table">>}
=============================================================================
