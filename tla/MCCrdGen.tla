------------------------------ MODULE MCCrdGen ------------------------------
(* Documents with a definition A, which may hold a definition B and refer to *)
(* itself, used from two places; and, in turn, every kind of options.        *)
EXTENDS CrdGen

MCRef(tokens) == Node([ref |-> tokens])
MCRefs == <<MCRef(<<"#", "$defs", "A">>), MCRef(<<"#", "definitions", "A">>),
           MCRef(<<"#", "$defs", "A", "$defs", "B">>), MCRef(<<"#", "$defs", "B">>),
           Node([dynamicRef |-> <<"anchor", "n">>]), Node([recursiveRef |-> <<"#">>])>>
MCString == Node([types |-> <<"string">>])
MCObject(props) == Node([types |-> <<"object">>, props |-> props])
MCMap(node) == Node([additional |-> "schema", values |-> <<node>>])

\* Nodes built around another one.
MCComposite(n) ==
  LET x == MCObject([x |-> n])
      xz == MCObject([x |-> MCObject([z |-> MCString])])
      y == MCObject([y |-> n])
  IN <<x, MCMap(n),
      Node([types |-> <<"array", "null">>, items |-> <<n>>, keywords |-> {"uniqueItems", "maxItems"}]),
      [x EXCEPT !.additional = "schema", !.values = <<xz>>],
      [x EXCEPT !.pattern = [p |-> xz], !.unevaluated = "false"],
      [MCMap(n) EXCEPT !.pattern = [p |-> xz]],
      [x EXCEPT !.preserve = TRUE, !.anchor = "n"],
      Node([allOf |-> <<x, y>>, types |-> <<"object">>]),
      [x EXCEPT !.allOf = <<xz>>], [x EXCEPT !.allOf = <<MCMap(xz), MCString>>],
      Node([allOf |-> <<n, MCMap(xz)>>, props |-> [y |-> MCString]]),
      Node([anyOf |-> <<n, xz>>]), [x EXCEPT !.oneOf = <<xz, y>>], [y EXCEPT !.anyOf = <<xz>>, !.oneOf = <<x>>],
      [x EXCEPT !.anyOf = <<Node([required |-> {"x"}]), Node([required |-> {"y"}])>>],
      Node([anyOf |-> <<Node([required |-> {"x"}])>>])>>

\* Leaves and conditions.
MCPlain ==
  LET x == MCObject([x |-> MCString])
      xv == Node([props |-> [x |-> Node([const |-> <<"string">>])]])
  IN <<MCString, Boolean(TRUE), Boolean(FALSE), Node([intOrString |-> TRUE, keywords |-> {"title"}]),
      Node([types |-> <<"string">>, enum |-> <<"string", "null">>, not |-> <<Node([const |-> <<"string">>])>>]),
      Node([const |-> <<"object">>]), Node([enum |-> <<"null">>]), Node([prefix |-> <<MCString>>]),
      Node([additional |-> "false"]), [x EXCEPT !.additional = "true", !.unevaluated = "true"],
      Node([types |-> <<"array">>, items |-> <<MCString>>, keywords |-> {"uniqueItems"}]),
      [x EXCEPT !.dependentRequired = [x |-> {"y"}]],
      [x EXCEPT !.dependentRequired = [x |-> {"x"}], !.unevaluated = "schema"],
      [x EXCEPT !.cond = <<xv>>, !.then = <<Node([required |-> {"x"}])>>, !.else = <<Node([required |-> {"x-y"}])>>],
      Node([cond |-> <<xv>>, then |-> <<xv>>]),
      MCObject([x |-> [MCString EXCEPT !.anchor = "m"], y |-> [x EXCEPT !.dynamicAnchor = "m"],
                z |-> Node([dynamicRef |-> <<"anchor", "m">>])])>>

MCSelf == MCRef(<<"#", "$defs", "A">>)
MCBase ==
  MCComposite(MCSelf) \o MCComposite(MCRef(<<"#", "definitions", "A">>)) \o MCComposite(MCString)
    \o MCComposite(MCRef(<<"#", "$defs", "A", "$defs", "B">>)) \o MCComposite(MCRef(<<"#", "$defs", "B">>))
    \o MCComposite(Node([dynamicRef |-> <<"anchor", "n">>])) \o MCComposite(Node([recursiveRef |-> <<"#">>])) \o MCRefs
MCInner == MCComposite(MCSelf) \o MCRefs
MCStatus == <<<<>>, <<MCString>>, <<MCMap(MCString)>>, <<MCObject([x |-> MCString])>>>>
MCVersions == <<<<"1", "-", "-", "A">>, <<"-", "a", "-">>, <<"-", "-">>>>

MCRoot(a, defs) ==
  Node([types |-> <<"object">>, props |-> [a |-> a, b |-> MCSelf]] @@ defs)
MCWithB(node) == [node EXCEPT !.defs = <<[B |-> Node([types |-> <<"object">>, props |-> [w |-> MCString], anchor |-> "n"])]>>]
MCSpec(a, z) == MCRoot(a, [defs |-> <<[A |-> MCWithB(z)]>>])
MCOldSpec(a, z) == MCRoot(a, [definitions |-> <<[A |-> MCWithB(z), B |-> MCString]>>])
MCOpts(spec) == [spec |-> spec, status |-> <<>>, managed |-> FALSE, version |-> <<"v", "1">>]

MCCalls ==
  ({"defs"} \X (DOMAIN MCRefs) \X (DOMAIN MCBase)) \cup ({"plain"} \X (DOMAIN MCPlain))
    \cup ({"definitions"} \X (DOMAIN MCInner) \X (DOMAIN MCComposite(MCSelf)))
    \cup ({"status"} \X BOOLEAN \X (DOMAIN MCStatus) \X (DOMAIN MCVersions))
MCOptions(c) ==
  CASE c[1] = "defs" -> MCOpts(MCSpec(MCRefs[c[2]], MCBase[c[3]]))
    [] c[1] = "plain" -> MCOpts(MCSpec(MCPlain[c[2]], MCMap(MCPlain[c[2]])))
    [] c[1] = "definitions" -> MCOpts(MCOldSpec(MCInner[c[2]], MCComposite(MCSelf)[c[3]]))
    [] c[1] = "status" ->
         [MCOpts(MCString) EXCEPT !.managed = c[2], !.status = MCStatus[c[3]], !.version = MCVersions[c[4]]]
=============================================================================
