------------------------------- MODULE CrdGen -------------------------------
(* crdgen.Generate: a JSON schema becomes the structural schema of a CRD.   *)
(* References are inlined and cut where they recur, what a structural       *)
(* schema cannot say is widened, and the API server's validation is the     *)
(* last gate.                                                               *)
(*                                                                          *)
(* A schema node is a record with the keywords of schemas.Type; an optional *)
(* value is a sequence of at most one, a map a function, a pointer the      *)
(* sequence of its tokens. A JSON value is its kind, a generated CEL rule   *)
(* the set of fields it reads. Keywords that are copied as they are go by   *)
(* their names; descriptions and warnings, which nothing returns, are left  *)
(* out.                                                                     *)
EXTENDS Naturals, Sequences, FiniteSets, SequencesExt, TLC

CONSTANTS
  Calls,          \* names of calls
  Options(_),     \* their options: [spec, status, managed, version]
  CelIdents,      \* the names a CEL expression can spell
  Depth           \* how deep the declared fields are followed

VARIABLE gen      \* the call of Generate: its options, progress and result

-----------------------------------------------------------------------------
(* Schemas *)

Node(keywords) == keywords @@
  [ref |-> <<>>, dynamicRef |-> <<>>, recursiveRef |-> <<>>, anchor |-> "", dynamicAnchor |-> "",
   defs |-> <<>>, definitions |-> <<>>, types |-> <<>>, props |-> <<>>, pattern |-> <<>>,
   additional |-> "absent", values |-> <<>>, items |-> <<>>, additionalItems |-> <<>>, prefix |-> <<>>, required |-> {},
   allOf |-> <<>>, anyOf |-> <<>>, oneOf |-> <<>>, not |-> <<>>, cond |-> <<>>, then |-> <<>>,
   else |-> <<>>, const |-> <<>>, enum |-> <<>>, dependentRequired |-> <<>>,
   unevaluated |-> "absent", nullable |-> FALSE, intOrString |-> FALSE, preserve |-> FALSE,
   keywords |-> {}]

\* The boolean schemas, and the older spelling of $defs.
Boolean(b) == IF b THEN Node(<<>>) ELSE Node([not |-> <<Node(<<>>)>>])
Definitions(node) == IF node.defs \o node.definitions = <<>> THEN <<>> ELSE Head(node.defs \o node.definitions)

\* The nodes right below a node, each with the tokens that lead to it, in the
\* order of the walk; a Go map is walked in either direction.
Keyed(token, map, up) ==
  LET keys == SetToSeq(DOMAIN map)
      entries == [i \in DOMAIN keys |-> <<token \o <<keys[i]>>, map[keys[i]]>>]
  IN IF up THEN entries ELSE Reverse(entries)
Indexed(token, nodes) == [i \in DOMAIN nodes |-> <<<<token, ToString(i)>>, nodes[i]>>]
Single(token, node) == [i \in DOMAIN node |-> <<<<token>>, node[i]>>]
Children(node, up) ==
  Keyed(<<"properties">>, node.props, up) \o Keyed(<<"patternProperties">>, node.pattern, up)
    \o Single("items", node.items) \o Single("additionalItems", node.additionalItems)
    \o Single("additionalProperties", node.values)
    \o Indexed("allOf", node.allOf) \o Indexed("anyOf", node.anyOf) \o Indexed("oneOf", node.oneOf)
    \o Single("not", node.not)

\* The first node met under a pointer keeps it.
RECURSIVE indexRefs(_, _, _)
indexEach(entries, base, up) ==
  FoldLeft(LAMBDA refs, e : refs @@ indexRefs(e[2], base \o e[1], up), <<>>, entries)
indexDefsFlat(defs, base, up) ==
  FoldLeft(LAMBDA refs, e : refs @@ (<<"#">> \o e[1] :> e[2]) @@ indexRefs(e[2], <<"#">>, up),
           <<>>, Keyed(<<"$defs">>, defs, up))
indexDefs(defs, base, up) ==
  FoldLeft(LAMBDA refs, e : refs @@ (base \o e[1] :> e[2]) @@ indexRefs(e[2], base \o e[1], up),
           <<>>, Keyed(<<"$defs">>, defs, up))
indexAnchor(name, node) == IF name = "" THEN <<>> ELSE <<"anchor", name>> :> node
indexRefs(node, base, up) ==
  indexAnchor(node.anchor, node) @@ indexAnchor(node.dynamicAnchor, node)
    @@ indexDefs(Definitions(node), base, up) @@ indexEach(Children(node, up), base, up)
collectRefs(schema, up) ==
  indexDefs(Definitions(schema), <<"#">>, up)
    @@ indexRefs([schema EXCEPT !.defs = <<>>, !.definitions = <<>>], <<"#">>, up)

normalizeRefPointer(ref) ==
  [i \in DOMAIN ref |-> IF ref[i] = "definitions" /\ i \in 2 .. Len(ref) - 1 THEN "$defs" ELSE ref[i]]
Reference(node) ==
  LET refs == SelectSeq(<<node.ref, node.dynamicRef, node.recursiveRef>>, LAMBDA r : r # <<>>)
  IN IF refs = <<>> THEN <<>> ELSE normalizeRefPointer(refs[1])

-----------------------------------------------------------------------------
(* Structural schemas *)

Empty ==
  [type |-> "", preserve |-> FALSE, props |-> <<>>, required |-> {}, values |-> <<>>, items |-> <<>>,
   union |-> <<>>, enum |-> <<>>, nullable |-> FALSE, intOrString |-> FALSE, keywords |-> {},
   rules |-> {}]
openObject == [Empty EXCEPT !.type = "object", !.preserve = TRUE]
OfType(type) == [Empty EXCEPT !.type = type]

Scalars == {"string", "integer", "number", "boolean"}
ScalarKeywords == {"format", "pattern", "minimum", "maximum", "multipleOf", "minLength", "maxLength"}
ArrayKeywords == {"minItems", "maxItems"}
CommonKeywords ==
  {"title", "default", "example", "embeddedResource", "listType", "listMapKeys", "mapType", "validations"}
Copied(out, node, names) == [out EXCEPT !.keywords = @ \cup (node.keywords \cap names)]

NotNull(types) == SelectSeq(types, LAMBDA t : t # "null")
primaryType(types) == IF NotNull(types) = <<>> THEN "" ELSE NotNull(types)[1]

jsonKindType(kind) == IF kind = "null" THEN "" ELSE kind
inferType(node) ==
  IF node.const # <<>> THEN jsonKindType(node.const[1])
  ELSE IF node.enum # <<>> THEN jsonKindType(node.enum[1])
  ELSE IF DOMAIN node.props # {} \/ node.additional # "absent" \/ DOMAIN node.pattern # {} THEN "object"
  ELSE IF node.items # <<>> \/ node.prefix # <<>> THEN "array"
  ELSE IF \/ DOMAIN node.dependentRequired # {} \/ node.cond # <<>>
          \/ "dependentSchemas" \in node.keywords \/ node.unevaluated # "absent"
       THEN "object" ELSE ""

copyEnum(out, node) ==
  IF out.type \in {"", "object"} THEN out ELSE [out EXCEPT !.enum = @ \o node.enum]
copyConst(out, node) == IF node.const = <<>> THEN out ELSE [out EXCEPT !.enum = node.const]

isScalarItems(out) == out.items # <<>> /\ out.items[1].type \in Scalars
applyUniqueItems(out, node) ==
  IF "uniqueItems" \notin node.keywords \/ "listType" \in node.keywords THEN out
  ELSE IF isScalarItems(out) THEN [out EXCEPT !.keywords = @ \cup {"listType"}]
  ELSE IF "maxItems" \in out.keywords THEN [out EXCEPT !.rules = @ \cup {{}}] ELSE out
copyArrayValidation(out, node) == applyUniqueItems(Copied(out, node, ArrayKeywords), node)

-----------------------------------------------------------------------------
(* Conditional keywords as CEL rules *)

fieldAllowed(out, name) == out.preserve \/ out.values # <<>> \/ name \in DOMAIN out.props
Usable(out, names) == \A f \in names : f \in CelIdents /\ fieldAllowed(out, f)
Literals(kinds) == \A k \in ToSet(kinds) : k \notin {"object", "array"}
AddRules(out, rules) == [out EXCEPT !.rules = @ \cup rules]

isScalarOnly(node) ==
  /\ DOMAIN node.props = {} /\ node.items = <<>> /\ node.allOf = <<>> /\ node.anyOf = <<>>
  /\ node.oneOf = <<>> /\ node.ref = <<>> /\ node.additional = "absent"
  /\ node.cond = <<>> /\ node.not = <<>>

emitDependentRequired(out, node) ==
  LET dep == node.dependentRequired
      Read(p) == {p} \cup dep[p]
  IN IF out.type # "object" THEN out
     ELSE AddRules(out, {Read(p) : p \in {q \in DOMAIN dep : dep[q] # {} /\ Usable(out, Read(q))}})

emitNot(out, node) ==
  IF /\ node.not # <<>> /\ out.type \in Scalars /\ isScalarOnly(node.not[1])
     /\ \E kinds \in {node.not[1].const, node.not[1].enum} : kinds # <<>> /\ Literals(kinds)
  THEN AddRules(out, {{}}) ELSE out

\* The fields a condition reads, if it can be put into CEL.
celCond(out, s) ==
  LET fields == s.required \cup DOMAIN s.props
      Tested(p) == IF p.const # <<>> THEN p.const ELSE p.enum
  IN IF /\ s.types \in {<<>>, <<"object">>} /\ isScalarOnly([s EXCEPT !.props = <<>>])
        /\ Literals(s.const) /\ Usable(out, fields)
        /\ \A k \in DOMAIN s.props : Literals(Tested(s.props[k]))
        /\ s.const # <<>> \/ fields # {}
     THEN {fields} ELSE {}
emitIfThenElse(out, node) ==
  IF node.cond = <<>> \/ out.type # "object" THEN out
  ELSE AddRules(out, {if \cup so : if \in celCond(out, node.cond[1]),
                                   so \in UNION {celCond(out, s) : s \in ToSet(node.then \o node.else)}})

handleUnsupported(out, node) ==
  [out EXCEPT !.preserve = @ \/ /\ out.type = "object" /\ out.values = <<>>
                                /\ DOMAIN node.pattern # {} \/ node.unevaluated \in {"true", "schema"}]

-----------------------------------------------------------------------------
(* The transpiler. stack holds the pointers that are being inlined. *)

RECURSIVE transpile(_, _, _)

fillObjectBoth(out, node, refs, stack) ==
  [out EXCEPT !.type = "object",
              !.props = [k \in DOMAIN node.props |-> transpile(node.props[k], refs, stack)],
              !.required = node.required,
              !.values = [i \in DOMAIN node.values |-> transpile(node.values[i], refs, stack)],
              !.preserve = node.additional = "true"]
fillObject(out, node, refs, stack) ==
  LET map == node.additional = "schema" /\ DOMAIN node.props = {}
  IN [out EXCEPT !.type = "object",
                 !.props = [k \in DOMAIN node.props |-> transpile(node.props[k], refs, stack)],
                 !.required = node.required,
                 !.values = IF map THEN <<transpile(node.values[1], refs, stack)>> ELSE <<>>,
                 !.preserve = node.additional = "true" \/ (node.additional = "schema" /\ ~map)]

transpileAllOf(node, refs, stack) ==
  LET parts == <<[node EXCEPT !.allOf = <<>>]>> \o node.allOf
      subs == [i \in DOMAIN parts |-> transpile(parts[i], refs, stack)]
      objects == SelectSeq(subs, LAMBDA s : s.type \in {"", "object"})
      props == FoldLeft(LAMBDA merged, s : s.props @@ merged, <<>>, objects)
  IN [OfType("object") EXCEPT
        !.props = props, !.required = UNION {s.required : s \in ToSet(objects)},
        !.preserve = \/ Len(objects) < Len(subs) \/ DOMAIN props = {}
                     \/ \E s \in ToSet(objects) : s.preserve]

\* anyOf hides oneOf.
Members(node) == IF node.anyOf # <<>> THEN node.anyOf ELSE node.oneOf
constraintOnly(m) ==
  /\ m.types = <<>> /\ DOMAIN m.props = {} /\ m.items = <<>> /\ m.ref = <<>> /\ m.allOf = <<>>
  /\ m.anyOf = <<>> /\ m.oneOf = <<>> /\ m.additional = "absent"
Divergent(node) == \E m \in ToSet(Members(node)) : ~constraintOnly(m)
attachUnionNarrow(out, node, refs, stack) ==
  IF Divergent(node) THEN [out EXCEPT !.type = IF @ = "" THEN "object" ELSE @]
  ELSE [out EXCEPT !.union = [i \in DOMAIN Members(node) |-> transpile(Members(node)[i], refs, stack)]]
attachUnion(out, node, refs, stack) ==
  IF ~Divergent(node)
  THEN [out EXCEPT !.union = [i \in DOMAIN Members(node) |-> transpile(Members(node)[i], refs, stack)]]
  ELSE IF out.type \in {"", "object"} THEN [out EXCEPT !.type = "object", !.preserve = TRUE] ELSE out

\* What follows the switch on the type.
Refined(out, node, refs, stack) ==
  LET valued == copyConst(Copied(copyEnum(out, node), node, CommonKeywords), node)
      united == IF Members(node) = <<>> THEN valued ELSE attachUnion(valued, node, refs, stack)
  IN handleUnsupported(emitIfThenElse(emitNot(emitDependentRequired(united, node), node), node), node)

transpileTyped(node, refs, stack) ==
  LET typ == IF primaryType(node.types) # "" THEN primaryType(node.types) ELSE inferType(node)
      out == [Empty EXCEPT !.nullable = node.nullable \/ "null" \in ToSet(node.types)]
      items == IF node.items = <<>> THEN openObject ELSE transpile(node.items[1], refs, stack)
      R(o) == Refined(o, node, refs, stack)
  IN IF DOMAIN node.props # {} \/ node.additional = "schema" THEN R(fillObject(out, node, refs, stack))
     ELSE IF typ = "object"
     THEN R([out EXCEPT !.type = typ, !.preserve = node.additional \in {"true", "absent"}])
     ELSE IF typ = "array"
     THEN R(copyArrayValidation([out EXCEPT !.type = typ, !.items = <<items>>], node))
     ELSE IF typ \in Scalars THEN R(Copied([out EXCEPT !.type = typ], node, ScalarKeywords))
     ELSE IF Divergent(node) THEN R(attachUnion(out, node, refs, stack))
     ELSE openObject

transpile(node, refs, stack) ==
  LET key == Reference(node)
  IN IF key # <<>>
     THEN IF key \in DOMAIN refs \ stack THEN transpile(refs[key], refs, stack \cup {key}) ELSE openObject
     ELSE IF node.allOf # <<>> THEN transpileAllOf(node, refs, stack)
     ELSE IF node.intOrString THEN Copied([Empty EXCEPT !.intOrString = TRUE], node, {"title"})
     ELSE transpileTyped(node, refs, stack)

-----------------------------------------------------------------------------
(* The CRD *)

Strings(names) == [n \in names |-> OfType("string")]
Condition ==
  [OfType("object") EXCEPT !.props = Strings({"lastTransitionTime", "message", "reason", "status", "type"}),
                           !.required = {"lastTransitionTime", "reason", "status", "type"}]
mergeConditionedStatus(status) ==
  IF status.type # "object" THEN status
  ELSE [status EXCEPT !.props = ("conditions" :> [OfType("array") EXCEPT !.items = <<Condition>>]) @@ @]

\* Versions are sequences of characters; "-" stands for all that is no letter
\* or digit.
Lower(c) == IF c = "A" THEN "a" ELSE c
Squeezed(ver) == SelectSeq([i \in DOMAIN ver |-> IF i > 1 /\ ver[i] = "-" /\ ver[i - 1] = "-" THEN "" ELSE Lower(ver[i])],
                           LAMBDA c : c # "")
Trimmed(ver) == SubSeq(ver, IF ver # <<>> /\ ver[1] = "-" THEN 2 ELSE 1,
                       IF ver # <<>> /\ ver[Len(ver)] = "-" THEN Len(ver) - 1 ELSE Len(ver))
normalizeVersion(ver) ==
  LET v == Trimmed(Squeezed(ver)) IN IF v # <<>> /\ v[1] = "1" THEN <<"v">> \o v ELSE v

assembleCRD(version, spec, status) ==
  [version |-> normalizeVersion(version),
   schema |-> [OfType("object") EXCEPT
     !.props = Strings({"apiVersion", "kind"}) @@ [metadata |-> OfType("object"), spec |-> spec, status |-> status]]]

\* The API server's validation: every node is typed and a map or an object, a
\* union only constrains, a CEL rule reads fields the schema knows, and the
\* version is a DNS label that begins with a letter.
RECURSIVE Structural(_)
Structural(s) ==
  /\ s.type # "" \/ s.intOrString
  /\ DOMAIN s.props = {} \/ s.values = <<>>
  /\ s.type = "array" => s.items # <<>>
  /\ \A m \in ToSet(s.union) : m.type = "" /\ ~m.intOrString /\ ~m.preserve /\ ~m.nullable
  /\ \A f \in UNION s.rules : fieldAllowed(s, f)
  /\ \A k \in DOMAIN s.props : Structural(s.props[k])
  /\ \A c \in ToSet(s.values \o s.items) : Structural(c)
LegalVersion(v) == v # <<>> /\ v[1] \in {"a", "v"} /\ v[Len(v)] # "-" /\ ToSet(v) \subseteq {"a", "v", "1", "-"}
validateCRD(crd) == LegalVersion(crd.version) /\ Structural(crd.schema)

Idle == [pc |-> "idle"]
GenInit == gen = Idle

\* status is optional; a schema that does not parse ends the call.
GenerateCRD(opts) == gen.pc = "idle" /\ gen' = opts @@ [pc |-> "spec"]
ParseFails == (gen.pc = "spec" \/ (gen.pc = "status" /\ gen.status # <<>>)) /\ gen' = Idle

TranspileSpec(up) ==
  /\ gen.pc = "spec"
  /\ gen' = [gen EXCEPT !.pc = "status"] @@
       [up |-> up, specProps |-> transpile(gen.spec, collectRefs(gen.spec, up), {})]

TranspileStatus ==
  LET status == IF gen.status = <<>> THEN openObject
                ELSE transpile(gen.status[1], collectRefs(gen.status[1], gen.up), {})
  IN /\ gen.pc = "status"
     /\ gen' = [gen EXCEPT !.pc = "assemble"] @@
          [statusProps |-> IF gen.managed THEN mergeConditionedStatus(status) ELSE status]

Assemble ==
  LET crd == assembleCRD(gen.version, gen.specProps, gen.statusProps)
  IN /\ gen.pc = "assemble"
     /\ gen' = [gen EXCEPT !.pc = IF validateCRD(crd) THEN "generated" ELSE "rejected"] @@ [crd |-> crd]

GenerateReturns == gen.pc \in {"generated", "rejected"} /\ gen' = Idle

GenStep == (\E up \in BOOLEAN : TranspileSpec(up)) \/ TranspileStatus \/ Assemble

GenNext ==
  \/ \E name \in Calls : GenerateCRD(Options(name))
  \/ ParseFails \/ GenStep \/ GenerateReturns
GenSpec == GenInit /\ [][GenNext]_gen

-----------------------------------------------------------------------------
(* What a schema declares, and what a structural schema keeps *)

\* The paths of the fields a schema declares, to a depth of n: by properties,
\* map values (under some other key), pattern properties, list items, and
\* through references, unions and allOf. Without all: less what the
\* transpiler gives up where parts of a schema overlap. That is whatever lies
\* below a key two parts of an allOf, or a node and its union, both declare;
\* map values in an allOf; oneOf beside anyOf; pattern properties of a map;
\* and the unknown fields the schema itself asks to preserve.
OtherKey == "other"
PatternKey == "pattern"
Below(key, paths) == {<<key>>} \cup {<<key>> \o p : p \in paths}
RECURSIVE Declared(_, _, _, _)
DeclaredByParts(node, refs, n, all) ==
  LET parts == <<[node EXCEPT !.allOf = <<>>]>> \o node.allOf
      D == [i \in DOMAIN parts |-> Declared(parts[i], refs, n - 1, all)]
      Clash(i, p) == p[1] = OtherKey \/ (Len(p) > 1 /\ \E j \in DOMAIN parts \ {i} : <<p[1]>> \in D[j])
  IN UNION {{p \in D[i] : all \/ ~Clash(i, p)} : i \in DOMAIN parts}
DeclaredByUnion(node, refs, n, all) ==
  LET members == IF all THEN node.anyOf \o node.oneOf ELSE Members(node)
      paths == UNION {Declared(m, refs, n - 1, all) : m \in ToSet(members)}
  IN IF primaryType(node.types) \notin {"", "object"} THEN {}
     ELSE {p \in paths : all \/ Len(p) = 1 \/ p[1] \notin DOMAIN node.props}
DeclaredHere(node, refs, n, all) ==
  LET D(m) == Declared(m, refs, n - 1, all)
  IN (UNION {Below(k, D(node.props[k])) : k \in DOMAIN node.props})
       \cup (UNION {Below("[]", D(m)) : m \in ToSet(node.items)})
       \cup (UNION {Below(OtherKey, D(m)) : m \in ToSet(node.values)})
       \cup (IF all \/ node.values = <<>>
             THEN UNION {Below(PatternKey, D(node.pattern[k])) : k \in DOMAIN node.pattern} ELSE {})
       \cup (IF all /\ node.preserve THEN {<<OtherKey>>} ELSE {})
Declared(node, refs, n, all) ==
  LET key == Reference(node)
  IN IF n = 0 THEN {}
     ELSE IF key # <<>> THEN IF key \in DOMAIN refs THEN Declared(refs[key], refs, n - 1, all) ELSE {}
     ELSE IF node.allOf # <<>> THEN DeclaredByParts(node, refs, n, all)
     ELSE DeclaredHere(node, refs, n, all) \cup DeclaredByUnion(node, refs, n, all)

\* Pruning keeps the field at a path.
RECURSIVE Kept(_, _)
Kept(s, path) ==
  IF path = <<>> THEN TRUE
  ELSE IF path[1] \in DOMAIN s.props THEN Kept(s.props[path[1]], Tail(path))
  ELSE IF s.values # <<>> /\ path[1] # "[]" THEN Kept(s.values[1], Tail(path))
  ELSE IF s.items # <<>> /\ path[1] = "[]" THEN Kept(s.items[1], Tail(path))
  ELSE s.preserve

KeepsAll(schema, out, all) ==
  \A p \in Declared(schema, collectRefs(schema, gen.up), Depth, all) : Kept(out, p)

\* The nodes of a document, and the anchors it declares twice.
RECURSIVE NodesOf(_)
NodesOf(node) ==
  {node} \cup UNION {NodesOf(e[2]) : e \in ToSet(Children(node, TRUE) \o Keyed(<<>>, Definitions(node), TRUE))}
Documents == {gen.spec} \cup ToSet(gen.status)
Ambiguous(schema) == \E m, n \in NodesOf(schema) :
  m # n /\ ({m.anchor, m.dynamicAnchor} \cap {n.anchor, n.dynamicAnchor}) \ {""} # {}

(* "No silent field drops" (docs/ref-resolution-redesign.md): a field the     *)
(* schema declares at any depth, through references, allOf and unions, is not *)
(* pruned by the CRD generated from it.                                       *)
NoSilentFieldDrops == gen.pc = "generated" => KeepsAll(gen.spec, gen.specProps, TRUE)

(* Every declared field survives pruning, recursive schemas included, except  *)
(* below keys that two parts of an allOf, or a node and its union, both       *)
(* declare, and the other overlaps transpileAllOf and attachUnion drop.       *)
DeclaredFieldsKept == gen.pc = "generated" =>
  /\ KeepsAll(gen.spec, gen.specProps, FALSE)
  /\ \A s \in ToSet(gen.status) : KeepsAll(s, gen.statusProps, FALSE)

(* What transpile emits passes the API server's validation, so Generate does  *)
(* not fail on a schema it could parse: except for a union whose members only *)
(* constrain (attachUnion gives each a type, which the server forbids),       *)
(* conditions merged into a status that is a map, and a version without a     *)
(* letter or digit.                                                           *)
StructuralByConstruction == gen.pc = "rejected" =>
  \/ \E n \in UNION {NodesOf(s) : s \in Documents} : Members(n) # <<>> /\ ~Divergent(n)
  \/ gen.managed /\ gen.statusProps.values # <<>>
  \/ ToSet(gen.version) \subseteq {"-"}

(* "Identical input -> byte-identical CRD" (docs/ref-resolution-redesign.md): *)
(* the result does not depend on the order in which Go walks the maps of the  *)
(* schema, unless an anchor is declared twice: then whichever indexRefs meets *)
(* first is inlined.                                                          *)
GenerateIsDeterministic ==
  (gen.pc \in {"generated", "rejected"} /\ ~Ambiguous(gen.spec)) =>
    gen.specProps = transpile(gen.spec, collectRefs(gen.spec, ~gen.up), {})
=============================================================================
