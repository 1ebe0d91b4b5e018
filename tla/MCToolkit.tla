------------------------------ MODULE MCToolkit -----------------------------
(* Parts of the library that share no state: a behaviour is one of theirs. *)
EXTENDS DiscoveryEvents, DepGraph, ShortID, MCCrdGen, Cors

VARIABLE part

toolkitVars == <<part, allVars, graphVars, shortidVars, gen, corsVars>>

-----------------------------------------------------------------------------
(* Values of the constants *)

ResourceSymmetry == Permutations(Resources)

MCWorker == <<0, 1>>
MCABC == <<"a", "b", "c", "d">>

MCCors(origins, headers, methods, credentials) ==
  [origins |-> origins, func |-> FALSE, headers |-> headers, methods |-> methods,
   credentials |-> credentials, passthrough |-> FALSE]
MCPatterns == {{}, {All}, {<<"a", "B">>}, {<<"a", "*", "b">>, <<"b">>}, {<<"a", "b", "*", "b", "a">>}}
MCCorsOptions ==
  {MCCors(origins, {<<"a", "-", "B">>, <<"b">>}, {}, credentials) : origins \in MCPatterns, credentials \in BOOLEAN}
    \cup {MCCors({<<"a", "*">>}, headers, methods, TRUE) :
            headers \in {{}, {All}, {<<"a", "-", "B">>}}, methods \in {{}, {"GET", "patch"}, {"PUT"}}}
    \cup {[MCCors({<<"a">>}, {}, {"PUT"}, FALSE) EXCEPT !.func = TRUE, !.passthrough = p] : p \in BOOLEAN}
MCPages ==
  [origin : {<<"a", "b">>, <<"a", "b", "a">>, <<"A", "a", "b">>}, method : {"GET", "PUT", "PATCH", "patch"},
   headers : {<<>>, <<<<"c">>>>, <<<<"a", "-", "b">>, <<"b">>>>}, credentials : BOOLEAN]
MCChains == {<<"trace", "cors", "user">>, <<"user", "cors">>}
MCTrusted == {{<<"a", "b">>}, {<<"a", "b">>, <<"A", "a", "b">>}}

-----------------------------------------------------------------------------
ToolkitInit ==
  /\ part \in {"discovery", "deps", "shortid", "crd", "cors"}
  /\ DInit /\ GraphInit /\ ShortidInit /\ GenInit /\ CorsInit
  /\ part # "discovery" => server = Nothing
  /\ part # "shortid" => clock = 0
  /\ part # "cors" => trusted = {<<"a", "b">>}

Only(p, self, others) == part = p /\ UNCHANGED <<part, others>> /\ self

\* Contexts of publications end only while not too much has changed.
MaxChurnWithTimeouts == 2
DStep == DNext /\ (churn' > MaxChurnWithTimeouts => \A p \in Publications : ~ctxDone'[p])

ToolkitNext ==
  \/ Only("discovery", DStep, <<graphVars, shortidVars, gen, corsVars>>)
  \/ Only("deps", GraphNext, <<allVars, shortidVars, gen, corsVars>>)
  \/ Only("shortid", ShortidNext, <<allVars, graphVars, gen, corsVars>>)
  \/ Only("crd", GenNext, <<allVars, graphVars, shortidVars, corsVars>>)
  \/ Only("cors", CorsNext, <<allVars, graphVars, shortidVars, gen>>)

ToolkitSpec == ToolkitInit /\ [][ToolkitNext]_toolkitVars
=============================================================================
