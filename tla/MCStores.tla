------------------------------ MODULE MCStores ------------------------------
(***************************************************************************)
(* The stores and the script interpreter, which share nothing, checked in  *)
(* one run: each behaviour is one of them at work, the part chosen at the  *)
(* start, or one input of a module without state (MCLaws).                 *)
(***************************************************************************)
EXTENDS Stores, MCLaws

CONSTANTS p1, p2, t1, t2, u1, u2, k1, d1, d2, v1, v2, g1, g2, x, y

(* One thread in each of two processes.                                    *)
McProcOf == (t1 :> p1) @@ (t2 :> p2)
(* The allowlist under both of its spellings, and a token of each thread.  *)
McCfgCalls == {[op |-> "add_url", value |-> u2], [op |-> "update", changes |-> (Urls :> {u1})],
               [op |-> "token", value |-> t1], [op |-> "token", value |-> t2]}
McCfgInitial == {LegacyUrls :> {u1}}
McMapped == v1 :> g1
(* Two versions of a package, and another that shares a command with one.  *)
McManifests == {[name |-> g1, commands |-> (k1 :> d1), urls |-> {u1}],
                [name |-> g1, commands |-> <<>>, urls |-> {u1}],
                [name |-> g2, commands |-> (k1 :> d2), urls |-> {}]}
McFits == {<<Bare, v1>>, <<Bare, v2>>, <<"c", v1>>}
McLinks == [pair \in DocContents \X DocTypes |-> IF pair = <<"c", v1>> THEN {x, y} ELSE {}]
McActConfigs == {(McProtected("K") :> "v1") @@ (<<"cwd">> :> "v1"),
                 (<<"auth", "token">> :> "v1") @@ (<<"auth", "type">> :> "v1"),
                 McProtected("K") :> Mask}
McActEdits == {<<<<"cwd">>, "v2">>, <<McProtected("K"), "v2">>}
McParent == ("f" :> "E") @@ ("g" :> "E") @@ ("E" :> "D") @@ ("D" :> "R")

McVar(v) == <<"var", <<v>>>>
McCmd(name, v) == <<<<"text", <<<<"text", <<<<name>>>>>>>>>>, <<"literal", <<"array", <<McVar(v)>>>>>>>>
McStatements ==
    {<<"if", McVar("i")>>, <<"elseif", McVar("x")>>, <<"else">>, <<"endif">>,
     <<"for", "i", <<"range", 0, 2>>>>, <<"endfor">>, <<"wait", McVar("i")>>,
     <<"value", "x", McVar("i")>>, <<"pipeline", "i", <<McCmd("run", "x"), McCmd("run", "i")>>>>,
     <<"for", "x", <<"pipeline", <<McCmd("run", "i")>>>>>>, <<"pipeline", "", <<McCmd("fail", "x")>>>>}
McFailing == {ScrStr(<<<<"fail">>>>)}
McParams == "x" :> ScrNum(1)

-----------------------------------------------------------------------------

VARIABLE part

vars == <<part, cfgVars, envVars, pkgVars, docVars, actVars, secVars, typVars, filVars,
          scrProgram, lawCase>>

Init == /\ part \in {"config", "env", "packages", "docs", "actions", "secrets", "types",
                     "files", "script", "laws"}
        /\ CfgInit /\ EnvInit /\ PkgInit /\ DocInit /\ ActInit /\ SecInit /\ TypInit
        /\ FilInit /\ ScrInit
        /\ IF part = "laws" THEN LawCases ELSE lawCase = <<"none">>

Still(vs) == UNCHANGED <<part, vs, lawCase>>
AtConfig(A)  == part = "config" /\ A /\ Still(<<envVars, pkgVars, docVars, actVars, secVars, typVars, filVars, scrProgram>>)
AtEnv(A)     == part = "env" /\ A /\ Still(<<cfgVars, pkgVars, docVars, actVars, secVars, typVars, filVars, scrProgram>>)
AtPackages(A) == part = "packages" /\ A /\ Still(<<cfgVars, envVars, docVars, actVars, secVars, typVars, filVars, scrProgram>>)
AtDocs(A)    == part = "docs" /\ A /\ Still(<<cfgVars, envVars, pkgVars, actVars, secVars, typVars, filVars, scrProgram>>)
AtActions(A) == part = "actions" /\ A /\ Still(<<cfgVars, envVars, pkgVars, docVars, secVars, typVars, filVars, scrProgram>>)
AtSecrets(A) == part = "secrets" /\ A /\ Still(<<cfgVars, envVars, pkgVars, docVars, actVars, typVars, filVars, scrProgram>>)
AtTypes(A)   == part = "types" /\ A /\ Still(<<cfgVars, envVars, pkgVars, docVars, actVars, secVars, filVars, scrProgram>>)
AtFiles(A)   == part = "files" /\ A /\ Still(<<cfgVars, envVars, pkgVars, docVars, actVars, secVars, typVars, scrProgram>>)
AtScript(A)  == part = "script" /\ A /\ Still(<<cfgVars, envVars, pkgVars, docVars, actVars, secVars, typVars, filVars>>)

Next == AtConfig(CfgNext) \/ AtEnv(EnvNext) \/ AtPackages(PkgNext) \/ AtDocs(DocNext)
        \/ AtActions(ActNext) \/ AtSecrets(SecNext) \/ AtTypes(TypNext) \/ AtFiles(FilNext)
        \/ AtScript(ScrWrite)

Spec == Init /\ [][Next]_vars
=============================================================================
