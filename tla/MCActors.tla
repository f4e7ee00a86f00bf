------------------------------ MODULE MCActors ------------------------------
(***************************************************************************)
(* The components of solx-actions that run beside each other in a process  *)
(* and share nothing, checked in one run: each behaviour is one of them at *)
(* work, the part chosen at the start.                                     *)
(***************************************************************************)
EXTENDS Actors, TLC

CONSTANTS script1, guest, secret, inline, webhook, fetch

(* A line is kept in more bytes than it came in, or in fewer.              *)
McSizes == {<<2, 3>>, <<2, 1>>}
(* A child that reads first, one that writes first and more than a pipe    *)
(* holds, one that leaves a process behind, and one that does nothing.     *)
McPrograms == {<<"in", "in", "out", "out", "print">>,
               <<"out", "out", "err", "err", "in", "in", "in", "cancelled">>,
               <<"err", "fork", "out">>, <<>>}
McSources == {{"inline"}, {"keyring"}, {"secret"}}
McTypes == (script1 :> "Script") @@ (guest :> "Wasm") @@ (secret :> "get-secret")
           @@ (inline :> "script-exec") @@ (webhook :> "Webhook") @@ (fetch :> "http-request")
McActions == DOMAIN McTypes

VARIABLE part
vars == <<part, strVars, cmdVars, authVars, oauVars, dspVars>>

SomeConfig == CHOOSE c \in {Config0(type, places, persist) : type \in AuthTypes,
                              places \in AuthSources, persist \in Persists} : TRUE
Init == /\ part \in {"stream", "command", "auth", "oauth", "dispatch"}
        /\ StrInit /\ CmdInit /\ AuthInit /\ OauInit /\ DspInit
        /\ part # "auth" => authConfig = SomeConfig
        /\ part # "dispatch" => dspAllowed = {}

Stream(A) == part = "stream" /\ A /\ UNCHANGED <<part, cmdVars, authVars, oauVars, dspVars>>
Cmd(A) == part = "command" /\ A /\ UNCHANGED <<part, strVars, authVars, oauVars, dspVars>>
Authz(A) == part = "auth" /\ A /\ UNCHANGED <<part, strVars, cmdVars, oauVars, dspVars>>
OAuth(A) == part = "oauth" /\ A /\ UNCHANGED <<part, strVars, cmdVars, authVars, dspVars>>
Dispatcher(A) == part = "dispatch" /\ A /\ UNCHANGED <<part, strVars, cmdVars, authVars, oauVars>>

Next == Stream(StrNextStep) \/ Cmd(CmdNext) \/ Authz(AuthNext) \/ OAuth(OauNext)
        \/ Dispatcher(DspNext)
Fairness == /\ WF_vars(Stream(Reader)) /\ WF_vars(Stream(StrTick))
            /\ WF_vars(Cmd(Parent)) /\ WF_vars(Cmd(Child))
            /\ WF_vars(OAuth(OauServerStep)) /\ \A a \in Awaits : WF_vars(OAuth(OauRelease(a)))
Spec == Init /\ [][Next]_vars /\ Fairness
=============================================================================
