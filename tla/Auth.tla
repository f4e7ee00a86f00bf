-------------------------------- MODULE Auth --------------------------------
(***************************************************************************)
(* The authorization of one Webhook action, solx-actions/src/auth.rs: the  *)
(* cache of access tokens, the places a refresh token is read from and     *)
(* written back to, and the refresh of overlapping calls against a token   *)
(* endpoint that rotates: a refresh token works once.                      *)
(*                                                                         *)
(* Tokens are numbers; 0 stands for no token.  A refresh token may be held *)
(* inline in the action's config, in the OS keyring, or in the secret      *)
(* store, and a config may name more than one of them.  A call works on    *)
(* the config it read when it began.                                       *)
(***************************************************************************)
EXTENDS Naturals

CONSTANTS AuthCalls,    \* the calls that resolve the action's auth
          AuthTypes,    \* the types of auth the action may have
          AuthSources,  \* the sets of places its config may name
          Persists,     \* the values persist_rotated_refresh may have
          Lifetimes,    \* the expires_in a token endpoint may answer
          BearerTtl,    \* ttl_secs of a bearer or a service account
          AuthSkew,     \* the margin cache_put takes off a lifetime
          MaxDelay,     \* bound: ticks a response waits to be cached
          MaxAuthClock, MaxTokens  \* bounds: ticks, refresh tokens ever made

Places == {"inline", "keyring", "secret"}
ASSUME AuthAssumption ==
  /\ AuthSources \subseteq SUBSET Places /\ {} \notin AuthSources
  /\ Persists \subseteq BOOLEAN /\ Lifetimes \subseteq Nat
  /\ BearerTtl \in Nat /\ AuthSkew \in Nat /\ MaxDelay \in Nat /\ MaxAuthClock \in Nat

VARIABLES authConfig,   \* the stored config: type, places named, inline token, persist
          authStore,    \* the tokens of the keyring and of the secret store
          authCache,    \* the access token cached: until when, and when it expires
          authValid,    \* the refresh token the endpoint honours
          authMade,     \* refresh tokens ever made
          authClock,
          authCall,     \* per call: pc and what it holds
          authUndone    \* a rotation was not kept, or a login came under a call
authVars == <<authConfig, authStore, authCache, authValid, authMade, authClock,
              authCall, authUndone>>

Config0(type, places, persist) ==
  [type |-> type, places |-> places, inline |-> IF "inline" \in places THEN 1 ELSE 0,
   persist |-> persist]
Quiet == [pc |-> "idle", config |-> Config0("bearer", {}, FALSE), token |-> 0,
          since |-> 0, expires |-> 0]
NoToken == [until |-> 0, expires |-> 0]

AuthInit == /\ \E type \in AuthTypes, places \in AuthSources, persist \in Persists :
                 authConfig = Config0(type, places, persist)
            /\ authStore = [p \in Places \ {"inline"} |-> IF p \in authConfig.places THEN 1 ELSE 0]
            /\ authCache = NoToken /\ authValid = 1 /\ authMade = 1 /\ authClock = 0
            /\ authCall = [c \in AuthCalls |-> Quiet] /\ authUndone = FALSE

(* secret_field tries the field itself, a string or a keyring reference,   *)
(* before the pointer to the secret store; RefreshStorage looks for the    *)
(* pointer first.                                                          *)
ReadPlace(config) == CASE "inline" \in config.places -> "inline"
                       [] "keyring" \in config.places -> "keyring"
                       [] OTHER -> "secret"
WritePlace(config) == CASE "secret" \in config.places -> "secret"
                        [] "keyring" \in config.places -> "keyring"
                        [] OTHER -> "inline"
Held(config) == IF ReadPlace(config) = "inline" THEN config.inline
                ELSE authStore[ReadPlace(config)]

Busy(c) == authCall[c].pc # "idle"
Keep(rec, c) == authCall' = [authCall EXCEPT ![c] = rec]
Finished(c) == Keep(Quiet, c)

------------------------------------------------------------------------------
(* resolve_auth. A cached token is handed out whatever the auth's type is. *)
AuthBegin(c) == /\ ~Busy(c)
                /\ Keep([Quiet EXCEPT !.pc = "resolve", !.config = authConfig], c)
                /\ UNCHANGED <<authConfig, authStore, authCache, authValid, authMade,
                               authClock, authUndone>>
Hit == authCache.until > authClock
Handed(c, expires) == Keep([authCall[c] EXCEPT !.pc = "handed", !.expires = expires], c)

AuthCached(c) == /\ authCall[c].pc = "resolve" /\ Hit
                 /\ Handed(c, authCache.expires)
                 /\ UNCHANGED <<authConfig, authStore, authCache, authValid, authMade,
                                authClock, authUndone>>
AuthMiss(c) ==
  /\ authCall[c].pc = "resolve" /\ ~Hit
  /\ LET config == authCall[c].config IN
     CASE config.type = "oauth_authorization_code" -> Finished(c)
       [] config.type = "oauth_refresh" ->
            Keep([authCall[c] EXCEPT !.pc = "post", !.token = Held(config)], c)
       [] config.type = "oauth_service_account" -> Keep([authCall[c] EXCEPT !.pc = "sign"], c)
       [] OTHER -> Keep([authCall[c] EXCEPT !.pc = "put", !.since = authClock,
                                            !.expires = authClock + BearerTtl], c)
  /\ UNCHANGED <<authConfig, authStore, authCache, authValid, authMade, authClock, authUndone>>

(* A field is missing or its secret is not set; or the endpoint refuses.   *)
AuthRefused(c) == /\ authCall[c].pc \in {"post", "sign"} \/ (authCall[c].pc = "resolve" /\ ~Hit)
                  /\ Finished(c)
                  /\ UNCHANGED <<authConfig, authStore, authCache, authValid, authMade,
                                 authClock, authUndone>>
(* A service account signs a request of its own: there is nothing to rotate.*)
AuthSign(c) == /\ authCall[c].pc = "sign"
               /\ Keep([authCall[c] EXCEPT !.pc = "put", !.since = authClock,
                                           !.expires = authClock + BearerTtl], c)
               /\ UNCHANGED <<authConfig, authStore, authCache, authValid, authMade,
                              authClock, authUndone>>
(* The token endpoint honours a refresh token once; a rotation whose       *)
(* answer is lost is lost with it.                                         *)
AuthPost(c) ==
  /\ authCall[c].pc = "post" /\ authCall[c].token = authValid
  /\ \E rotates \in BOOLEAN, answered \in BOOLEAN, lifetime \in Lifetimes :
       LET new == IF rotates THEN authMade + 1 ELSE authValid
           keep == rotates /\ authCall[c].config.persist
       IN  /\ rotates => authMade < MaxTokens
           /\ authValid' = new /\ authMade' = IF rotates THEN new ELSE authMade
           /\ authUndone' = (authUndone \/ (rotates /\ ~(answered /\ keep)))
           /\ IF answered
              THEN Keep([authCall[c] EXCEPT !.pc = IF keep THEN "persist" ELSE "put",
                           !.token = new, !.since = authClock,
                           !.expires = authClock + lifetime], c)
              ELSE Finished(c)
  /\ UNCHANGED <<authConfig, authStore, authCache, authClock>>

(* persist_rotated_refresh_token: inline, the whole config of the call is  *)
(* saved with the new token in it. A failure is logged and ignored.        *)
AuthPersist(c) ==
  LET call == authCall[c]
      place == WritePlace(call.config)
  IN  /\ call.pc = "persist"
      /\ \/ /\ place = "inline"
            /\ authConfig' = [call.config EXCEPT !.inline = call.token]
            /\ UNCHANGED <<authStore, authUndone>>
         \/ /\ place # "inline"
            /\ authStore' = [authStore EXCEPT ![place] = call.token]
            /\ UNCHANGED <<authConfig, authUndone>>
         \/ authUndone' = TRUE /\ UNCHANGED <<authConfig, authStore>>
      /\ Keep([call EXCEPT !.pc = "put"], c)
      /\ UNCHANGED <<authCache, authValid, authMade, authClock>>

(* What would break it: no margin.                                        *)
CacheTtlWhole(lifetime) == lifetime
CacheTtl(lifetime) == IF lifetime > AuthSkew THEN lifetime - AuthSkew ELSE 1
AuthPut(c) ==
  LET call == authCall[c] IN
  /\ call.pc = "put"
  /\ authCache' = [until |-> authClock + CacheTtl(call.expires - call.since),
                   expires |-> call.expires]
  /\ Handed(c, call.expires)
  /\ UNCHANGED <<authConfig, authStore, authValid, authMade, authClock, authUndone>>
AuthUse(c) == /\ authCall[c].pc = "handed" /\ Finished(c)
              /\ UNCHANGED <<authConfig, authStore, authCache, authValid, authMade,
                             authClock, authUndone>>

(* A new login: a token of a new family, written where the next refresh    *)
(* reads. The cache is not cleared.                                        *)
AuthLogin ==
  /\ authMade < MaxTokens /\ authMade' = authMade + 1 /\ authValid' = authMade'
  /\ IF ReadPlace(authConfig) = "inline"
     THEN authConfig' = [authConfig EXCEPT !.inline = authMade'] /\ UNCHANGED authStore
     ELSE /\ authStore' = [authStore EXCEPT ![ReadPlace(authConfig)] = authMade']
          /\ UNCHANGED authConfig
  /\ authUndone' = \E c \in AuthCalls : Busy(c)
  /\ UNCHANGED <<authCache, authClock, authCall>>

(* A response is cached soon after it came: within MaxDelay ticks.         *)
AuthTick == /\ authClock < MaxAuthClock
            /\ \A c \in AuthCalls : /\ authCall[c].pc # "handed"
                                    /\ authCall[c].pc \in {"persist", "put"}
                                         => authClock < authCall[c].since + MaxDelay
            /\ authClock' = authClock + 1
            /\ UNCHANGED <<authConfig, authStore, authCache, authValid, authMade,
                           authCall, authUndone>>

AuthNext == \/ AuthLogin \/ AuthTick
            \/ \E c \in AuthCalls : \/ AuthBegin(c) \/ AuthCached(c) \/ AuthMiss(c)
                                    \/ AuthRefused(c) \/ AuthSign(c) \/ AuthPost(c)
                                    \/ AuthPersist(c) \/ AuthPut(c) \/ AuthUse(c)
AuthSpec == AuthInit /\ [][AuthNext]_authVars

------------------------------------------------------------------------------
AuthConfig == [type : AuthTypes \cup {"bearer"}, places : SUBSET Places, inline : Nat,
               persist : BOOLEAN]
AuthTypeOK ==
  /\ authConfig \in AuthConfig /\ authStore \in [{"keyring", "secret"} -> Nat]
  /\ authCache \in [until : Nat, expires : Nat]
  /\ authValid \in 1 .. authMade /\ authMade \in Nat /\ authClock \in 0 .. MaxAuthClock
  /\ authCall \in [AuthCalls -> [pc : {"idle", "resolve", "post", "sign", "persist", "put", "handed"},
                                 config : AuthConfig, token : Nat, since : Nat, expires : Nat]]
  /\ authUndone \in BOOLEAN

(* A rotation is not lost between overlapping calls: when no call is at    *)
(* work, every answer arrived and was written, and no login came under a   *)
(* call, the refresh token the next call will read is the one the endpoint *)
(* honours (exchange_refresh_token, persist_rotated_refresh_token).        *)
RotationKept == (~authUndone /\ \A c \in AuthCalls : ~Busy(c))
                  => Held(authConfig) = authValid

(* No call is handed an access token of a refresh that has expired, from   *)
(* the cache or not, when a token outlives the delay (cache_get, cache_put)*)
HandedIsLive == \A c \in AuthCalls :
                  authCall[c].pc = "handed" /\ authConfig.type = "oauth_refresh"
                    => authCall[c].expires > authClock

(* Between calls that overlap, rotate, persist and cache, no refresh token *)
(* is lost and no dead access token is used (the two invariants above).    *)
RefreshSound == RotationKept /\ HandedIsLive
==============================================================================
