----------------------------- MODULE SecretStore -----------------------------
(***************************************************************************)
(* The scoped secrets: entries of the OS credential manager, each          *)
(* encrypted with a key that the calling action's config holds.  An entry  *)
(* that the caller's key does not open is deleted on the way.              *)
(***************************************************************************)
EXTENDS Naturals

CONSTANTS
    SecThreads,    \* callers, of any process
    SecNames,
    SecValues,
    SecKeys,       \* keys of 32 bytes
    BadKey,        \* one that does not decode
    NoEntry,       \* an entry that is not there
    MaxSecOps      \* bound on calls

ASSUME SecAssumption == BadKey \notin SecKeys /\ MaxSecOps \in Nat

VARIABLES
    secEntries,    \* name -> [value, key], or NoEntry
    secHealing,    \* thread -> the entry it is about to delete: [name, key,
                   \* met], with the key that did not open what it read, and
                   \* whether the name was set since
    secKept,       \* name -> the entry as it was last set, until it may go
    secOps         \* calls so far

secVars == <<secEntries, secHealing, secKept, secOps>>

SecInit ==
    /\ secEntries = [n \in SecNames |-> NoEntry]
    /\ secHealing = [t \in SecThreads |-> NoEntry]
    /\ secKept = [n \in SecNames |-> NoEntry]
    /\ secOps = 0

SecCall(t) ==
    /\ secHealing[t] = NoEntry
    /\ secOps < MaxSecOps
    /\ secOps' = secOps + 1

\* set_secret fails before it writes if the key does not decode.
SetSecret(t, n, value, key) ==
    /\ SecCall(t)
    /\ IF key = BadKey THEN UNCHANGED <<secEntries, secHealing, secKept>>
       ELSE LET entry == [value |-> value, key |-> key]
            IN  /\ secEntries' = [secEntries EXCEPT ![n] = entry]
                /\ secKept' = [secKept EXCEPT ![n] = entry]
                /\ secHealing' = [u \in SecThreads |->
                      IF secHealing[u] # NoEntry /\ secHealing[u].name = n
                      THEN [secHealing[u] EXCEPT !.met = TRUE] ELSE secHealing[u]]

\* get_secret reads the entry; a key that does not decode is an error that
\* leaves it alone, and one that does not open it makes it go.
GetSecret(t, n, key) ==
    LET entry == secEntries[n]
        heals == key # BadKey /\ entry # NoEntry /\ entry.key # key
    IN  /\ SecCall(t)
        /\ secHealing' = [secHealing EXCEPT ![t] =
                             IF heals THEN [name |-> n, key |-> key, met |-> FALSE] ELSE NoEntry]
        /\ secKept' = IF heals THEN [secKept EXCEPT ![n] = NoEntry] ELSE secKept
        /\ UNCHANGED secEntries

\* It deletes by name, whatever the name holds by then: also an entry that was
\* set since, which that caller was told is stored.
HealSecret(t) ==
    LET heal == secHealing[t]
    IN  /\ heal # NoEntry
        /\ secEntries' = [secEntries EXCEPT ![heal.name] = NoEntry]
        /\ secKept' = IF heal.met THEN [secKept EXCEPT ![heal.name] = NoEntry] ELSE secKept
        /\ secHealing' = [secHealing EXCEPT ![t] = NoEntry]
        /\ UNCHANGED secOps

\* delete_secret, which package uninstallers use.
DeleteSecret(t, n) ==
    /\ SecCall(t)
    /\ secEntries' = [secEntries EXCEPT ![n] = NoEntry]
    /\ secKept' = [secKept EXCEPT ![n] = NoEntry]
    /\ UNCHANGED secHealing

SecNext ==
    \E t \in SecThreads :
        \/ \E n \in SecNames, key \in SecKeys \cup {BadKey} :
              GetSecret(t, n, key) \/ \E value \in SecValues : SetSecret(t, n, value, key)
        \/ \E n \in SecNames : DeleteSecret(t, n)
        \/ HealSecret(t)

SecSpec == SecInit /\ [][SecNext]_secVars

-----------------------------------------------------------------------------

SecTypeOK ==
    /\ secEntries \in [SecNames -> [value : SecValues, key : SecKeys] \cup {NoEntry}]
    /\ secKept \in [SecNames -> [value : SecValues, key : SecKeys] \cup {NoEntry}]

\* A secret stays readable with the key it was set with until a deletion, a get
\* that reads it with another valid key, or a get that had read, before it was
\* set, an entry its own key did not open: that get deletes by name
\* (HealsOnlyDeadEntries). A malformed key or a get of another name never
\* makes it go, nor does a get that found nothing or could open what it read.
SecretsStay ==
    \A n \in SecNames : secKept[n] # NoEntry => secEntries[n] = secKept[n]

\* "after clearing the entry - if one exists but can't be decrypted (wrong key or
\* corrupted blob)" (get_secret): what a get clears, its key does not open.
HealsOnlyDeadEntries ==
    [][\A t \in SecThreads : secHealing[t] # NoEntry /\ secHealing'[t] = NoEntry =>
          LET entry == secEntries[secHealing[t].name]
          IN  entry # NoEntry => entry.key # secHealing[t].key]_secVars
=============================================================================
