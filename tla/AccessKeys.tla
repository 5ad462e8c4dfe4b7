----------------------------- MODULE AccessKeys -----------------------------
(***************************************************************************)
(* The two access keys of Pithos and where they are: in the ConfigMap that *)
(* the server reads, by the name of the key, and in the Secret that        *)
(* clients read, under four fixed fields.  `pithosctl init` draws them and *)
(* writes both objects; `pithosctl update` makes the ConfigMap again from  *)
(* the Secret.  Either may stop after any call, and the Secret may be      *)
(* edited meanwhile.                                                       *)
(*                                                                         *)
(* Keys and secrets are hashes of 32 random bytes: here they are numbered  *)
(* in the order in which they are drawn, which never repeats one.  Who     *)
(* edits the Secret may write a number again, or 0, the empty string.  A   *)
(* Secret without fields and an empty keystore stand for missing objects.  *)
(***************************************************************************)
EXTENDS Naturals

CONSTANTS MaxRuns,     \* bound: runs of init and update
          MaxEdits     \* bound: edits of the Secret

ASSUME AccessAssumption == {MaxRuns, MaxEdits} \subseteq Nat

VARIABLES
    configKeys,  \* the keystore in pithos-cfg: entries by name
    secret,      \* pithos-keys: values by field, as far as the fields are there
    command,     \* "none", "init" or "update"
    line,        \* what it does next
    keys,        \* Keystore.Keys of its Config
    read,        \* the Secret as update read it
    drawn,       \* keys and secrets made up so far
    outcome,     \* of the last command: "none", "ok", "failed"
    edited,      \* history: the Secret changed since it was written or last read
    runs, edits

stored == <<configKeys, secret>>
process == <<command, line, keys, read, outcome>>
vars == <<stored, process, drawn, edited, runs, edits>>

Kinds == {"master", "tenant"}

Field == Kinds \X {"key", "secret"}

\* Secret.Data
IsData(data) == DOMAIN data \subseteq Field /\ data \in [DOMAIN data -> 0 .. drawn]

\* Go maps from names to entries.
IsKeystore(map) ==
    /\ DOMAIN map \subseteq 0 .. drawn
    /\ \A n \in DOMAIN map :
           map[n] \in [secret: 0 .. drawn, master: BOOLEAN, tenant: {"ops", "pithos"}]

AccessTypeOK ==
    /\ drawn \in Nat
    /\ IsKeystore(configKeys) /\ IsKeystore(keys)
    /\ IsData(secret) /\ IsData(read)
    /\ command \in {"none", "init", "update"}
    /\ line \in {"idle", "draw", "get", "parse", "configmap", "secret"}
    /\ outcome \in {"none", "ok", "failed"} /\ edited \in BOOLEAN
    /\ runs \in 0 .. MaxRuns /\ edits \in 0 .. MaxEdits

NoKeys == [n \in {} |-> 0]
NoFields == [f \in {} |-> 0]

Init ==
    /\ configKeys = NoKeys /\ secret = NoFields
    /\ command = "none" /\ line = "idle" /\ keys = NoKeys /\ read = NoFields
    /\ drawn = 0 /\ outcome = "none" /\ edited = FALSE
    /\ runs = 0 /\ edits = 0

----------------------------------------------------------------------------
\* Faulty: the kind of a key is written for its tenant.
KindAsTenant(kind, s) == [secret |-> s, master |-> kind = "master", tenant |-> kind]

\* The entry of a key: generateAccessKey and parseSecret agree.
AccessKey(kind, s) ==
    [secret |-> s, master |-> kind = "master",
     tenant |-> IF kind = "master" THEN "ops" ELSE "pithos"]

\* An assignment to a Go map replaces the entry of the same name.
Put(map, name, entry) ==
    [n \in DOMAIN map \cup {name} |-> IF n = name THEN entry ELSE map[n]]

\* Faulty: the first name found goes into both pairs of fields.
AnyName(map, kind) == CHOOSE n \in DOMAIN map : TRUE

NameOf(map, kind) == CHOOSE n \in DOMAIN map : map[n].master = (kind = "master")

\* secretTemplate
SecretOf(map) ==
    [f \in Field |->
        LET name == NameOf(map, f[1])
        IN  IF f[2] = "key" THEN name ELSE map[name].secret]

\* Faulty: fields are read without a look whether they are there.
AnyFields(fields, kind) == TRUE

HasPair(fields, kind) == {<<kind, "key">>, <<kind, "secret">>} \subseteq DOMAIN fields

\* A Go map gives the empty string for a field it does not have.
Value(fields, f) == IF f \in DOMAIN fields THEN fields[f] ELSE 0

\* Faulty: name and secret are exchanged.
Exchanged(map, fields, kind) ==
    Put(map, Value(fields, <<kind, "secret">>),
        AccessKey(kind, Value(fields, <<kind, "key">>)))

Parsed(map, fields, kind) ==
    Put(map, Value(fields, <<kind, "key">>),
        AccessKey(kind, Value(fields, <<kind, "secret">>)))

----------------------------------------------------------------------------
Begin(c) ==
    /\ command = "none" /\ runs < MaxRuns /\ runs' = runs + 1
    /\ command' = c /\ line' = IF c = "init" THEN "draw" ELSE "get"
    /\ UNCHANGED <<stored, keys, read, drawn, outcome, edited, edits>>

End(how) ==
    /\ outcome' = how
    /\ command' = "none" /\ line' = "idle" /\ keys' = NoKeys /\ read' = NoFields

Working == UNCHANGED <<command, outcome, runs, edits>>

\* Killed, or an API call or the source of random numbers fails.
Fail ==
    /\ command # "none" /\ End("failed")
    /\ UNCHANGED <<stored, drawn, edited, runs, edits>>

\* generateAccessKey twice.
DrawKeys ==
    /\ line = "draw"
    /\ keys' = Put(Put(NoKeys, drawn + 1, AccessKey("master", drawn + 2)),
                   drawn + 3, AccessKey("tenant", drawn + 4))
    /\ drawn' = drawn + 4
    /\ line' = "configmap"
    /\ UNCHANGED <<stored, read, edited>> /\ Working

\* Without the Secret the API server answers NotFound; without its fields
\* parseSecret would.
GetSecret ==
    /\ line = "get" /\ secret # NoFields
    /\ read' = secret /\ edited' = FALSE
    /\ line' = "parse"
    /\ UNCHANGED <<stored, keys, drawn>> /\ Working

ParseSecret ==
    /\ line = "parse"
    /\ \A k \in Kinds : HasPair(read, k)
    /\ keys' = Parsed(Parsed(NoKeys, read, "master"), read, "tenant")
    /\ line' = "configmap"
    /\ UNCHANGED <<stored, read, drawn, edited>> /\ Working

CreateConfigMap ==
    /\ line = "configmap"
    /\ configKeys' = keys
    /\ IF command = "init"
       THEN line' = "secret" /\ UNCHANGED <<command, outcome, keys, read>>
       ELSE End("ok")
    /\ UNCHANGED <<secret, drawn, edited, runs, edits>>

CreateSecret ==
    /\ line = "secret"
    /\ secret' = SecretOf(keys) /\ edited' = FALSE
    /\ End("ok")
    /\ UNCHANGED <<configKeys, drawn, runs, edits>>

\* Somebody takes fields or the whole Secret away, or writes a field: a value of
\* their own, that of another field, an earlier one, or nothing.
EditSecret ==
    /\ edits < MaxEdits /\ edits' = edits + 1 /\ edited' = TRUE
    /\ \/ /\ \E left \in SUBSET DOMAIN secret : secret' = [f \in left |-> secret[f]]
          /\ UNCHANGED drawn
       \/ \E f \in Field, v \in 0 .. drawn + 1 :
              /\ secret' = [g \in DOMAIN secret \cup {f} |->
                                IF g = f THEN v ELSE secret[g]]
              /\ drawn' = IF v > drawn THEN v ELSE drawn
    /\ UNCHANGED <<configKeys, process, runs>>

Next ==
    \/ \E c \in {"init", "update"} : Begin(c)
    \/ DrawKeys \/ GetSecret \/ ParseSecret \/ CreateConfigMap \/ CreateSecret
    \/ Fail \/ EditSecret

Spec == Init /\ [][Next]_vars

----------------------------------------------------------------------------
\* The server lets a client in with the pair of fields of a kind, and gives it
\* the rights of that kind.
Admits(kind) ==
    LET name == secret[<<kind, "key">>]
    IN  /\ HasPair(secret, kind)
        /\ name \in DOMAIN configKeys
        /\ configKeys[name].secret = secret[<<kind, "secret">>]
        /\ configKeys[name].master = (kind = "master")

\* Both kinds have a name, the same one.
Alike(fields) ==
    /\ {<<"master", "key">>, <<"tenant", "key">>} \subseteq DOMAIN fields
    /\ fields[<<"master", "key">>] = fields[<<"tenant", "key">>]

\* After a command that got through the clients of both kinds are let in, whatever
\* commands stopped half-way before it, unless the Secret was edited since.  Only
\* when an edit before it gave both kinds one name (or two empty ones) are the
\* clients of the operations tenant left out: the other entry replaces theirs
\* (update.go:42-50).
ClientsAdmitted ==
    outcome = "ok" /\ command = "none" /\ ~edited =>
        Admits("tenant") /\ (Admits("master") \/ Alike(secret))

IsMaster(entry) == entry.master /\ entry.tenant = "ops"
IsTenant(entry) == ~entry.master /\ entry.tenant = "pithos"

\* Each configuration that is written has one master key, of the operations tenant,
\* and one other key, also when a command reads an incomplete Secret.  The one way to
\* lose the master key is an update from a Secret whose kinds have one name.
OneMaster ==
    [][configKeys' # configKeys =>
           \/ \E m, t \in DOMAIN configKeys' :
                  /\ m # t /\ DOMAIN configKeys' = {m, t}
                  /\ IsMaster(configKeys'[m]) /\ IsTenant(configKeys'[t])
           \/ /\ command = "update" /\ Alike(read)
              /\ \E t \in DOMAIN configKeys' :
                     DOMAIN configKeys' = {t} /\ IsTenant(configKeys'[t])]_vars

\* An update of keys that agree leaves every entry as it was: what the template of
\* the Secret wrote is what parseSecret reads.
UpdateKeepsKeys ==
    [][command = "update" /\ ~edited /\ configKeys # NoKeys
           /\ (\A k \in Kinds : Admits(k)) => configKeys' = configKeys]_vars

\* What one would expect of OneMaster without its exception: that there always is a
\* key which "will allow access to all buckets" (config.go:81).
MasterStays ==
    configKeys # NoKeys => \E n \in DOMAIN configKeys : configKeys[n].master
=============================================================================
