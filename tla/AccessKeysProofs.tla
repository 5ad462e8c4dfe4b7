-------------------------- MODULE AccessKeysProofs --------------------------
(***************************************************************************)
(* Proofs about the access keys, for any number of commands that stop      *)
(* after any call and any edits of the Secret.                             *)
(***************************************************************************)
EXTENDS AccessKeys, TLAPS

(***************************************************************************)
(* A keystore and the four fields that say the same.                       *)
(***************************************************************************)
Complete(fields) == \A k \in Kinds : HasPair(fields, k)

Apart(fields) == fields[<<"master", "key">>] # fields[<<"tenant", "key">>]

\* parseSecret, of all four fields.
KeystoreOf(fields) == Parsed(Parsed(NoKeys, fields, "master"), fields, "tenant")

\* A keystore that comes from four fields, and one with a key of each kind.
IsParsed(map, d) == \E fields \in [Field -> 0 .. d] : map = KeystoreOf(fields)
IsPair(map, d) == \E fields \in [Field -> 0 .. d] : Apart(fields) /\ map = KeystoreOf(fields)

LEMMA FieldNames ==
  /\ <<"master", "key">> \in Field /\ <<"master", "secret">> \in Field
  /\ <<"tenant", "key">> \in Field /\ <<"tenant", "secret">> \in Field
  /\ \A f \in Field : f \in {<<"master", "key">>, <<"master", "secret">>,
                             <<"tenant", "key">>, <<"tenant", "secret">>}
<1> QED
  BY DEF Field, Kinds

LEMMA EntryShape ==
  ASSUME NEW s
  PROVE  /\ AccessKey("master", s) = [secret |-> s, master |-> TRUE, tenant |-> "ops"]
         /\ AccessKey("tenant", s) = [secret |-> s, master |-> FALSE, tenant |-> "pithos"]
<1> QED
  BY DEF AccessKey

\* The keystore has the name of each kind.  Under the tenant's is the tenant's entry,
\* under the other one, if it is another, that of the master key.
LEMMA KeystoreShape ==
  ASSUME NEW N, NEW f \in [Field -> N]
  PROVE  LET m == f[<<"master", "key">>]
             t == f[<<"tenant", "key">>]
         IN  /\ DOMAIN KeystoreOf(f) = {m, t}
             /\ KeystoreOf(f)[t] = AccessKey("tenant", f[<<"tenant", "secret">>])
             /\ m # t =>
                    KeystoreOf(f)[m] = AccessKey("master", f[<<"master", "secret">>])
<1> DEFINE one == Parsed(NoKeys, f, "master")
           m == f[<<"master", "key">>]
           t == f[<<"tenant", "key">>]
<1>1. \A g \in Field : Value(f, g) = f[g]
  BY DEF Value
<1>2. /\ Value(f, <<"master", "key">>) = m /\ Value(f, <<"tenant", "key">>) = t
      /\ Value(f, <<"master", "secret">>) = f[<<"master", "secret">>]
      /\ Value(f, <<"tenant", "secret">>) = f[<<"tenant", "secret">>]
  BY <1>1, FieldNames
<1>3. DOMAIN one = {m} /\ one[m] = AccessKey("master", f[<<"master", "secret">>])
  BY <1>2 DEF Parsed, Put, NoKeys
<1> HIDE DEF one
<1>4. KeystoreOf(f) = Put(one, t, AccessKey("tenant", f[<<"tenant", "secret">>]))
  BY <1>2 DEF KeystoreOf, Parsed, one
<1>5. /\ DOMAIN KeystoreOf(f) = {m, t}
      /\ KeystoreOf(f)[t] = AccessKey("tenant", f[<<"tenant", "secret">>])
      /\ m # t => KeystoreOf(f)[m] = AccessKey("master", f[<<"master", "secret">>])
  BY <1>3, <1>4 DEF Put
<1> QED
  BY <1>5

\* The template of the Secret writes what parseSecret reads.
LEMMA RoundTrip ==
  ASSUME NEW N, NEW f \in [Field -> N], Apart(f)
  PROVE  SecretOf(KeystoreOf(f)) = f
<1> DEFINE map == KeystoreOf(f)
           m == f[<<"master", "key">>]
           t == f[<<"tenant", "key">>]
<1>1. /\ DOMAIN map = {m, t} /\ map[m].master = TRUE /\ map[t].master = FALSE
      /\ map[m].secret = f[<<"master", "secret">>]
      /\ map[t].secret = f[<<"tenant", "secret">>]
  <2>1. /\ DOMAIN map = {m, t} /\ map[t] = AccessKey("tenant", f[<<"tenant", "secret">>])
        /\ map[m] = AccessKey("master", f[<<"master", "secret">>])
    BY KeystoreShape DEF Apart
  <2> QED
    BY <2>1, EntryShape
<1> HIDE DEF map, m, t
<1>2. NameOf(map, "master") = m
  BY <1>1 DEF NameOf
<1>3. NameOf(map, "tenant") = t
  BY <1>1 DEF NameOf
<1>4. \A g \in Field : SecretOf(map)[g] = f[g]
  BY <1>1, <1>2, <1>3, FieldNames DEF SecretOf, m, t
<1>5. SecretOf(map) \in [Field -> N]
  BY <1>4 DEF SecretOf
<1> QED
  BY <1>4, <1>5 DEF map

\* The fields determine the keystore.
LEMMA SameFields ==
  ASSUME NEW N, NEW f \in [Field -> N], NEW M, NEW g \in [Field -> M],
         f[<<"master", "key">>] = g[<<"master", "key">>],
         f[<<"master", "secret">>] = g[<<"master", "secret">>],
         f[<<"tenant", "key">>] = g[<<"tenant", "key">>],
         f[<<"tenant", "secret">>] = g[<<"tenant", "secret">>]
  PROVE  f = g
<1>1. \A x \in Field : f[x] = g[x]
  BY FieldNames
<1> QED
  BY <1>1

\* Data with both pairs has all four fields.
LEMMA CompleteFields ==
  ASSUME NEW data, IsData(data), Complete(data)
  PROVE  data \in [Field -> 0 .. drawn] /\ (Alike(data) \/ Apart(data))
<1>1. \A x \in Field : x \in DOMAIN data
  BY FieldNames DEF Complete, HasPair, Kinds
<1>2. DOMAIN data = Field
  BY <1>1 DEF IsData
<1> QED
  BY <1>2, FieldNames DEF IsData, Alike, Apart

LEMMA KeystoreType ==
  ASSUME NEW d \in Nat, NEW f \in [Field -> 0 .. d]
  PROVE  /\ DOMAIN KeystoreOf(f) \subseteq 0 .. d
         /\ \A n \in DOMAIN KeystoreOf(f) :
                KeystoreOf(f)[n] \in
                    [secret: 0 .. d, master: BOOLEAN, tenant: {"ops", "pithos"}]
<1> DEFINE map == KeystoreOf(f)
           m == f[<<"master", "key">>]
           t == f[<<"tenant", "key">>]
           Entry == [secret: 0 .. d, master: BOOLEAN, tenant: {"ops", "pithos"}]
<1>1. \A x \in Field : f[x] \in 0 .. d
  OBVIOUS
<1>2. m \in 0 .. d /\ t \in 0 .. d
  BY <1>1, FieldNames
<1>3. /\ DOMAIN map = {m, t}
      /\ map[t] = AccessKey("tenant", f[<<"tenant", "secret">>])
      /\ m # t => map[m] = AccessKey("master", f[<<"master", "secret">>])
  BY KeystoreShape
<1>4. \A v \in 0 .. d : AccessKey("master", v) \in Entry /\ AccessKey("tenant", v) \in Entry
  BY DEF AccessKey
<1>5. map[t] \in Entry /\ (m # t => map[m] \in Entry)
  <2>1. f[<<"master", "secret">>] \in 0 .. d /\ f[<<"tenant", "secret">>] \in 0 .. d
    BY <1>1, FieldNames
  <2> HIDE DEF map, m, t, Entry
  <2> QED
    BY <1>3, <1>4, <2>1
<1> HIDE DEF map, m, t, Entry
<1>6. DOMAIN map \subseteq 0 .. d /\ \A n \in DOMAIN map : map[n] \in Entry
  BY <1>2, <1>3, <1>5
<1> QED
  BY <1>6 DEF map, Entry

(***************************************************************************)
(* The invariant.                                                          *)
(***************************************************************************)
\* Which command is at which line.
LineInv ==
    /\ command = "none" <=> line = "idle"
    /\ line = "idle" => keys = NoKeys /\ read = NoFields
    /\ line \in {"draw", "secret"} => command = "init"
    /\ line \in {"get", "parse"} => command = "update"

\* init holds a key of each kind, update what it has read; the ConfigMap is made of
\* four fields.
KeysInv ==
    /\ line = "configmap" /\ command = "init" => IsPair(keys, drawn)
    /\ line = "secret" => IsPair(keys, drawn)
    /\ line = "configmap" /\ command = "update" => Complete(read) /\ keys = KeystoreOf(read)
    /\ configKeys = NoKeys \/ IsParsed(configKeys, drawn)

\* What was read or written last agrees with the Secret until that is edited.
AgreeInv ==
    /\ line = "secret" => configKeys = keys
    /\ line = "parse" /\ ~edited => secret = read
    /\ line = "configmap" /\ command = "update" /\ ~edited => secret = read
    /\ command = "none" /\ outcome = "ok" /\ ~edited
           => Complete(secret) /\ configKeys = KeystoreOf(secret)

AccessInd == AccessTypeOK /\ LineInv /\ KeysInv /\ AgreeInv

LEMMA EmptyMaps ==
  /\ NoKeys = [n \in {} |-> 0] /\ DOMAIN NoKeys = {} /\ IsKeystore(NoKeys)
  /\ DOMAIN NoFields = {} /\ IsData(NoFields)
<1>1. NoKeys = [n \in {} |-> 0] /\ DOMAIN NoKeys = {} /\ IsKeystore(NoKeys)
  BY DEF NoKeys, IsKeystore
<1>2. DOMAIN NoFields = {} /\ NoFields \in [{} -> 0 .. drawn]
  BY DEF NoFields
<1> QED
  BY <1>1, <1>2 DEF IsData

LEMMA InitInd == Init => AccessInd
<1> SUFFICES ASSUME Init PROVE AccessInd
  OBVIOUS
<1>1. AccessTypeOK
  <2>1. IsKeystore(configKeys) /\ IsKeystore(keys) /\ IsData(secret) /\ IsData(read)
    BY EmptyMaps DEF Init
  <2>2. edited \in BOOLEAN
    BY Zenon DEF Init
  <2> QED
    BY <2>1, <2>2, AccessAssumption DEF Init, AccessTypeOK
<1>2. LineInv /\ AgreeInv /\ KeysInv
  BY DEF Init, LineInv, AgreeInv, KeysInv
<1> QED
  BY <1>1, <1>2 DEF AccessInd

\* Maps and fields stay what they are when more is drawn.
LEMMA MoreDrawn ==
  ASSUME NEW d \in Nat, NEW e \in Nat, d <= e
  PROVE  \A map : (IsPair(map, d) => IsPair(map, e)) /\ (IsParsed(map, d) => IsParsed(map, e))
<1>1. 0 .. d \subseteq 0 .. e
  OBVIOUS
<1>2. [Field -> 0 .. d] \subseteq [Field -> 0 .. e]
  BY <1>1
<1> QED
  BY <1>2 DEF IsPair, IsParsed

\* What is stored or held stays well-typed.
LEMMA MoreKeystores ==
  ASSUME drawn \in Nat, drawn' \in Nat, drawn <= drawn'
  PROVE  /\ IsKeystore(configKeys) /\ configKeys' = configKeys => IsKeystore(configKeys)'
         /\ IsKeystore(keys) /\ keys' = keys => IsKeystore(keys)'
         /\ IsKeystore(keys) /\ configKeys' = keys => IsKeystore(configKeys)'
         /\ IsData(secret) /\ secret' = secret => IsData(secret)'
         /\ IsData(read) /\ read' = read => IsData(read)'
         /\ IsData(secret) /\ read' = secret => IsData(read)'
         /\ keys' = NoKeys => IsKeystore(keys)'
         /\ read' = NoFields => IsData(read)'
<1>1. 0 .. drawn \subseteq 0 .. drawn'
  OBVIOUS
<1>2. /\ IsKeystore(configKeys) /\ configKeys' = configKeys => IsKeystore(configKeys)'
      /\ IsKeystore(keys) /\ keys' = keys => IsKeystore(keys)'
      /\ IsKeystore(keys) /\ configKeys' = keys => IsKeystore(configKeys)'
  BY <1>1 DEF IsKeystore
<1>3. /\ IsData(secret) /\ secret' = secret => IsData(secret)'
      /\ IsData(read) /\ read' = read => IsData(read)'
      /\ IsData(secret) /\ read' = secret => IsData(read)'
  BY <1>1 DEF IsData
<1>4. keys' = NoKeys => IsKeystore(keys)'
  BY EmptyMaps DEF IsKeystore
<1>5. read' = NoFields => IsData(read)'
  <2>1. NoFields \in [{} -> 0 .. drawn']
    BY DEF NoFields
  <2> QED
    BY <2>1, EmptyMaps DEF IsData
<1> QED
  BY <1>2, <1>3, <1>4, <1>5

\* A keystore of four fields is well-typed.
LEMMA ParsedIsKeystore ==
  drawn' \in Nat /\ (IsParsed(keys, drawn)' \/ IsPair(keys, drawn)') => IsKeystore(keys)'
<1> QED
  BY KeystoreType DEF IsPair, IsParsed, IsKeystore

(***************************************************************************)
(* Every step preserves it.                                                *)
(***************************************************************************)
LEMMA BeginInd ==
  ASSUME AccessInd, NEW c \in {"init", "update"}, Begin(c) PROVE AccessInd'
<1> USE DEF Begin, stored
<1>1. runs' \in 0 .. MaxRuns
  BY AccessAssumption DEF AccessInd, AccessTypeOK
<1>2. line' \in {"draw", "get"} /\ (line' = "draw" <=> c = "init")
  OBVIOUS
<1>3. AccessTypeOK'
  BY <1>1, <1>2, MoreKeystores DEF AccessInd, AccessTypeOK
<1>4. LineInv'
  BY <1>2 DEF AccessInd, LineInv
<1>5. KeysInv'
  BY <1>2 DEF AccessInd, KeysInv
<1>6. AgreeInv'
  BY <1>2 DEF AgreeInv
<1> QED
  BY <1>3, <1>4, <1>5, <1>6 DEF AccessInd

LEMMA FailInd == ASSUME AccessInd, Fail PROVE AccessInd'
<1> USE DEF Fail, End, stored
<1>1. AccessTypeOK'
  BY MoreKeystores DEF AccessInd, AccessTypeOK
<1>2. LineInv'
  BY DEF LineInv
<1>3. KeysInv'
  BY DEF AccessInd, KeysInv
<1>4. AgreeInv'
  BY DEF AgreeInv
<1> QED
  BY <1>1, <1>2, <1>3, <1>4 DEF AccessInd

LEMMA DrawKeysInd == ASSUME AccessInd, DrawKeys PROVE AccessInd'
<1> USE DEF DrawKeys, Working, stored
<1> DEFINE f == [x \in Field |->
                    CASE x = <<"master", "key">>    -> drawn + 1
                      [] x = <<"master", "secret">> -> drawn + 2
                      [] x = <<"tenant", "key">>    -> drawn + 3
                      [] x = <<"tenant", "secret">> -> drawn + 4]
<1>1. drawn \in Nat /\ drawn' = drawn + 4 /\ drawn' \in Nat /\ drawn <= drawn'
  BY DEF AccessInd, AccessTypeOK
<1>2. /\ f[<<"master", "key">>] = drawn + 1 /\ f[<<"master", "secret">>] = drawn + 2
      /\ f[<<"tenant", "key">>] = drawn + 3 /\ f[<<"tenant", "secret">>] = drawn + 4
      /\ DOMAIN f = Field
  BY FieldNames
<1>3. f \in [Field -> 0 .. drawn']
  BY <1>1, FieldNames
<1> HIDE DEF f
<1>4. keys' = KeystoreOf(f)
  <2>1. /\ Value(f, <<"master", "key">>) = drawn + 1
        /\ Value(f, <<"master", "secret">>) = drawn + 2
        /\ Value(f, <<"tenant", "key">>) = drawn + 3
        /\ Value(f, <<"tenant", "secret">>) = drawn + 4
    BY <1>2, FieldNames DEF Value
  <2> QED
    BY <2>1 DEF KeystoreOf, Parsed
<1>5. IsPair(keys, drawn)'
  BY <1>1, <1>2, <1>3, <1>4 DEF IsPair, Apart
<1>6. AccessTypeOK'
  BY <1>1, <1>5, MoreKeystores, ParsedIsKeystore DEF AccessInd, AccessTypeOK
<1>7. LineInv'
  BY DEF AccessInd, LineInv
<1>8. KeysInv'
  BY <1>1, <1>5, MoreDrawn DEF AccessInd, KeysInv, LineInv
<1>9. AgreeInv'
  BY DEF AccessInd, AgreeInv, LineInv
<1> QED
  BY <1>6, <1>7, <1>8, <1>9 DEF AccessInd

LEMMA GetSecretInd == ASSUME AccessInd, GetSecret PROVE AccessInd'
<1> USE DEF GetSecret, Working, stored
<1>1. AccessTypeOK'
  <2>1. edited' \in BOOLEAN
    BY Zenon
  <2>2. IsData(read)' /\ IsData(secret)' /\ IsKeystore(keys)' /\ IsKeystore(configKeys)'
    BY MoreKeystores DEF AccessInd, AccessTypeOK
  <2> QED
    BY <2>1, <2>2 DEF AccessInd, AccessTypeOK
<1>2. LineInv'
  BY DEF AccessInd, LineInv
<1>3. KeysInv'
  BY DEF AccessInd, KeysInv
<1>4. AgreeInv'
  BY DEF AccessInd, AgreeInv, LineInv
<1> QED
  BY <1>1, <1>2, <1>3, <1>4 DEF AccessInd

LEMMA ParseSecretInd == ASSUME AccessInd, ParseSecret PROVE AccessInd'
<1> USE DEF ParseSecret, Working, stored
<1>1. Complete(read) /\ drawn \in Nat /\ read \in [Field -> 0 .. drawn]
  BY CompleteFields DEF Complete, AccessInd, AccessTypeOK
<1>2. keys' = KeystoreOf(read) /\ drawn' = drawn /\ read' = read
  BY DEF KeystoreOf
<1>3. IsParsed(keys, drawn)'
  BY <1>1, <1>2 DEF IsParsed
<1>4. AccessTypeOK'
  BY <1>1, <1>3, MoreKeystores, ParsedIsKeystore DEF AccessInd, AccessTypeOK
<1>5. LineInv'
  BY DEF AccessInd, LineInv
<1>6. KeysInv'
  BY <1>1, <1>2 DEF AccessInd, KeysInv, LineInv
<1>7. AgreeInv'
  BY DEF AccessInd, AgreeInv, LineInv
<1> QED
  BY <1>4, <1>5, <1>6, <1>7 DEF AccessInd

LEMMA CreateConfigMapInd == ASSUME AccessInd, CreateConfigMap PROVE AccessInd'
<1> USE DEF CreateConfigMap, End
<1>1. command = "init" \/ command = "update"
  BY DEF AccessInd, AccessTypeOK, LineInv
<1>2. drawn \in Nat /\ drawn' = drawn /\ secret' = secret
  BY DEF AccessInd, AccessTypeOK
<1>3. AccessTypeOK'
  <2>1. CASE command = "init"
    BY <1>2, <2>1, MoreKeystores DEF AccessInd, AccessTypeOK
  <2>2. CASE command = "update"
    BY <1>2, <2>2, MoreKeystores DEF AccessInd, AccessTypeOK
  <2> QED
    BY <1>1, <2>1, <2>2
<1>4. LineInv'
  BY <1>1 DEF AccessInd, LineInv
<1>5. KeysInv'
  <2>1. CASE command = "init"
    BY <1>2, <2>1 DEF AccessInd, KeysInv, IsPair, IsParsed
  <2>2. CASE command = "update"
    <3>1. read \in [Field -> 0 .. drawn] /\ keys = KeystoreOf(read)
      BY <2>2, CompleteFields DEF AccessInd, AccessTypeOK, KeysInv
    <3> QED
      BY <1>2, <2>2, <3>1 DEF KeysInv, IsParsed
  <2> QED
    BY <1>1, <2>1, <2>2
<1>6. AgreeInv'
  BY <1>1, <1>2 DEF AccessInd, AgreeInv, KeysInv
<1> QED
  BY <1>3, <1>4, <1>5, <1>6 DEF AccessInd

LEMMA CreateSecretInd == ASSUME AccessInd, CreateSecret PROVE AccessInd'
<1> USE DEF CreateSecret, End
<1>1. drawn \in Nat /\ drawn' = drawn /\ IsPair(keys, drawn) /\ configKeys' = keys
  BY DEF AccessInd, AccessTypeOK, KeysInv, AgreeInv
<1>2. PICK f \in [Field -> 0 .. drawn] : Apart(f) /\ keys = KeystoreOf(f)
  BY <1>1 DEF IsPair
<1>3. secret' = f
  BY <1>2, RoundTrip
<1>4. Complete(f)
  BY FieldNames DEF Complete, HasPair, Kinds
<1>5. AccessTypeOK'
  <2>1. IsData(secret)'
    BY <1>1, <1>3 DEF IsData
  <2>2. edited' \in BOOLEAN
    BY Zenon
  <2>3. IsData(read)' /\ IsKeystore(keys)' /\ IsKeystore(configKeys)'
    BY <1>1, MoreKeystores DEF AccessInd, AccessTypeOK
  <2> QED
    BY <1>1, <2>1, <2>2, <2>3 DEF AccessInd, AccessTypeOK
<1>6. LineInv'
  BY DEF LineInv
<1>7. KeysInv'
  BY <1>1 DEF AccessInd, KeysInv
<1>8. AgreeInv'
  BY <1>1, <1>2, <1>3, <1>4 DEF AgreeInv
<1> QED
  BY <1>5, <1>6, <1>7, <1>8 DEF AccessInd

LEMMA EditSecretInd == ASSUME AccessInd, EditSecret PROVE AccessInd'
<1> USE DEF EditSecret, process
<1>1. drawn \in Nat /\ drawn' \in Nat /\ drawn <= drawn'
  <2>1. drawn \in Nat
    BY DEF AccessInd, AccessTypeOK
  <2>2. drawn' = drawn \/ \E v \in 0 .. drawn + 1 : drawn' = IF v > drawn THEN v ELSE drawn
    OBVIOUS
  <2> QED
    BY <2>1, <2>2
<1>2. IsData(secret)'
  <2>1. DOMAIN secret \subseteq Field /\ \A f \in DOMAIN secret : secret[f] \in 0 .. drawn
    BY DEF AccessInd, AccessTypeOK, IsData
  <2>2. ASSUME NEW left \in SUBSET DOMAIN secret, secret' = [f \in left |-> secret[f]],
               drawn' = drawn
        PROVE  IsData(secret)'
    BY <2>1, <2>2 DEF IsData
  <2>3. ASSUME NEW f \in Field, NEW v \in 0 .. drawn + 1,
               secret' = [g \in DOMAIN secret \cup {f} |-> IF g = f THEN v ELSE secret[g]],
               drawn' = IF v > drawn THEN v ELSE drawn
        PROVE  IsData(secret)'
    <3>1. v \in 0 .. drawn' /\ 0 .. drawn \subseteq 0 .. drawn'
      BY <1>1, <2>3
    <3>2. \A g \in DOMAIN secret \cup {f} : secret'[g] \in 0 .. drawn'
      BY <2>1, <2>3, <3>1
    <3>3. DOMAIN secret' = DOMAIN secret \cup {f}
          /\ secret' = [g \in DOMAIN secret' |-> secret'[g]]
      BY <2>3
    <3> QED
      BY <2>1, <3>2, <3>3 DEF IsData
  <2> QED
    BY <2>2, <2>3
<1>3. edits' \in 0 .. MaxEdits
  BY AccessAssumption DEF AccessInd, AccessTypeOK
<1>4. AccessTypeOK'
  BY <1>1, <1>2, <1>3, MoreKeystores DEF AccessInd, AccessTypeOK
<1>5. LineInv'
  BY DEF AccessInd, LineInv
<1>6. KeysInv'
  BY <1>1, MoreDrawn DEF AccessInd, KeysInv
<1>7. AgreeInv'
  BY DEF AccessInd, AgreeInv
<1> QED
  BY <1>4, <1>5, <1>6, <1>7 DEF AccessInd

LEMMA NextInd == AccessInd /\ [Next]_vars => AccessInd'
<1> SUFFICES ASSUME AccessInd, [Next]_vars PROVE AccessInd'
  OBVIOUS
<1>1. CASE UNCHANGED vars
  BY <1>1 DEF vars, stored, process, AccessInd, AccessTypeOK, IsKeystore, IsData, LineInv,
     KeysInv, AgreeInv
<1> QED
  BY <1>1, BeginInd, FailInd, DrawKeysInd, GetSecretInd, ParseSecretInd,
     CreateConfigMapInd, CreateSecretInd, EditSecretInd DEF Next

LEMMA AlwaysInd == Spec => []AccessInd
<1> QED
  BY InitInd, NextInd, PTL DEF Spec

\* Keystores, Secret and commands stay well-typed, whatever is written into the Secret.
THEOREM AccessTypeCorrect == Spec => []AccessTypeOK
<1>1. AccessInd => AccessTypeOK
  BY DEF AccessInd
<1> QED
  BY <1>1, AlwaysInd, PTL

LEMMA EntryKind ==
  ASSUME NEW s
  PROVE  IsMaster(AccessKey("master", s)) /\ IsTenant(AccessKey("tenant", s))
<1> QED
  BY EntryShape DEF IsMaster, IsTenant

LEMMA OthersKeepConfigKeys ==
  ASSUME Next, ~CreateConfigMap PROVE configKeys' = configKeys
<1> QED
  BY DEF Next, Begin, DrawKeys, GetSecret, ParseSecret, CreateSecret, Fail, EditSecret, stored

\* Whatever commands stopped half-way and however incomplete the Secret was that they
\* read, a configuration is written with one key of each kind; only an update from a
\* Secret with one name for both kinds writes one without a master key.
THEOREM AlwaysOneMaster == Spec => OneMaster
<1> DEFINE Both == \E m, t \in DOMAIN configKeys' :
                       /\ m # t /\ DOMAIN configKeys' = {m, t}
                       /\ IsMaster(configKeys'[m]) /\ IsTenant(configKeys'[t])
           One == /\ command = "update" /\ Alike(read)
                  /\ \E t \in DOMAIN configKeys' :
                         DOMAIN configKeys' = {t} /\ IsTenant(configKeys'[t])
<1>1. ASSUME NEW f \in [Field -> 0 .. drawn], configKeys' = KeystoreOf(f), Apart(f)
      PROVE  Both
  <2> DEFINE m == f[<<"master", "key">>]
             t == f[<<"tenant", "key">>]
  <2>1. /\ m # t /\ DOMAIN configKeys' = {m, t}
        /\ configKeys'[m] = AccessKey("master", f[<<"master", "secret">>])
        /\ configKeys'[t] = AccessKey("tenant", f[<<"tenant", "secret">>])
    BY <1>1, KeystoreShape DEF Apart
  <2> HIDE DEF m, t
  <2>2. IsMaster(configKeys'[m]) /\ IsTenant(configKeys'[t])
    BY <2>1, EntryKind
  <2> QED
    BY <2>1, <2>2
<1>2. ASSUME AccessInd, Next, configKeys' # configKeys PROVE Both \/ One
  <2>1. CreateConfigMap
    BY <1>2, OthersKeepConfigKeys
  <2>2. configKeys' = keys /\ line = "configmap" /\ command \in {"init", "update"}
    BY <1>2, <2>1 DEF CreateConfigMap, AccessInd, AccessTypeOK, LineInv
  <2>3. CASE command = "init"
    BY <1>1, <1>2, <2>2, <2>3 DEF AccessInd, KeysInv, IsPair
  <2>4. CASE command = "update"
    <3>1. /\ read \in [Field -> 0 .. drawn] /\ configKeys' = KeystoreOf(read)
          /\ Alike(read) \/ Apart(read)
      BY <1>2, <2>2, <2>4, CompleteFields DEF AccessInd, AccessTypeOK, KeysInv
    <3>2. CASE Apart(read)
      BY <1>1, <3>1, <3>2
    <3>3. CASE Alike(read)
      <4> DEFINE t == read[<<"tenant", "key">>]
      <4>1. /\ DOMAIN configKeys' = {t}
            /\ configKeys'[t] = AccessKey("tenant", read[<<"tenant", "secret">>])
        BY <3>1, <3>3, KeystoreShape DEF Alike
      <4> HIDE DEF t
      <4>2. IsTenant(configKeys'[t])
        BY <4>1, EntryKind
      <4> QED
        BY <2>4, <3>3, <4>1, <4>2
    <3> QED
      BY <3>1, <3>2, <3>3
  <2> QED
    BY <2>2, <2>3, <2>4
<1>3. AccessInd /\ [Next]_vars => [configKeys' # configKeys => Both \/ One]_vars
  BY <1>2
<1>4. Spec => [][configKeys' # configKeys => Both \/ One]_vars
  BY <1>3, AlwaysInd, PTL DEF Spec
<1> QED
  BY <1>4, PTL DEF OneMaster

\* What admission means for the two kinds.
LEMMA AdmitsMeans ==
  /\ Admits("master") <=>
         /\ HasPair(secret, "master")
         /\ secret[<<"master", "key">>] \in DOMAIN configKeys
         /\ configKeys[secret[<<"master", "key">>]].secret = secret[<<"master", "secret">>]
         /\ configKeys[secret[<<"master", "key">>]].master = TRUE
  /\ Admits("tenant") <=>
         /\ HasPair(secret, "tenant")
         /\ secret[<<"tenant", "key">>] \in DOMAIN configKeys
         /\ configKeys[secret[<<"tenant", "key">>]].secret = secret[<<"tenant", "secret">>]
         /\ configKeys[secret[<<"tenant", "key">>]].master = FALSE
<1>1. ("master" = "master") = TRUE /\ ("tenant" = "master") = FALSE
  OBVIOUS
<1> QED
  BY <1>1, Zenon DEF Admits

\* After init or update got through, the clients of both kinds are let in with their
\* rights until somebody edits the Secret; those of the operations tenant unless the
\* Secret has one name for both.
THEOREM ClientsAlwaysAdmitted == Spec => []ClientsAdmitted
<1>1. AccessInd => ClientsAdmitted
  <2> SUFFICES ASSUME AccessInd, outcome = "ok", command = "none", ~edited
               PROVE  Admits("tenant") /\ (Admits("master") \/ Alike(secret))
    BY DEF ClientsAdmitted
  <2>1. Complete(secret) /\ configKeys = KeystoreOf(secret)
    BY DEF AccessInd, AgreeInv
  <2>2. secret \in [Field -> 0 .. drawn] /\ (Alike(secret) \/ Apart(secret))
    BY <2>1, CompleteFields DEF AccessInd, AccessTypeOK
  <2>3. HasPair(secret, "master") /\ HasPair(secret, "tenant")
    BY <2>1 DEF Complete, Kinds
  <2> DEFINE m == secret[<<"master", "key">>]
             t == secret[<<"tenant", "key">>]
  <2>4. /\ DOMAIN configKeys = {m, t}
        /\ configKeys[t] = AccessKey("tenant", secret[<<"tenant", "secret">>])
        /\ m # t => configKeys[m] = AccessKey("master", secret[<<"master", "secret">>])
    BY <2>1, <2>2, KeystoreShape
  <2>5. Admits("tenant")
    BY <2>3, <2>4, EntryShape, AdmitsMeans
  <2>6. Apart(secret) => Admits("master")
    BY <2>3, <2>4, EntryShape, AdmitsMeans DEF Apart
  <2> QED
    BY <2>2, <2>5, <2>6
<1> QED
  BY <1>1, AlwaysInd, PTL

\* An update that finds keys that agree changes none of them.
THEOREM UpdateAlwaysKeepsKeys == Spec => UpdateKeepsKeys
<1> DEFINE Keeps == command = "update" /\ ~edited /\ configKeys # NoKeys
                      /\ (\A k \in Kinds : Admits(k)) => configKeys' = configKeys
<1>1. ASSUME AccessInd, CreateConfigMap, command = "update", ~edited,
             configKeys # NoKeys, \A k \in Kinds : Admits(k)
      PROVE  configKeys' = configKeys
  <2>1. /\ configKeys' = KeystoreOf(secret) /\ Complete(secret)
        /\ secret \in [Field -> 0 .. drawn]
    BY <1>1, CompleteFields
       DEF CreateConfigMap, AccessInd, AccessTypeOK, AgreeInv, KeysInv
  <2>2. PICK f \in [Field -> 0 .. drawn] : configKeys = KeystoreOf(f)
    BY <1>1 DEF AccessInd, KeysInv, IsParsed
  <2>3. Admits("master") /\ Admits("tenant")
    BY <1>1 DEF Kinds
  <2> DEFINE m == f[<<"master", "key">>]
             t == f[<<"tenant", "key">>]
  <2>4. /\ DOMAIN configKeys = {m, t}
        /\ configKeys[t].secret = f[<<"tenant", "secret">>] /\ configKeys[t].master = FALSE
        /\ m # t => /\ configKeys[m].secret = f[<<"master", "secret">>]
                    /\ configKeys[m].master = TRUE
    <3>1. /\ DOMAIN configKeys = {m, t}
          /\ configKeys[t] = AccessKey("tenant", f[<<"tenant", "secret">>])
          /\ m # t => configKeys[m] = AccessKey("master", f[<<"master", "secret">>])
      BY <2>2, KeystoreShape
    <3> QED
      BY <3>1, EntryShape
  <2> HIDE DEF m, t
  <2>5. /\ secret[<<"master", "key">>] = m /\ secret[<<"tenant", "key">>] = t
        /\ secret[<<"master", "secret">>] = f[<<"master", "secret">>]
        /\ secret[<<"tenant", "secret">>] = f[<<"tenant", "secret">>]
    BY <2>3, <2>4, AdmitsMeans
  <2>6. secret = f
    BY <2>1, <2>5, SameFields DEF m, t
  <2> QED
    BY <2>1, <2>2, <2>6
<1>2. AccessInd /\ [Next]_vars => [Keeps]_vars
  BY <1>1, OthersKeepConfigKeys
<1>3. Spec => [][Keeps]_vars
  BY <1>2, AlwaysInd, PTL DEF Spec
<1> QED
  BY <1>3 DEF UpdateKeepsKeys
=============================================================================
