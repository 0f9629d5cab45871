-------------------------- MODULE ServiceConfigProofs --------------------------
(***************************************************************************)
(* Proofs about ServiceConfig, for any services, spellings, endpoints,     *)
(* discoveries and files to begin with: its types, that the commands       *)
(* implement Catalog, that success means that the services are routed, and *)
(* that the target of the active service stays settled.                    *)
(*                                                                         *)
(* Two facts carry them.  Whatever the file says, applyDefaults makes a    *)
(* Normal configuration of it, which says the same.  And each command      *)
(* edits a Normal configuration into a Normal one.                         *)
(***************************************************************************)
EXTENDS ServiceConfig, SelectionsProofs

-----------------------------------------------------------------------------
(* Lists of names                                                           *)

Names == Seq(Spellings \cup {None})

\* The services of a list.
KeysOf(names) == {KeyOf[n] : n \in ToSet(names) \ {None}}

\* Keys are spellings, and their own keys.
LEMMA KeysAreSpellings ==
  /\ Keys \subseteq Spellings
  /\ \A k \in Keys : KeyOf[k] = k
  /\ \A s \in Spellings : KeyOf[s] \in Keys
BY KeyAssumption DEF Keys

\* normalizeServiceNames keeps every service, under the first spelling; the first
\* name that is left is the first one that was not blank.
LEMMA NormalizedNames ==
  ASSUME NEW names \in Names
  PROVE  /\ Normalized(names) \in Seq(Spellings)
         /\ KeysOf(Normalized(names)) = KeysOf(names)
         /\ Normalized(names) # <<>> => \E i \in DOMAIN names :
              /\ names[i] = Normalized(names)[1] /\ names[i] # None
              /\ \A j \in 1..(i - 1) : names[j] = None
<1> DEFINE places == {i \in DOMAIN names :
                        /\ names[i] # None
                        /\ \A j \in 1..(i - 1) :
                             names[j] = None \/ KeyOf[names[j]] # KeyOf[names[i]]}
           list == Normalized(names)
<1>1. /\ DOMAIN names = 1..Len(names) /\ Len(names) \in Nat
      /\ \A i \in DOMAIN names : names[i] \in Spellings \cup {None}
  BY DEF Names
<1>2. list = At(names, places)
  BY DEF Normalized
<1>3. places \in SUBSET DOMAIN names
  OBVIOUS
<1> HIDE DEF list, places
<1>4. /\ list \in Seq({names[j] : j \in places})
      /\ ToSet(list) = {names[j] : j \in places}
      /\ list = <<>> <=> places = {}
      /\ places # {} => \E first \in places : list[1] = names[first] /\ \A j \in places : first <= j
  BY <1>2, <1>3, Kept DEF Names
<1> USE DEF places
<1>5. \A j \in places : names[j] \in Spellings
  BY <1>1
<1>6. list \in Seq(Spellings)
  <2>1. {names[j] : j \in places} \subseteq Spellings
    BY <1>5
  <2> HIDE DEF places
  <2>2. QED BY <1>4, <2>1
<1>7. KeysOf(list) = KeysOf(names)
  <2>1. KeysOf(list) \subseteq KeysOf(names)
    <3>1. ToSet(list) \subseteq ToSet(names)
      BY <1>3, <1>4 DEF ToSet
    <3>2. QED BY <3>1 DEF KeysOf
  <2>2. ASSUME NEW n \in ToSet(names) \ {None}
        PROVE  KeyOf[n] \in KeysOf(list)
    <3> DEFINE same == {i \in DOMAIN names : names[i] # None /\ KeyOf[names[i]] = KeyOf[n]}
    <3>1. same \in SUBSET Nat /\ same # {}
      BY <1>1, <2>2 DEF ToSet
    <3>2. PICK first \in same : \A i \in same : first <= i
      BY <3>1, FirstOf
    <3>3. \A j \in 1..(first - 1) : names[j] = None \/ KeyOf[names[j]] # KeyOf[names[first]]
      BY <1>1, <3>2
    <3>4. first \in places
      BY <3>2, <3>3
    <3>5. names[first] \in ToSet(list) /\ names[first] # None /\ KeyOf[names[first]] = KeyOf[n]
      BY <1>4, <3>2, <3>4
    <3>6. QED BY <3>5 DEF KeysOf
  <2>3. QED BY <2>1, <2>2 DEF KeysOf
<1>8. ASSUME list # <<>>
      PROVE  \E i \in DOMAIN names : /\ names[i] = list[1] /\ names[i] # None
                                     /\ \A j \in 1..(i - 1) : names[j] = None
  <2>1. PICK first \in places : list[1] = names[first] /\ \A j \in places : first <= j
    BY <1>4, <1>8
  <2>2. ASSUME NEW j \in 1..(first - 1), names[j] # None
        PROVE  FALSE
    <3> DEFINE named == {i \in DOMAIN names : names[i] # None}
    <3>1. named \in SUBSET Nat /\ j \in named
      BY <1>1, <2>1, <2>2
    <3>2. PICK i \in named : \A m \in named : i <= m
      BY <3>1, FirstOf
    <3>3. \A m \in 1..(i - 1) : names[m] = None
      BY <1>1, <3>2
    <3>4. i \in places
      BY <3>2, <3>3
    <3>5. QED BY <1>1, <2>1, <2>2, <3>1, <3>2, <3>4
  <2>3. QED BY <2>1, <2>2
<1>9. QED BY <1>6, <1>7, <1>8 DEF list

\* A service is listed when its key is among those of the list.
LEMMA ListedByKey ==
  ASSUME NEW names \in Seq(Spellings)
  PROVE  /\ names \in Names
         /\ KeysOf(names) = {KeyOf[n] : n \in ToSet(names)}
         /\ KeysOf(names) \subseteq Keys
         /\ \A s : Listed(names, s) <=> KeyOf[s] \in KeysOf(names)
         /\ names = <<>> <=> KeysOf(names) = {}
         /\ names # <<>> => names[1] \in Spellings /\ KeyOf[names[1]] \in KeysOf(names)
<1>1. /\ DOMAIN names = 1..Len(names) /\ Len(names) \in Nat
      /\ \A i \in DOMAIN names : names[i] \in Spellings
  OBVIOUS
<1>2. names \in Names
  BY DEF Names
<1>3. ToSet(names) \subseteq Spellings /\ ToSet(names) \ {None} = ToSet(names)
  BY <1>1, NoneAssumption DEF ToSet
<1>4. KeysOf(names) = {KeyOf[n] : n \in ToSet(names)}
  BY <1>3 DEF KeysOf
<1>5. KeysOf(names) = {KeyOf[names[i]] : i \in DOMAIN names}
  BY <1>4 DEF ToSet
<1>6. names # <<>> => 1 \in DOMAIN names
  BY <1>1
<1>7. KeysOf(names) \subseteq Keys
  BY <1>3, <1>4, KeysAreSpellings
<1>8. \A s : Listed(names, s) <=> KeyOf[s] \in KeysOf(names)
  BY <1>5 DEF Listed
<1>9. names = <<>> <=> KeysOf(names) = {}
  <2>1. names = <<>> => DOMAIN names = {}
    OBVIOUS
  <2>2. QED BY <1>5, <1>6, <2>1
<1>10. names # <<>> => names[1] \in Spellings /\ KeyOf[names[1]] \in KeysOf(names)
  BY <1>1, <1>5, <1>6
<1>11. QED BY <1>2, <1>4, <1>7, <1>8, <1>9, <1>10

\* upsertServiceName: the services of the list, and the one that is added.
LEMMA UpsertedNames ==
  ASSUME NEW names \in Names, NEW s \in Spellings \cup {None}
  PROVE  /\ Upserted(names, s) \in Seq(Spellings)
         /\ KeysOf(Upserted(names, s)) =
              KeysOf(names) \cup (IF s = None THEN {} ELSE {KeyOf[s]})
         /\ s = None => Upserted(names, s) = Normalized(names)
<1> DEFINE list == Normalized(names)
<1>1. list \in Seq(Spellings) /\ KeysOf(list) = KeysOf(names)
  BY NormalizedNames
<1>2. s # None => (Listed(list, s) <=> KeyOf[s] \in KeysOf(list))
  BY <1>1, ListedByKey
<1> HIDE DEF list
<1>3. CASE s = None \/ Listed(list, s)
  BY <1>1, <1>2, <1>3 DEF Upserted, list
<1>4. CASE s # None /\ ~Listed(list, s)
  <2>1. Upserted(names, s) = Append(list, s)
    BY <1>4 DEF Upserted, list
  <2>2. Append(list, s) \in Seq(Spellings)
    BY <1>1, <1>4
  <2>3. ToSet(Append(list, s)) = ToSet(list) \cup {s}
    <3>1. /\ Len(list) \in Nat /\ DOMAIN list = 1..Len(list)
          /\ DOMAIN Append(list, s) = 1..(Len(list) + 1)
          /\ \A i \in 1..Len(list) : Append(list, s)[i] = list[i]
          /\ Append(list, s)[Len(list) + 1] = s
      BY <1>1, <1>4
    <3>2. \A i : i \in 1..(Len(list) + 1) <=> i \in 1..Len(list) \/ i = Len(list) + 1
      BY <3>1
    <3>3. QED BY <3>1, <3>2 DEF ToSet
  <2>4. KeysOf(Append(list, s)) = KeysOf(list) \cup {KeyOf[s]}
    <3>1. /\ KeysOf(list) = {KeyOf[n] : n \in ToSet(list)}
          /\ KeysOf(Append(list, s)) = {KeyOf[n] : n \in ToSet(Append(list, s))}
      BY <1>1, <2>2, ListedByKey
    <3>2. QED BY <2>3, <3>1
  <2>5. QED BY <1>1, <1>4, <2>1, <2>2, <2>4
<1>5. QED BY <1>3, <1>4

\* removeServiceName: the services of the list but the one that is removed.
LEMMA WithoutNames ==
  ASSUME NEW names \in Names, NEW s \in Spellings
  PROVE  /\ Without(names, s) \in Seq(Spellings)
         /\ KeysOf(Without(names, s)) = KeysOf(names) \ {KeyOf[s]}
<1> DEFINE list == Normalized(names)
           places == {i \in DOMAIN list : KeyOf[list[i]] # KeyOf[s]}
           rest == Without(names, s)
<1>1. list \in Seq(Spellings) /\ KeysOf(list) = KeysOf(names)
  BY NormalizedNames
<1>2. rest = At(list, places)
  BY DEF Without
<1>3. places \in SUBSET DOMAIN list
  OBVIOUS
<1> HIDE DEF list, rest, places
<1>4. rest \in Seq({list[j] : j \in places}) /\ ToSet(rest) = {list[j] : j \in places}
  BY <1>1, <1>2, <1>3, Kept
<1> USE DEF places
<1>5. \A j \in DOMAIN list : list[j] \in Spellings
  BY <1>1
<1>6. rest \in Seq(Spellings)
  <2>1. {list[j] : j \in places} \subseteq Spellings
    BY <1>5
  <2> HIDE DEF places
  <2>2. QED BY <1>4, <2>1
<1>7. KeysOf(rest) = {KeyOf[list[j]] : j \in places}
  BY <1>4, <1>6, ListedByKey
<1>8. KeysOf(list) = {KeyOf[list[j]] : j \in DOMAIN list}
  BY <1>1, ListedByKey DEF ToSet
<1>9. KeysOf(rest) = KeysOf(list) \ {KeyOf[s]}
  BY <1>7, <1>8
<1>10. QED BY <1>1, <1>6, <1>9 DEF rest

-----------------------------------------------------------------------------
(* What a configuration says                                                *)

\* A table has one value for each service.
Once(t) ==
  \A s, u \in Spellings : KeyOf[s] = KeyOf[u] /\ t[s] # None /\ t[u] # None => s = u

\* The endpoint a table keyed by key has for k.
Given(table, k) ==
  IF table.address[k] = None THEN None
  ELSE [address |-> table.address[k], instance |-> table.instance[k]]

\* What applyDefaults makes, and the commands keep: a scheme, a host unless none
\* was ever named, names without blanks, an active one among them, tables of their
\* endpoints by key, and no target of old that is not in the table too.
Normal(c) ==
  /\ c \in Configurations
  /\ c.scheme # None
  /\ c.legacy \in Discoveries => c.host # None
  /\ c.names \in Seq(Spellings)
  /\ c.active = None <=> c.names = <<>>
  /\ c.active # None => KeyOf[c.active] \in KeysOf(c.names)
  /\ \A s \in Spellings :
       c.table.address[s] # None \/ c.table.instance[s] # None => s \in KeysOf(c.names)
  /\ c.active # None =>
       /\ c.table.address[KeyOf[c.active]] = None => c.current.address = None
       /\ c.table.instance[KeyOf[c.active]] = None => c.current.instance = None

\* The entry of a service that a table has once.
LEMMA OneEntry ==
  ASSUME NEW d, NEW t, NEW old, NEW s \in Spellings, Once(t), t[s] # None
  PROVE  Entry(d, KeyOf[s], t, old) = t[s]
<1> DEFINE entries == {t[x] : x \in {y \in Spellings : KeyOf[y] = KeyOf[s]}} \ {None}
<1>1. entries = {t[s]}
  BY DEF Once
<1>2. (CHOOSE v \in entries : TRUE) = t[s]
  BY <1>1
<1>3. QED BY <1>1, <1>2 DEF Entry

\* The entry of a service that a table does not have.
LEMMA NoEntry ==
  ASSUME NEW d, NEW k, NEW t, NEW old, \A s \in Spellings : KeyOf[s] = k => t[s] = None
  PROVE  Entry(d, k, t, old) = IF IsActive(d, k) THEN old ELSE None
<1>1. {t[x] : x \in {y \in Spellings : KeyOf[y] = k}} \ {None} = {}
  OBVIOUS
<1>2. QED BY <1>1 DEF Entry

\* A table keyed by key has every service once; its entry is the value there.
LEMMA KeyedEntry ==
  ASSUME NEW d, NEW t, NEW old, \A s \in Spellings : t[s] # None => s \in Keys
  PROVE  /\ Once(t)
         /\ \A k \in Keys : Entry(d, k, t, old) =
              IF t[k] # None THEN t[k] ELSE IF IsActive(d, k) THEN old ELSE None
<1>1. Once(t)
  BY KeysAreSpellings DEF Once
<1>2. ASSUME NEW k \in Keys
      PROVE  Entry(d, k, t, old) =
               IF t[k] # None THEN t[k] ELSE IF IsActive(d, k) THEN old ELSE None
  <2>1. k \in Spellings /\ KeyOf[k] = k
    BY KeysAreSpellings
  <2>2. CASE t[k] # None
    BY <1>1, <2>1, <2>2, OneEntry
  <2>3. CASE t[k] = None
    <3>1. \A s \in Spellings : KeyOf[s] = k => t[s] = None
      BY <2>3, KeysAreSpellings
    <3>2. QED BY <2>3, <3>1, NoEntry
  <2>4. QED BY <2>2, <2>3
<1>3. QED BY <1>1, <1>2

\* A normal configuration says what its fields say.
LEMMA NormalSays ==
  ASSUME NEW c, Normal(c)
  PROVE  /\ Unambiguous(c)
         /\ SourceOf(c) = IF c.host = None THEN None ELSE [scheme |-> c.scheme, host |-> c.host]
         /\ ServicesOf(c) = KeysOf(c.names)
         /\ \A k \in Keys : EndpointOf(c, k) = Given(c.table, k)
<1> DEFINE address == c.table.address
           instance == c.table.instance
<1>1. /\ c.names \in Seq(Spellings) /\ KeysOf(c.names) \subseteq Keys
      /\ c.names = <<>> <=> KeysOf(c.names) = {}
      /\ KeysOf(c.names) = {KeyOf[n] : n \in ToSet(c.names)}
      /\ c.active \in Spellings \cup {None}
  BY ListedByKey DEF Normal, Configurations
<1>2. /\ \A s \in Spellings : address[s] # None => s \in KeysOf(c.names)
      /\ \A s \in Spellings : instance[s] # None => s \in KeysOf(c.names)
  BY DEF Normal
<1>3. Unambiguous(c)
  <2>1. Once(address) /\ Once(instance)
    BY <1>1, <1>2, KeyedEntry
  <2>2. QED BY <2>1 DEF Unambiguous, Once
<1>4. SourceOf(c) = IF c.host = None THEN None ELSE [scheme |-> c.scheme, host |-> c.host]
  BY DEF SourceOf, Normal
<1>5. ServicesOf(c) = KeysOf(c.names)
  <2>1. ToSet(c.names) \subseteq Spellings
    BY <1>1 DEF ToSet
  <2>2. ServicesOf(c) = {KeyOf[n] : n \in ToSet(c.names)} \cup
                        (IF c.active = None THEN {} ELSE {KeyOf[c.active]})
    BY <1>1, <2>1, NoneAssumption DEF ServicesOf
  <2>3. c.active # None => KeyOf[c.active] \in KeysOf(c.names)
    BY DEF Normal
  <2>4. QED BY <1>1, <2>2, <2>3
<1>6. ASSUME NEW k \in Keys
      PROVE  EndpointOf(c, k) = Given(c.table, k)
  <2>1. Entry(c, k, address, c.current.address) =
          IF address[k] # None THEN address[k]
          ELSE IF IsActive(c, k) THEN c.current.address ELSE None
    BY <1>1, <1>2, KeyedEntry
  <2>2. Entry(c, k, instance, c.current.instance) =
          IF instance[k] # None THEN instance[k]
          ELSE IF IsActive(c, k) THEN c.current.instance ELSE None
    BY <1>1, <1>2, KeyedEntry
  <2>3. IsActive(c, k) => c.active # None /\ KeyOf[c.active] = k
    <3>1. c.active = None => DOMAIN c.names = {}
      BY DEF Normal
    <3>2. QED BY <3>1 DEF IsActive
  <2>4. /\ IsActive(c, k) /\ address[k] = None => c.current.address = None
        /\ IsActive(c, k) /\ instance[k] = None => c.current.instance = None
    BY <2>3 DEF Normal
  <2>5. /\ Entry(c, k, address, c.current.address) = address[k]
        /\ Entry(c, k, instance, c.current.instance) = instance[k]
    BY <2>1, <2>2, <2>4
  <2>6. address[k] # None => k \in ServicesOf(c)
    BY <1>2, <1>5, KeysAreSpellings
  <2>7. QED BY <2>5, <2>6 DEF EndpointOf, Given
<1>7. QED BY <1>3, <1>4, <1>5, <1>6

\* normalizeServiceValues keeps values of the services listed, by key.
LEMMA NormalListed ==
  ASSUME NEW t, NEW names \in Seq(Spellings)
  PROVE  \A s \in Spellings : NormalTable(names, t)[s] # None => s \in KeysOf(names)
<1>1. \A k \in Keys : Listed(names, k) <=> k \in KeysOf(names)
  BY ListedByKey, KeysAreSpellings
<1>2. QED BY <1>1 DEF NormalTable

\* They are values of the table.
LEMMA NormalType ==
  ASSUME NEW V, None \in V, NEW t \in [Spellings -> V], NEW names
  PROVE  NormalTable(names, t) \in [Spellings -> V]
<1>1. \A k : (\E s \in Spellings : KeyOf[s] = k /\ t[s] # None) =>
               t[CHOOSE s \in Spellings : KeyOf[s] = k /\ t[s] # None] \in V
  OBVIOUS
<1>2. QED BY <1>1 DEF NormalTable

\* It keeps the entry of each.
LEMMA NormalValue ==
  ASSUME NEW t, Once(t), NEW names \in Seq(Spellings), NEW k \in KeysOf(names),
         NEW d, NEW old
  PROVE  Entry(d, k, t, old) =
           IF NormalTable(names, t)[k] # None THEN NormalTable(names, t)[k]
           ELSE IF IsActive(d, k) THEN old ELSE None
<1>1. k \in Keys /\ k \in Spellings /\ Listed(names, k)
  BY ListedByKey, KeysAreSpellings
<1>2. CASE \E s \in Spellings : KeyOf[s] = k /\ t[s] # None
  <2>1. PICK s \in Spellings : /\ KeyOf[s] = k /\ t[s] # None
                               /\ s = CHOOSE x \in Spellings : KeyOf[x] = k /\ t[x] # None
    BY <1>2
  <2>2. NormalTable(names, t)[k] = t[s]
    BY <1>1, <1>2, <2>1 DEF NormalTable
  <2>3. Entry(d, KeyOf[s], t, old) = t[s]
    BY <2>1, OneEntry
  <2>4. QED BY <2>1, <2>2, <2>3
<1>3. CASE \A s \in Spellings : KeyOf[s] = k => t[s] = None
  <2>1. NormalTable(names, t)[k] = None
    BY <1>1, <1>3 DEF NormalTable
  <2>2. QED BY <1>3, <2>1, NoEntry
<1>4. QED BY <1>2, <1>3

\* backfillFromLegacy fills in the scheme and the host that are missing, and says
\* what was said.
LEMMA BackfilledSays ==
  ASSUME NEW d \in Configurations
  PROVE  LET b == Backfilled(d)
             scheme == IF b.scheme = None THEN "http" ELSE b.scheme
         IN /\ b \in Configurations
            /\ b.legacy = d.legacy /\ b.active = d.active /\ b.names = d.names
            /\ b.table = d.table /\ b.current = d.current
            /\ b.legacy \in Discoveries => b.host # None
            /\ SourceOf(d) = IF b.host = None THEN None ELSE [scheme |-> scheme, host |-> b.host]
<1>1. CASE d.legacy \in Discoveries
  <2> DEFINE b == Backfilled(d)
  <2>1. b = [d EXCEPT !.scheme = IF @ = None THEN d.legacy.scheme ELSE @,
                      !.host = IF @ = None THEN d.legacy.host ELSE @]
    BY <1>1 DEF Backfilled
  <2>2. /\ d.legacy.scheme \in Schemes /\ d.legacy.host \in Hosts
        /\ d.legacy.scheme # None /\ d.legacy.host # None
    BY <1>1, NoneAssumption DEF Discoveries
  <2>3. /\ b.scheme = IF d.scheme = None THEN d.legacy.scheme ELSE d.scheme
        /\ b.host = IF d.host = None THEN d.legacy.host ELSE d.host
        /\ b.legacy = d.legacy /\ b.active = d.active /\ b.names = d.names
        /\ b.table = d.table /\ b.current = d.current
    BY <2>1 DEF Configurations
  <2>4. b \in Configurations
    BY <2>1, <2>2 DEF Configurations
  <2> HIDE DEF b
  <2>5. SourceOf(d) = [scheme |-> b.scheme, host |-> b.host] /\ b.host # None /\ b.scheme # None
    BY <1>1, <2>2, <2>3 DEF SourceOf
  <2>6. QED BY <2>3, <2>4, <2>5 DEF b
<1>2. CASE d.legacy \notin Discoveries
  <2>1. Backfilled(d) = d
    BY <1>2 DEF Backfilled
  <2>2. QED BY <1>2, <2>1 DEF SourceOf
<1>3. QED BY <1>1, <1>2

\* One of the tables applyDefaults makes: the values of the services listed, the
\* one at key from the field of old unless there is one.
Merged(names, t, key, old) ==
  [NormalTable(names, t) EXCEPT ![key] = IF @ # None THEN @ ELSE old]

\* Its values are values of the table and of the field.
LEMMA MergedType ==
  ASSUME NEW V, None \in V, NEW t \in [Spellings -> V], NEW names, NEW old \in V, NEW key
  PROVE  Merged(names, t, key, old) \in [Spellings -> V]
<1>1. NormalTable(names, t) \in [Spellings -> V]
  BY NormalType
<1>2. QED BY <1>1 DEF Merged

\* The field of old has nothing that it has not.
LEMMA MergedListed ==
  ASSUME NEW t, NEW names \in Seq(Spellings), NEW old, NEW key \in KeysOf(names)
  PROVE  /\ \A s \in Spellings : Merged(names, t, key, old)[s] # None => s \in KeysOf(names)
         /\ Merged(names, t, key, old)[key] = None => old = None
<1>1. \A s \in Spellings : NormalTable(names, t)[s] # None => s \in KeysOf(names)
  BY NormalListed
<1>2. key \in Spellings
  BY ListedByKey, KeysAreSpellings
<1>3. DOMAIN NormalTable(names, t) = Spellings
  BY DEF NormalTable
<1>4. QED BY <1>1, <1>2, <1>3 DEF Merged

\* With the active service at key, it has the entry of every service.
LEMMA MergedValues ==
  ASSUME NEW t, Once(t), NEW names \in Seq(Spellings), NEW old,
         NEW key \in KeysOf(names), NEW d,
         \A k \in KeysOf(names) : IsActive(d, k) <=> k = key
  PROVE  \A k \in KeysOf(names) : Merged(names, t, key, old)[k] = Entry(d, k, t, old)
<1> DEFINE normal == NormalTable(names, t)
<1>1. ASSUME NEW k \in KeysOf(names)
      PROVE  Entry(d, k, t, old) =
               IF normal[k] # None THEN normal[k] ELSE IF IsActive(d, k) THEN old ELSE None
  BY NormalValue
<1>2. KeysOf(names) \subseteq Spellings
  BY ListedByKey, KeysAreSpellings
<1>3. DOMAIN normal = Spellings
  BY DEF NormalTable
<1>4. \A k \in Spellings : Merged(names, t, key, old)[k] =
        IF k = key THEN IF normal[k] # None THEN normal[k] ELSE old ELSE normal[k]
  BY <1>3 DEF Merged
<1>5. QED BY <1>1, <1>2, <1>4

\* The services of a file, and its active one: those of the list that applyDefaults
\* makes, and the one it takes.
LEMMA ActiveOf ==
  ASSUME NEW d \in Configurations
  PROVE  LET names == Upserted(d.names, d.active)
             active == IF d.active = None /\ names # <<>> THEN names[1] ELSE d.active
         IN /\ names \in Seq(Spellings)
            /\ ServicesOf(d) = KeysOf(names)
            /\ active \in Spellings \cup {None}
            /\ active = None <=> names = <<>>
            /\ active # None => KeyOf[active] \in KeysOf(names)
            /\ \A k : IsActive(d, k) <=> active # None /\ k = KeyOf[active]
<1> DEFINE names == Upserted(d.names, d.active)
           active == IF d.active = None /\ names # <<>> THEN names[1] ELSE d.active
<1>1. d.names \in Names /\ d.active \in Spellings \cup {None}
  BY DEF Configurations, Names
<1>2. /\ names \in Seq(Spellings)
      /\ KeysOf(names) = KeysOf(d.names) \cup (IF d.active = None THEN {} ELSE {KeyOf[d.active]})
      /\ d.active = None => names = Normalized(d.names)
  BY <1>1, UpsertedNames
<1> HIDE DEF names
<1>3. ServicesOf(d) = KeysOf(names)
  BY <1>2 DEF ServicesOf, KeysOf
<1>4. /\ names = <<>> <=> KeysOf(names) = {}
      /\ names # <<>> => names[1] \in Spellings /\ KeyOf[names[1]] \in KeysOf(names)
  BY <1>2, ListedByKey
<1>5. /\ active \in Spellings \cup {None}
      /\ active = None <=> names = <<>>
      /\ active # None => KeyOf[active] \in KeysOf(names)
  <2>1. None \notin Spellings
    BY NoneAssumption
  <2>2. QED BY <1>1, <1>2, <1>4, <2>1
<1>6. ASSUME NEW k
      PROVE  IsActive(d, k) <=> active # None /\ k = KeyOf[active]
  <2>1. CASE d.active # None
    BY <2>1 DEF IsActive
  <2>2. CASE d.active = None /\ names = <<>>
    <3>1. \A i \in DOMAIN d.names : d.names[i] = None
      <4>1. KeysOf(d.names) = {}
        BY <1>2, <1>4, <2>2
      <4>2. QED BY <4>1 DEF KeysOf, ToSet
    <3>2. QED BY <2>2, <3>1 DEF IsActive
  <2>3. CASE d.active = None /\ names # <<>>
    <3>1. PICK i \in DOMAIN d.names : /\ d.names[i] = names[1] /\ d.names[i] # None
                                      /\ \A j \in 1..(i - 1) : d.names[j] = None
      BY <1>1, <1>2, <2>3, NormalizedNames
    <3>2. DOMAIN d.names = 1..Len(d.names) /\ Len(d.names) \in Nat
      BY <1>1 DEF Names
    <3>3. \A m \in DOMAIN d.names :
            d.names[m] # None /\ (\A j \in 1..(m - 1) : d.names[j] = None) => m = i
      BY <3>1, <3>2
    <3>4. active = names[1]
      BY <2>3
    <3>5. QED BY <2>3, <3>1, <3>3, <3>4 DEF IsActive
  <2>4. QED BY <2>1, <2>2, <2>3
<1>7. QED BY <1>2, <1>3, <1>5, <1>6 DEF names

\* The fields of what applyDefaults makes of a file that names no service.
LEMMA EffectiveOfNone ==
  ASSUME NEW d \in Configurations, Unambiguous(d),
         Upserted(d.names, d.active) = <<>>
  PROVE  LET c == Effective(d)
             b == Backfilled(d)
             blank == [s \in Spellings |-> None]
         IN /\ c \in Configurations
            /\ c.scheme = IF b.scheme = None THEN "http" ELSE b.scheme
            /\ c.host = b.host /\ c.legacy = b.legacy
            /\ c.names = <<>> /\ c.active = None
            /\ c.table = [address |-> blank, instance |-> blank]
            /\ c.current = d.current
<1> DEFINE b == Backfilled(d)
           blank == [s \in Spellings |-> None]
           table == [address |-> blank, instance |-> blank]
<1>1. d.active = None
  BY ActiveOf
<1>2. b \in Configurations
  BY BackfilledSays
<1>3. \A t : NormalTable(<<>>, t) = blank
  BY DEF NormalTable, Listed
<1> HIDE DEF b
<1>4. Effective(d) = [b EXCEPT !.scheme = IF @ = None THEN "http" ELSE @,
                               !.names = <<>>, !.active = None, !.table = table,
                               !.current = d.current]
  BY <1>1, <1>3 DEF Effective, b
<1>5. /\ table \in [address : [Spellings -> Addresses \cup {None}],
                    instance : [Spellings -> Instances \cup {None}]]
      /\ <<>> \in Seq(Spellings \cup {None})
  OBVIOUS
<1> HIDE DEF table
<1>6. d.current \in [address : Addresses \cup {None}, instance : Instances \cup {None}]
  BY DEF Configurations
<1>7. Effective(d) \in Configurations
  BY <1>2, <1>4, <1>5, <1>6 DEF Configurations, Schemes
<1>8. /\ Effective(d).scheme = IF b.scheme = None THEN "http" ELSE b.scheme
      /\ Effective(d).host = b.host /\ Effective(d).legacy = b.legacy
      /\ Effective(d).names = <<>> /\ Effective(d).active = None
      /\ Effective(d).table = table
      /\ Effective(d).current = d.current
  BY <1>2, <1>4 DEF Configurations
<1>9. QED BY <1>7, <1>8 DEF b, table

\* The fields of what applyDefaults makes of a file that names a service: in both
\* tables the entry of every service listed, and in the fields of old what they
\* said or else the entry of the active one.
LEMMA EffectiveOfSome ==
  ASSUME NEW d \in Configurations, Unambiguous(d),
         Upserted(d.names, d.active) # <<>>
  PROVE  LET c == Effective(d)
             b == Backfilled(d)
             names == Upserted(d.names, d.active)
             key == KeyOf[c.active]
         IN /\ c \in Configurations
            /\ c.scheme = IF b.scheme = None THEN "http" ELSE b.scheme
            /\ c.host = b.host /\ c.legacy = b.legacy
            /\ c.names = names
            /\ c.active = IF d.active = None THEN names[1] ELSE d.active
            /\ \A s \in Spellings :
                 c.table.address[s] # None \/ c.table.instance[s] # None => s \in KeysOf(names)
            /\ \A k \in KeysOf(names) :
                 /\ c.table.address[k] = Entry(d, k, d.table.address, d.current.address)
                 /\ c.table.instance[k] = Entry(d, k, d.table.instance, d.current.instance)
            /\ c.current = Or(d.current, Get(c.table, c.active))
            /\ c.table.address[key] = None => d.current.address = None
            /\ c.table.instance[key] = None => d.current.instance = None
<1> DEFINE b == Backfilled(d)
           names == Upserted(d.names, d.active)
           active == IF d.active = None THEN names[1] ELSE d.active
           key == KeyOf[active]
           tableA == Merged(names, d.table.address, key, d.current.address)
           tableI == Merged(names, d.table.instance, key, d.current.instance)
           table == [address |-> tableA, instance |-> tableI]
           current == Or(d.current, Get(table, active))
<1>1. /\ names \in Seq(Spellings) /\ active \in Spellings /\ active # None
      /\ key \in KeysOf(names)
      /\ \A k : IsActive(d, k) <=> k = key
  BY ActiveOf
<1>2. b \in Configurations
  BY BackfilledSays
<1>3. /\ d.table.address \in [Spellings -> Addresses \cup {None}] /\ Once(d.table.address)
      /\ d.table.instance \in [Spellings -> Instances \cup {None}] /\ Once(d.table.instance)
      /\ d.current.address \in Addresses \cup {None}
      /\ d.current.instance \in Instances \cup {None}
      /\ d.current = [address |-> d.current.address, instance |-> d.current.instance]
  BY DEF Configurations, Unambiguous, Once
<1> HIDE DEF names, b
<1> HIDE DEF active
<1>4. /\ tableA \in [Spellings -> Addresses \cup {None}]
      /\ tableA[key] = None => d.current.address = None
      /\ \A s \in Spellings : tableA[s] # None => s \in KeysOf(names)
      /\ \A k \in KeysOf(names) : tableA[k] = Entry(d, k, d.table.address, d.current.address)
  <2>1. key \in KeysOf(names) /\ \A k \in KeysOf(names) : IsActive(d, k) <=> k = key
    BY <1>1
  <2> HIDE DEF key
  <2>2. tableA \in [Spellings -> Addresses \cup {None}]
    BY <1>3, MergedType
  <2>3. \A k \in KeysOf(names) : tableA[k] = Entry(d, k, d.table.address, d.current.address)
    BY <1>1, <1>3, <2>1, MergedValues
  <2>4. QED BY <1>1, <2>1, <2>2, <2>3, MergedListed
<1>5. /\ tableI \in [Spellings -> Instances \cup {None}]
      /\ tableI[key] = None => d.current.instance = None
      /\ \A s \in Spellings : tableI[s] # None => s \in KeysOf(names)
      /\ \A k \in KeysOf(names) : tableI[k] = Entry(d, k, d.table.instance, d.current.instance)
  <2>1. key \in KeysOf(names) /\ \A k \in KeysOf(names) : IsActive(d, k) <=> k = key
    BY <1>1
  <2> HIDE DEF key
  <2>2. tableI \in [Spellings -> Instances \cup {None}]
    BY <1>3, MergedType
  <2>3. \A k \in KeysOf(names) : tableI[k] = Entry(d, k, d.table.instance, d.current.instance)
    BY <1>1, <1>3, <2>1, MergedValues
  <2>4. QED BY <1>1, <2>1, <2>2, <2>3, MergedListed
<1>6. ASSUME NEW normal,
             normal = [address |-> NormalTable(names, d.table.address),
                       instance |-> NormalTable(names, d.table.instance)]
      PROVE  Set(normal, active, Or(Get(normal, active), d.current)) = table
  BY <1>6 DEF Set, Or, Get, Merged
<1>7. names # <<>>
  BY DEF names
<1> HIDE DEF table, current, tableA, tableI
<1>8. Effective(d) = [b EXCEPT !.scheme = IF @ = None THEN "http" ELSE @,
                               !.names = names, !.active = active, !.table = table,
                               !.current = current]
  BY <1>1, <1>6, <1>7 DEF Effective, b, names, active, current
<1>9. table = [address |-> tableA, instance |-> tableI] /\ key \in Spellings
  BY <1>1, ListedByKey, KeysAreSpellings DEF table
<1>10. current \in [address : Addresses \cup {None}, instance : Instances \cup {None}]
  BY <1>3, <1>4, <1>5, <1>9 DEF current, Or, Get
<1>11. table \in [address : [Spellings -> Addresses \cup {None}],
                  instance : [Spellings -> Instances \cup {None}]]
  BY <1>4, <1>5, <1>9
<1>12. names \in Seq(Spellings \cup {None})
  BY <1>1, ListedByKey DEF Names
<1>13. Effective(d) \in Configurations
  <2> DEFINE scheme == IF b.scheme = None THEN "http" ELSE b.scheme
  <2>1. scheme \in Schemes \cup {None}
    BY <1>2 DEF Configurations, Schemes
  <2>2. Effective(d) = [b EXCEPT !.scheme = scheme, !.names = names, !.active = active,
                                 !.table = table, !.current = current]
    BY <1>8
  <2> HIDE DEF scheme, key
  <2>3. QED BY <1>1, <1>2, <1>10, <1>11, <1>12, <2>1, <2>2 DEF Configurations
<1>14. /\ Effective(d).scheme = IF b.scheme = None THEN "http" ELSE b.scheme
       /\ Effective(d).host = b.host /\ Effective(d).legacy = b.legacy
       /\ Effective(d).names = names /\ Effective(d).active = active
       /\ Effective(d).table = table
       /\ Effective(d).current = current
  BY <1>2, <1>8 DEF Configurations
<1>15. QED
  BY <1>4, <1>5, <1>9, <1>13, <1>14 DEF b, names, active, current, key

\* Whatever a file says, applyDefaults makes a normal configuration of it, which
\* says the same.
LEMMA EffectiveSays ==
  ASSUME NEW d \in Configurations, Unambiguous(d)
  PROVE  /\ Normal(Effective(d))
         /\ SourceOf(Effective(d)) = SourceOf(d)
         /\ ServicesOf(Effective(d)) = ServicesOf(d)
         /\ \A k \in Keys : EndpointOf(Effective(d), k) = EndpointOf(d, k)
<1> DEFINE c == Effective(d)
           b == Backfilled(d)
           names == Upserted(d.names, d.active)
<1>1. /\ names \in Seq(Spellings) /\ ServicesOf(d) = KeysOf(names)
      /\ names = <<>> <=> KeysOf(names) = {}
  BY ActiveOf, ListedByKey
<1>2. /\ b \in Configurations /\ (b.legacy \in Discoveries => b.host # None)
      /\ SourceOf(d) = IF b.host = None THEN None
                       ELSE [scheme |-> IF b.scheme = None THEN "http" ELSE b.scheme,
                             host |-> b.host]
      /\ "http" # None
  BY BackfilledSays, NoneAssumption DEF Schemes
<1>3. /\ c \in Configurations /\ c.host = b.host /\ c.legacy = b.legacy
      /\ c.scheme = IF b.scheme = None THEN "http" ELSE b.scheme
      /\ c.names = names
  <2>1. CASE names = <<>>
    BY <2>1, EffectiveOfNone
  <2>2. CASE names # <<>>
    BY <2>2, EffectiveOfSome
  <2>3. QED BY <2>1, <2>2
<1>4. /\ c.scheme # None
      /\ c.legacy \in Discoveries => c.host # None
  BY <1>2, <1>3
<1>5. CASE names = <<>>
  <2>1. /\ c.active = None
        /\ \A s \in Spellings : c.table.address[s] = None /\ c.table.instance[s] = None
    BY <1>5, EffectiveOfNone
  <2>2. Normal(c)
    BY <1>1, <1>3, <1>4, <1>5, <2>1 DEF Normal
  <2>3. \A k \in Keys : Given(c.table, k) = None /\ EndpointOf(d, k) = None
    BY <1>1, <1>5, <2>1, KeysAreSpellings DEF Given, EndpointOf
  <2>4. QED BY <1>1, <1>2, <1>3, <2>2, <2>3, NormalSays
<1>6. CASE names # <<>>
  <2>1. /\ c.active = IF d.active = None THEN names[1] ELSE d.active
        /\ \A s \in Spellings :
             c.table.address[s] # None \/ c.table.instance[s] # None => s \in KeysOf(names)
        /\ \A k \in KeysOf(names) :
             /\ c.table.address[k] = Entry(d, k, d.table.address, d.current.address)
             /\ c.table.instance[k] = Entry(d, k, d.table.instance, d.current.instance)
        /\ c.current = Or(d.current, Get(c.table, c.active))
        /\ c.table.address[KeyOf[c.active]] = None => d.current.address = None
        /\ c.table.instance[KeyOf[c.active]] = None => d.current.instance = None
    BY <1>6, EffectiveOfSome
  <2>2. c.active # None /\ KeyOf[c.active] \in KeysOf(names)
    BY <1>6, <2>1, ActiveOf
  <2>3. /\ c.table.address[KeyOf[c.active]] = None => c.current.address = None
        /\ c.table.instance[KeyOf[c.active]] = None => c.current.instance = None
    BY <2>1 DEF Or, Get
  <2>4. Normal(c)
    BY <1>1, <1>3, <1>4, <1>6, <2>1, <2>2, <2>3 DEF Normal
  <2>5. ASSUME NEW k \in Keys
        PROVE  Given(c.table, k) = EndpointOf(d, k)
    <3>1. CASE k \in KeysOf(names)
      BY <1>1, <2>1, <3>1 DEF Given, EndpointOf
    <3>2. CASE k \notin KeysOf(names)
      BY <1>1, <2>1, <3>2, KeysAreSpellings DEF Given, EndpointOf
    <3>3. QED BY <3>1, <3>2
  <2>6. QED BY <1>1, <1>2, <1>3, <2>4, <2>5, NormalSays
<1>7. QED BY <1>5, <1>6

-----------------------------------------------------------------------------
(* What the commands edit                                                   *)

\* setServiceValue and deleteServiceValue change the value of one service.
LEMMA SetValues ==
  ASSUME NEW table, NEW s \in Spellings, NEW e,
         DOMAIN table.address = Spellings, DOMAIN table.instance = Spellings
  PROVE  \A k \in Spellings :
           /\ Set(table, s, e).address[k] = IF k = KeyOf[s] THEN e.address ELSE table.address[k]
           /\ Set(table, s, e).instance[k] = IF k = KeyOf[s] THEN e.instance ELSE table.instance[k]
BY DEF Set

\* They keep the types of the tables.
LEMMA SetType ==
  ASSUME NEW table, NEW s, NEW e, NEW V, NEW W,
         table.address \in [Spellings -> V], e.address \in V,
         table.instance \in [Spellings -> W], e.instance \in W
  PROVE  Set(table, s, e) \in [address : [Spellings -> V], instance : [Spellings -> W]]
BY DEF Set

\* db init: the discovery changes, and nothing else.
LEMMA InitEdits ==
  ASSUME NEW c, Normal(c), NEW discovery \in Discoveries
  PROVE  LET e == [c EXCEPT !.scheme = discovery.scheme, !.host = discovery.host,
                            !.legacy = None]
         IN /\ Normal(e)
            /\ SourceOf(e) = discovery
            /\ ServicesOf(e) = ServicesOf(c)
            /\ \A k \in Keys : EndpointOf(e, k) = EndpointOf(c, k)
            /\ Settled(c) => Settled(e)
<1> DEFINE e == [c EXCEPT !.scheme = discovery.scheme, !.host = discovery.host, !.legacy = None]
<1>1. /\ discovery.scheme \in Schemes /\ discovery.host \in Hosts
      /\ discovery.scheme # None /\ discovery.host # None
      /\ discovery = [scheme |-> discovery.scheme, host |-> discovery.host]
      /\ None \notin Discoveries
  BY NoneAssumption DEF Discoveries
<1>2. /\ e.scheme = discovery.scheme /\ e.host = discovery.host /\ e.legacy = None
      /\ e.active = c.active /\ e.names = c.names /\ e.table = c.table /\ e.current = c.current
  BY DEF Normal, Configurations
<1>3. e \in Configurations
  BY <1>1 DEF Normal, Configurations
<1> HIDE DEF e
<1>4. Normal(e)
  BY <1>1, <1>2, <1>3 DEF Normal
<1>5. Settled(c) => Settled(e)
  BY <1>2 DEF Settled
<1>6. QED BY <1>1, <1>2, <1>4, <1>5, NormalSays DEF e

\* What db add saves.
Added(c, s, n) == [c EXCEPT !.active = s, !.names = Upserted(@, s), !.table = Set(@, s, n),
                            !.current = n, !.legacy = None]

\* db add: the service is listed and has its endpoint; it is the active one, and
\* settled.
LEMMA AddEdits ==
  ASSUME NEW c, Normal(c), c.host # None, NEW s \in Spellings, NEW n \in Endpoints
  PROVE  /\ Normal(Added(c, s, n)) /\ Added(c, s, n).names # <<>>
         /\ SourceOf(Added(c, s, n)) = SourceOf(c)
         /\ ServicesOf(Added(c, s, n)) = ServicesOf(c) \cup {KeyOf[s]}
         /\ \A k \in Keys : EndpointOf(Added(c, s, n), k) =
              IF k = KeyOf[s] THEN [address |-> n.address, instance |-> n.instance]
              ELSE EndpointOf(c, k)
         /\ Settled(Added(c, s, n))
<1> DEFINE names == Upserted(c.names, s)
           table == Set(c.table, s, n)
           e == Added(c, s, n)
<1>1. /\ c \in Configurations /\ c.names \in Seq(Spellings) /\ c.names \in Names
      /\ c.scheme # None /\ s # None /\ None \notin Discoveries
      /\ c.table.address \in [Spellings -> Addresses \cup {None}]
      /\ c.table.instance \in [Spellings -> Instances \cup {None}]
  BY NoneAssumption, ListedByKey DEF Normal, Configurations
<1>2. /\ n \in [address : Addresses \cup {None}, instance : Instances \cup {None}]
      /\ n.address \in Addresses /\ n.address # None /\ n.instance \in Instances \cup {None}
  BY EndpointAssumption DEF Routes
<1>3. /\ names \in Seq(Spellings) /\ KeysOf(names) = KeysOf(c.names) \cup {KeyOf[s]}
      /\ names \in Names /\ names # <<>>
  <2>1. names \in Seq(Spellings) /\ KeysOf(names) = KeysOf(c.names) \cup {KeyOf[s]}
    BY <1>1, UpsertedNames
  <2> HIDE DEF names
  <2>2. QED BY <2>1, ListedByKey
<1>4. /\ \A k \in Spellings :
           /\ table.address[k] = IF k = KeyOf[s] THEN n.address ELSE c.table.address[k]
           /\ table.instance[k] = IF k = KeyOf[s] THEN n.instance ELSE c.table.instance[k]
      /\ table \in [address : [Spellings -> Addresses \cup {None}],
                    instance : [Spellings -> Instances \cup {None}]]
  <2>1. PICK old : old = c.table /\ DOMAIN old.address = Spellings /\ DOMAIN old.instance = Spellings
    BY <1>1
  <2>2. \A k \in Spellings :
          /\ Set(old, s, n).address[k] = IF k = KeyOf[s] THEN n.address ELSE old.address[k]
          /\ Set(old, s, n).instance[k] = IF k = KeyOf[s] THEN n.instance ELSE old.instance[k]
    BY <2>1, SetValues
  <2>3. Set(old, s, n) \in [address : [Spellings -> Addresses \cup {None}],
                           instance : [Spellings -> Instances \cup {None}]]
    BY <1>1, <1>2, <2>1, SetType
  <2>4. QED BY <2>1, <2>2, <2>3
<1>5. e = [c EXCEPT !.active = s, !.names = names, !.table = table, !.current = n, !.legacy = None]
  BY DEF Added
<1> HIDE DEF e, names, table
<1>6. /\ e.scheme = c.scheme /\ e.host = c.host /\ e.legacy = None
      /\ e.active = s /\ e.names = names /\ e.table = table /\ e.current = n
  BY <1>1, <1>5 DEF Configurations
<1>7. e \in Configurations
  BY <1>1, <1>2, <1>3, <1>4, <1>5 DEF Configurations, Names
<1>8. KeyOf[s] \in Spellings
  BY KeysAreSpellings
<1>9. \A k \in Spellings :
        c.table.address[k] # None \/ c.table.instance[k] # None => k \in KeysOf(c.names)
  BY DEF Normal
<1>10. Normal(e)
  BY <1>1, <1>3, <1>4, <1>6, <1>7, <1>8, <1>9 DEF Normal
<1>11. ASSUME NEW k \in Keys
       PROVE  EndpointOf(e, k) = IF k = KeyOf[s]
                                 THEN [address |-> n.address, instance |-> n.instance]
                                 ELSE EndpointOf(c, k)
  <2>1. EndpointOf(e, k) = Given(table, k) /\ EndpointOf(c, k) = Given(c.table, k)
    BY <1>6, <1>10, NormalSays
  <2>2. QED BY <1>2, <1>4, <2>1, KeysAreSpellings DEF Given
<1>12. Settled(e)
  <2>1. Get(table, s) = [address |-> n.address, instance |-> n.instance]
    BY <1>4, <1>8 DEF Get
  <2>2. QED BY <1>1, <1>2, <1>6, <2>1 DEF Settled
<1>13. SourceOf(e) = SourceOf(c) /\ ServicesOf(e) = ServicesOf(c) \cup {KeyOf[s]}
  BY <1>3, <1>6, <1>10, NormalSays
<1>14. QED BY <1>3, <1>6, <1>10, <1>11, <1>12, <1>13 DEF e

\* db remove: the service is no longer listed, and has no endpoint; another one is
\* active, if any is left, and settled.
LEMMA RemoveEdits ==
  ASSUME NEW c, Normal(c), NEW s \in Spellings, KeyOf[s] \in KeysOf(c.names)
  PROVE  LET rest == [c EXCEPT !.names = Without(@, s), !.table = Set(@, s, Nothing)]
             e == IF c.active # None /\ KeyOf[c.active] = KeyOf[s] THEN Deactivated(rest) ELSE rest
         IN /\ Normal(e)
            /\ SourceOf(e) = SourceOf(c)
            /\ ServicesOf(e) = ServicesOf(c) \ {KeyOf[s]}
            /\ \A k \in Keys : EndpointOf(e, k) = IF k = KeyOf[s] THEN None ELSE EndpointOf(c, k)
            /\ Settled(c) => Settled(e)
<1> DEFINE names == Without(c.names, s)
           table == Set(c.table, s, Nothing)
           rest == [c EXCEPT !.names = Without(@, s), !.table = Set(@, s, Nothing)]
           e == IF c.active # None /\ KeyOf[c.active] = KeyOf[s] THEN Deactivated(rest) ELSE rest
<1>1. /\ c \in Configurations /\ c.names \in Seq(Spellings) /\ c.names \in Names
      /\ c.scheme # None /\ None \notin Spellings
      /\ c.legacy \in Discoveries => c.host # None
      /\ c.active \in Spellings \cup {None}
      /\ c.active # None => KeyOf[c.active] \in KeysOf(c.names)
      /\ c.names = <<>> <=> KeysOf(c.names) = {}
      /\ c.active = None <=> c.names = <<>>
      /\ c.table.address \in [Spellings -> Addresses \cup {None}]
      /\ c.table.instance \in [Spellings -> Instances \cup {None}]
  BY NoneAssumption, ListedByKey DEF Normal, Configurations
<1>2. /\ names \in Seq(Spellings) /\ names \in Names
      /\ KeysOf(names) = KeysOf(c.names) \ {KeyOf[s]}
      /\ names = <<>> <=> KeysOf(names) = {}
      /\ names # <<>> => names[1] \in Spellings /\ KeyOf[names[1]] \in KeysOf(names)
  <2>1. names \in Seq(Spellings) /\ KeysOf(names) = KeysOf(c.names) \ {KeyOf[s]}
    BY <1>1, WithoutNames
  <2> HIDE DEF names
  <2>2. QED BY <2>1, ListedByKey
<1>3. /\ \A k \in Spellings :
           /\ table.address[k] = IF k = KeyOf[s] THEN None ELSE c.table.address[k]
           /\ table.instance[k] = IF k = KeyOf[s] THEN None ELSE c.table.instance[k]
      /\ table \in [address : [Spellings -> Addresses \cup {None}],
                    instance : [Spellings -> Instances \cup {None}]]
  <2>1. PICK old : old = c.table /\ DOMAIN old.address = Spellings /\ DOMAIN old.instance = Spellings
    BY <1>1
  <2>2. Nothing.address = None /\ Nothing.instance = None
    BY DEF Nothing
  <2>3. \A k \in Spellings :
          /\ Set(old, s, Nothing).address[k] = IF k = KeyOf[s] THEN None ELSE old.address[k]
          /\ Set(old, s, Nothing).instance[k] = IF k = KeyOf[s] THEN None ELSE old.instance[k]
    BY <2>1, <2>2, SetValues
  <2>4. Set(old, s, Nothing) \in [address : [Spellings -> Addresses \cup {None}],
                                 instance : [Spellings -> Instances \cup {None}]]
    BY <1>1, <2>1, <2>2, SetType
  <2>5. QED BY <2>1, <2>3, <2>4
<1>4. rest = [c EXCEPT !.names = names, !.table = table]
  OBVIOUS
<1> HIDE DEF names, table, rest
<1>5. /\ rest.scheme = c.scheme /\ rest.host = c.host /\ rest.legacy = c.legacy
      /\ rest.active = c.active /\ rest.names = names /\ rest.table = table
      /\ rest.current = c.current
  BY <1>1, <1>4 DEF Configurations
<1>6. rest \in Configurations
  BY <1>1, <1>2, <1>3, <1>4 DEF Configurations, Names
<1>7. ASSUME NEW x \in Spellings
      PROVE  Get(table, x) \in [address : Addresses \cup {None}, instance : Instances \cup {None}]
  BY <1>3, KeysAreSpellings DEF Get
<1>8. \A k \in Spellings :
        table.address[k] # None \/ table.instance[k] # None => k \in KeysOf(names)
  BY <1>2, <1>3 DEF Normal
<1>9. /\ e \in Configurations /\ e.scheme = c.scheme /\ e.host = c.host /\ e.legacy = c.legacy
      /\ e.names = names /\ e.table = table
      /\ Settled(c) => Settled(e)
      /\ e.active \in Spellings \cup {None}
      /\ e.active = None <=> names = <<>>
      /\ e.active # None =>
           /\ KeyOf[e.active] \in KeysOf(names)
           /\ table.address[KeyOf[e.active]] = None => e.current.address = None
           /\ table.instance[KeyOf[e.active]] = None => e.current.instance = None
  <2>1. CASE /\ c.active # None /\ KeyOf[c.active] = KeyOf[s]
             /\ names = <<>>
    <3>1. e = [rest EXCEPT !.active = None, !.current = Nothing]
      BY <1>5, <2>1 DEF Deactivated
    <3> HIDE DEF e
    <3>2. /\ e.scheme = c.scheme /\ e.host = c.host /\ e.legacy = c.legacy
          /\ e.names = names /\ e.table = table /\ e.active = None /\ e.current = Nothing
      BY <1>5, <1>6, <3>1 DEF Configurations
    <3>3. e \in Configurations
      BY <1>6, <3>1 DEF Configurations, Nothing
    <3>4. QED BY <2>1, <3>2, <3>3 DEF Settled
  <2>2. CASE /\ c.active # None /\ KeyOf[c.active] = KeyOf[s]
             /\ names # <<>>
    <3>1. e = [rest EXCEPT !.active = names[1], !.current = Get(table, names[1])]
      BY <1>5, <2>2 DEF Deactivated
    <3> HIDE DEF e
    <3>2. names[1] \in Spellings /\ names[1] # None
      BY <1>1, <1>2, <2>2
    <3>3. /\ e.scheme = c.scheme /\ e.host = c.host /\ e.legacy = c.legacy
          /\ e.names = names /\ e.table = table
          /\ e.active = names[1] /\ e.current = Get(table, names[1])
      BY <1>5, <1>6, <3>1 DEF Configurations
    <3>4. e \in Configurations
      BY <1>6, <1>7, <3>1, <3>2 DEF Configurations
    <3>5. QED BY <1>2, <2>2, <3>2, <3>3, <3>4 DEF Settled, Get
  <2>3. CASE ~(c.active # None /\ KeyOf[c.active] = KeyOf[s])
    <3>1. e = rest /\ c.active # None
      BY <1>1, <2>3
    <3> HIDE DEF e
    <3>2. KeyOf[c.active] \in Spellings /\ KeyOf[c.active] # KeyOf[s]
      BY <1>1, <2>3, <3>1, KeysAreSpellings
    <3>3. KeyOf[c.active] \in KeysOf(names) /\ names # <<>>
      BY <1>1, <1>2, <3>1, <3>2
    <3>4. /\ table.address[KeyOf[c.active]] = c.table.address[KeyOf[c.active]]
          /\ table.instance[KeyOf[c.active]] = c.table.instance[KeyOf[c.active]]
      BY <1>3, <3>2
    <3>5. Settled(c) => Settled(e)
      BY <1>5, <3>1, <3>4 DEF Settled, Get
    <3>6. /\ c.table.address[KeyOf[c.active]] = None => c.current.address = None
          /\ c.table.instance[KeyOf[c.active]] = None => c.current.instance = None
      BY <3>1 DEF Normal
    <3>7. QED BY <1>1, <1>5, <1>6, <3>1, <3>3, <3>4, <3>5, <3>6
  <2>4. QED BY <2>1, <2>2, <2>3
<1> HIDE DEF e
<1>10. Normal(e)
  BY <1>1, <1>2, <1>8, <1>9 DEF Normal
<1>11. ASSUME NEW k \in Keys
       PROVE  EndpointOf(e, k) = IF k = KeyOf[s] THEN None ELSE EndpointOf(c, k)
  <2>1. EndpointOf(e, k) = Given(table, k) /\ EndpointOf(c, k) = Given(c.table, k)
    BY <1>9, <1>10, NormalSays
  <2>2. QED BY <1>3, <2>1, KeysAreSpellings DEF Given
<1>12. SourceOf(e) = SourceOf(c) /\ ServicesOf(e) = ServicesOf(c) \ {KeyOf[s]}
  BY <1>2, <1>9, <1>10, NormalSays
<1>13. QED BY <1>9, <1>10, <1>11, <1>12 DEF e, rest

\* db start: every service has an endpoint, and the active one is settled.
LEMMA StartEdits ==
  ASSUME NEW c, Normal(c), c.names # <<>>, NEW answer \in [Keys -> Endpoints]
  PROVE  LET table == Refreshed(c.table, {KeyOf[n] : n \in ToSet(c.names)}, answer)
             e == [c EXCEPT !.table = table, !.current = Get(table, c.active), !.legacy = None]
         IN /\ Normal(e) /\ e.names = c.names
            /\ SourceOf(e) = SourceOf(c)
            /\ ServicesOf(e) = ServicesOf(c)
            /\ \A k \in Keys : EndpointOf(e, k) # None <=> k \in ServicesOf(c)
            /\ Settled(e)
<1> DEFINE table == Refreshed(c.table, {KeyOf[n] : n \in ToSet(c.names)}, answer)
           current == Get(table, c.active)
           e == [c EXCEPT !.table = table, !.current = Get(table, c.active), !.legacy = None]
<1>1. /\ c \in Configurations /\ c.names \in Seq(Spellings)
      /\ c.scheme # None /\ None \notin Discoveries
      /\ c.active \in Spellings /\ c.active # None
      /\ c.table.address \in [Spellings -> Addresses \cup {None}]
      /\ c.table.instance \in [Spellings -> Instances \cup {None}]
      /\ KeyOf[c.active] \in KeysOf(c.names)
      /\ \A k \in Spellings :
           c.table.address[k] # None \/ c.table.instance[k] # None => k \in KeysOf(c.names)
  BY NoneAssumption DEF Normal, Configurations
<1>2. /\ KeysOf(c.names) = {KeyOf[n] : n \in ToSet(c.names)}
      /\ KeysOf(c.names) \subseteq Keys /\ Keys \subseteq Spellings
  BY <1>1, ListedByKey, KeysAreSpellings
<1>3. \A k \in Keys : /\ answer[k].address \in Addresses /\ answer[k].address # None
                      /\ answer[k].instance \in Instances \cup {None}
  BY EndpointAssumption DEF Routes
<1>4. /\ \A k \in Spellings :
           /\ table.address[k] = IF k \in KeysOf(c.names) THEN answer[k].address
                                 ELSE c.table.address[k]
           /\ table.instance[k] = IF k \in KeysOf(c.names) THEN answer[k].instance
                                  ELSE c.table.instance[k]
      /\ table \in [address : [Spellings -> Addresses \cup {None}],
                    instance : [Spellings -> Instances \cup {None}]]
  BY <1>1, <1>2, <1>3 DEF Refreshed
<1>5. e = [c EXCEPT !.table = table, !.current = current, !.legacy = None]
  OBVIOUS
<1> HIDE DEF e, table
<1>6. KeyOf[c.active] \in Spellings
  BY <1>1, <1>2
<1>7. /\ current = [address |-> table.address[KeyOf[c.active]],
                    instance |-> table.instance[KeyOf[c.active]]]
      /\ current \in [address : Addresses \cup {None}, instance : Instances \cup {None}]
  BY <1>4, <1>6 DEF Get
<1> HIDE DEF current
<1>8. /\ e.scheme = c.scheme /\ e.host = c.host /\ e.legacy = None
      /\ e.active = c.active /\ e.names = c.names /\ e.table = table /\ e.current = current
  BY <1>1, <1>5 DEF Configurations
<1>9. e \in Configurations
  BY <1>1, <1>4, <1>5, <1>7 DEF Configurations
<1>10. Normal(e)
  <2>1. c.active = None <=> c.names = <<>>
    BY DEF Normal
  <2>2. QED BY <1>1, <1>4, <1>7, <1>8, <1>9, <2>1 DEF Normal
<1>11. SourceOf(e) = SourceOf(c) /\ ServicesOf(e) = ServicesOf(c) /\ ServicesOf(c) = KeysOf(c.names)
  BY <1>8, <1>10, NormalSays
<1>12. ASSUME NEW k \in Keys
       PROVE  EndpointOf(e, k) # None <=> k \in KeysOf(c.names)
  <2>1. EndpointOf(e, k) = Given(table, k)
    BY <1>8, <1>10, NormalSays
  <2>2. table.address[k] # None <=> k \in KeysOf(c.names)
    BY <1>1, <1>2, <1>3, <1>4
  <2>3. k \in Spellings
    BY <1>2
  <2>4. table.address[k] # None =>
          [address |-> table.address[k], instance |-> table.instance[k]] \in Routes
    BY <1>4, <2>3 DEF Routes
  <2>5. QED BY <2>1, <2>2, <2>4, NoneAssumption DEF Given
<1>13. Settled(e)
  BY <1>1, <1>7, <1>8 DEF Settled, Get, current
<1>14. QED BY <1>8, <1>10, <1>11, <1>12, <1>13 DEF e, table

\* What the next command loads is as settled as what was saved.
LEMMA StaysSettled ==
  ASSUME NEW c, Normal(c), Settled(c)
  PROVE  Settled(Effective(c))
<1> DEFINE names == Upserted(c.names, c.active)
           e == Effective(c)
<1>1. /\ c \in Configurations /\ Unambiguous(c) /\ ServicesOf(c) = KeysOf(c.names)
      /\ c.active = None <=> c.names = <<>>
      /\ c.names \in Seq(Spellings)
  BY NormalSays DEF Normal
<1>2. /\ names \in Seq(Spellings) /\ KeysOf(names) = KeysOf(c.names)
      /\ names = <<>> <=> KeysOf(names) = {}
      /\ c.names = <<>> <=> KeysOf(c.names) = {}
  BY <1>1, ActiveOf, ListedByKey
<1>3. CASE c.active = None
  <2>1. e.active = None /\ e.current = c.current
    BY <1>1, <1>2, <1>3, EffectiveOfNone
  <2>2. QED BY <1>3, <2>1 DEF Settled
<1>4. CASE c.active # None
  <2> DEFINE key == KeyOf[c.active]
  <2>1. /\ e.active = c.active
        /\ e.current = Or(c.current, Get(e.table, c.active))
        /\ \A k \in KeysOf(names) :
             /\ e.table.address[k] = Entry(c, k, c.table.address, c.current.address)
             /\ e.table.instance[k] = Entry(c, k, c.table.instance, c.current.instance)
    BY <1>1, <1>2, <1>4, EffectiveOfSome
  <2>2. /\ key \in KeysOf(c.names) /\ key \in Keys /\ KeysOf(c.names) \subseteq Keys
        /\ c.current = [address |-> c.table.address[key], instance |-> c.table.instance[key]]
    BY <1>1, <1>4, ListedByKey DEF Normal, Settled, Get
  <2>3. /\ \A s \in Spellings : c.table.address[s] # None => s \in Keys
        /\ \A s \in Spellings : c.table.instance[s] # None => s \in Keys
    BY <2>2 DEF Normal
  <2>4. /\ Entry(c, key, c.table.address, c.current.address) = c.table.address[key]
        /\ Entry(c, key, c.table.instance, c.current.instance) = c.table.instance[key]
    <3> HIDE DEF key
    <3>1. /\ c.current.address = c.table.address[key]
          /\ c.current.instance = c.table.instance[key]
      BY <2>2
    <3>2. QED BY <2>2, <2>3, <3>1, KeyedEntry
  <2>5. Get(e.table, c.active) = c.current
    BY <1>2, <2>1, <2>2, <2>4 DEF Get
  <2>6. Or(c.current, c.current) = c.current
    BY <2>2 DEF Or
  <2>7. QED BY <1>4, <2>1, <2>5, <2>6 DEF Settled
<1>5. QED BY <1>3, <1>4

\* What is routed for a normal configuration.
LEMMA RoutesSay ==
  ASSUME NEW c, Normal(c), c.names # <<>>, Routable(c)
  PROVE  /\ RoutesFrom(c) = [k \in ServicesOf(c) |-> EndpointOf(c, k)]
         /\ RoutesFrom(c) \in RouteFiles
         /\ ServicesOf(c) # {}
<1>1. /\ c.names \in Seq(Spellings) /\ ToSet(c.names) \subseteq Spellings
      /\ c.table.address \in [Spellings -> Addresses \cup {None}]
      /\ c.table.instance \in [Spellings -> Instances \cup {None}]
  BY DEF Normal, Configurations, ToSet
<1>2. /\ ServicesOf(c) = {KeyOf[n] : n \in ToSet(c.names)} /\ ServicesOf(c) # {}
      /\ ServicesOf(c) \in SUBSET Keys /\ Keys \subseteq Spellings
  BY <1>1, ListedByKey, NormalSays, KeysAreSpellings
<1>3. \A k \in ServicesOf(c) : KeyOf[k] = k /\ c.table.address[k] # None
  BY <1>1, <1>2, KeysAreSpellings DEF Routable, Get
<1>4. \A k \in ServicesOf(c) :
        /\ Get(c.table, k) = EndpointOf(c, k)
        /\ Get(c.table, k) \in Routes
  <2>1. \A k \in ServicesOf(c) : EndpointOf(c, k) = Given(c.table, k)
    BY <1>2, NormalSays
  <2>2. QED BY <1>1, <1>2, <1>3, <2>1 DEF Get, Given, Routes
<1>5. RoutesFrom(c) = [k \in ServicesOf(c) |-> Get(c.table, k)]
  BY <1>2 DEF RoutesFrom
<1>6. RoutesFrom(c) \in [ServicesOf(c) -> Routes]
  BY <1>4, <1>5
<1>7. QED BY <1>2, <1>4, <1>5, <1>6 DEF RouteFiles

-----------------------------------------------------------------------------
(* The invariant                                                            *)

\* The file is one that the commands can be given, the next one loads what
\* applyDefaults makes of it, and success has meant that its services are routed.
ConfigInv ==
  /\ TypeOK
  /\ Unambiguous(disk)
  /\ cfg = Effective(disk)
  /\ SuccessMeansRouted

\* What a normal configuration says is what a catalog may say.
LEMMA NormalIsCatalog ==
  ASSUME NEW c, Normal(c)
  PROVE  /\ SourceOf(c) \in Discoveries \cup {None}
         /\ SourceOf(c) # None <=> c.host # None
         /\ ServicesOf(c) \in SUBSET Keys
         /\ ServicesOf(c) = {} <=> c.names = <<>>
         /\ \A k \in Keys : EndpointOf(c, k) \in Routes \cup {None}
         /\ \A k \in Keys \ ServicesOf(c) : EndpointOf(c, k) = None
<1>1. /\ c.scheme \in Schemes /\ c.host \in Hosts \cup {None}
      /\ c.names \in Seq(Spellings)
      /\ c.table.address \in [Spellings -> Addresses \cup {None}]
      /\ c.table.instance \in [Spellings -> Instances \cup {None}]
  BY DEF Normal, Configurations
<1>2. SourceOf(c) \in Discoveries \cup {None} /\ (SourceOf(c) # None <=> c.host # None)
  <2>1. c.host # None => [scheme |-> c.scheme, host |-> c.host] \in Discoveries
    BY <1>1 DEF Discoveries
  <2>2. QED BY <2>1, NormalSays, NoneAssumption
<1>3. ServicesOf(c) \in SUBSET Keys /\ (ServicesOf(c) = {} <=> c.names = <<>>)
  BY <1>1, ListedByKey, NormalSays
<1>4. \A k \in Keys : EndpointOf(c, k) \in Routes \cup {None}
  BY <1>1, NormalSays, KeysAreSpellings DEF Given, Routes
<1>5. \A k \in Keys \ ServicesOf(c) : EndpointOf(c, k) = None
  BY DEF EndpointOf
<1>6. QED BY <1>2, <1>3, <1>4, <1>5

\* A normal configuration that is saved is a file for the next command.
LEMMA SavedIsRead ==
  ASSUME NEW c, Normal(c), Save(c)
  PROVE  /\ disk' = c /\ disk' \in Configurations /\ Unambiguous(disk')
         /\ cfg' = Effective(disk')
         /\ Settled(c) => Settled(cfg')
BY NormalSays, StaysSettled DEF Save, Normal

\* Saved and routed, or not routed: the command succeeds only when it is routed.
LEMMA SavedAndRouted ==
  ASSUME NEW c, Normal(c), c.names # <<>>, SaveAndRoute(c),
         routes \in RouteFiles \cup {None}
  PROVE  /\ Save(c)
         /\ routes' \in RouteFiles \cup {None} /\ result' \in {"ok", "failed"}
         /\ SuccessMeansRouted'
<1>1. Save(c) /\ disk' = c
  BY DEF SaveAndRoute, Save
<1>2. CASE Routable(c)
  <2>1. routes' = RoutesFrom(c) /\ result' = "ok"
    BY <1>2 DEF SaveAndRoute
  <2>2. /\ RoutesFrom(c) = [k \in ServicesOf(c) |-> EndpointOf(c, k)]
        /\ RoutesFrom(c) \in RouteFiles /\ RoutesFrom(c) # None
        /\ ServicesOf(c) # {}
    BY <1>2, RoutesSay, NoneAssumption
  <2>3. QED BY <1>1, <2>1, <2>2 DEF SuccessMeansRouted
<1>3. CASE ~Routable(c)
  BY <1>1, <1>3 DEF SaveAndRoute, SuccessMeansRouted
<1>4. QED BY <1>2, <1>3

\* The commands edit a normal configuration that says what the file says.
LEMMA LoadedSays ==
  ASSUME ConfigInv
  PROVE  /\ Normal(cfg)
         /\ SourceOf(cfg) = SourceOf(disk)
         /\ ServicesOf(cfg) = ServicesOf(disk)
         /\ \A k \in Keys : EndpointOf(cfg, k) = EndpointOf(disk, k)
         /\ ServicesOf(cfg) = KeysOf(cfg.names)
         /\ \A s \in Spellings : Listed(cfg.names, s) <=> KeyOf[s] \in KeysOf(cfg.names)
<1>1. /\ Normal(cfg)
      /\ SourceOf(cfg) = SourceOf(disk)
      /\ ServicesOf(cfg) = ServicesOf(disk)
      /\ \A k \in Keys : EndpointOf(cfg, k) = EndpointOf(disk, k)
  BY EffectiveSays DEF ConfigInv, TypeOK
<1>2. cfg.names \in Seq(Spellings)
  BY <1>1 DEF Normal
<1>3. QED BY <1>1, <1>2, ListedByKey, NormalSays
\* What every step keeps: the invariant, the catalog, what is settled.
StepKeeps ==
  /\ ConfigInv'
  /\ [C!CatalogNext]_(C!catalog)
  /\ Settled(cfg) => Settled(cfg')

\* A step that leaves the files and does not say that services are routed.
LEMMA IdleStep ==
  ASSUME ConfigInv, UNCHANGED <<disk, cfg, routes>>,
         last' \in {"init", "add", "remove", "start"},
         result' \in {"idle", "failed"}
  PROVE  StepKeeps
<1>1. ConfigInv'
  BY DEF ConfigInv, TypeOK, SuccessMeansRouted
<1>2. UNCHANGED C!catalog
  BY DEF C!catalog
<1>3. QED BY <1>1, <1>2 DEF StepKeeps

\* db init is Configure, or leaves everything.
LEMMA InitStep ==
  ASSUME ConfigInv, NEW force \in BOOLEAN, NEW discovery \in Discoveries,
         DbInit(force, discovery)
  PROVE  StepKeeps
<1>1. CASE Configured(cfg) /\ ~force
  BY <1>1, IdleStep DEF DbInit
<1>2. CASE ~(Configured(cfg) /\ ~force)
  <2> DEFINE e == [cfg EXCEPT !.scheme = discovery.scheme, !.host = discovery.host,
                              !.legacy = None]
  <2>1. Save(e) /\ last' = "init" /\ result' = "ok" /\ UNCHANGED routes
    BY <1>2 DEF DbInit
  <2>2. /\ Normal(e) /\ SourceOf(e) = discovery
        /\ ServicesOf(e) = ServicesOf(disk)
        /\ \A k \in Keys : EndpointOf(e, k) = EndpointOf(disk, k)
        /\ Settled(cfg) => Settled(e)
    BY LoadedSays, InitEdits
  <2> HIDE DEF e
  <2>3. /\ disk' = e /\ disk' \in Configurations /\ Unambiguous(disk')
        /\ cfg' = Effective(disk') /\ (Settled(e) => Settled(cfg'))
    BY <2>1, <2>2, SavedIsRead
  <2>4. ConfigInv'
    BY <2>1, <2>3 DEF ConfigInv, TypeOK, SuccessMeansRouted
  <2>5. C!Configure(discovery)
    BY <2>2, <2>3 DEF C!Configure
  <2>6. QED BY <2>2, <2>3, <2>4, <2>5 DEF StepKeeps, C!CatalogNext
<1>3. QED BY <1>1, <1>2

\* db add is Add.
LEMMA AddStep ==
  ASSUME ConfigInv, NEW s \in Spellings, NEW n \in Endpoints, DbAdd(s, n)
  PROVE  StepKeeps
<1> DEFINE e == Added(cfg, s, n)
           endpoint == [address |-> n.address, instance |-> n.instance]
<1>1. cfg.host # None /\ SaveAndRoute(e) /\ last' = "add"
  BY DEF DbAdd, Configured, Added
<1>2. /\ Normal(cfg) /\ SourceOf(cfg) = SourceOf(disk) /\ ServicesOf(cfg) = ServicesOf(disk)
      /\ \A k \in Keys : EndpointOf(cfg, k) = EndpointOf(disk, k)
  BY LoadedSays
<1>3. /\ Normal(e) /\ e.names # <<>> /\ SourceOf(e) = SourceOf(cfg)
      /\ ServicesOf(e) = ServicesOf(cfg) \cup {KeyOf[s]}
      /\ \A k \in Keys : EndpointOf(e, k) = IF k = KeyOf[s] THEN endpoint ELSE EndpointOf(cfg, k)
      /\ Settled(e)
  BY <1>1, <1>2, AddEdits
<1> HIDE DEF e
<1>4. /\ Save(e) /\ SuccessMeansRouted'
      /\ routes' \in RouteFiles \cup {None} /\ result' \in {"ok", "failed"}
  BY <1>1, <1>3, SavedAndRouted DEF ConfigInv, TypeOK
<1>5. /\ disk' = e /\ disk' \in Configurations /\ Unambiguous(disk')
      /\ cfg' = Effective(disk') /\ Settled(cfg')
  BY <1>3, <1>4, SavedIsRead
<1>6. ConfigInv'
  BY <1>1, <1>4, <1>5 DEF ConfigInv, TypeOK
<1>7. KeyOf[s] \in Keys /\ endpoint \in Routes
  BY KeysAreSpellings, EndpointAssumption DEF Routes
<1>8. C!Add(KeyOf[s], endpoint)
  <2>1. SourceOf(disk) # None
    BY <1>1, <1>2, NormalIsCatalog
  <2> HIDE DEF endpoint
  <2>2. [k \in Keys |-> EndpointOf(e, k)] =
          [[k \in Keys |-> EndpointOf(disk, k)] EXCEPT ![KeyOf[s]] = endpoint]
    BY <1>2, <1>3, <1>7
  <2>3. QED BY <1>2, <1>3, <1>5, <2>1, <2>2 DEF C!Add
<1>9. QED BY <1>5, <1>6, <1>7, <1>8 DEF StepKeeps, C!CatalogNext

\* db remove is Remove, or leaves everything.
LEMMA RemoveStep ==
  ASSUME ConfigInv, NEW s \in Spellings, DbRemove(s)
  PROVE  StepKeeps
<1>1. CASE ~Listed(cfg.names, s)
  BY <1>1, IdleStep DEF DbRemove
<1>2. CASE Listed(cfg.names, s)
  <2> DEFINE rest == [cfg EXCEPT !.names = Without(@, s), !.table = Set(@, s, Nothing)]
             e == IF cfg.active # None /\ KeyOf[cfg.active] = KeyOf[s]
                  THEN Deactivated(rest) ELSE rest
  <2>1. /\ last' = "remove"
        /\ IF e.names = <<>> THEN Save(e) /\ routes' = None /\ result' = "ok"
           ELSE SaveAndRoute(e)
    BY <1>2 DEF DbRemove
  <2>2. /\ Normal(cfg) /\ SourceOf(cfg) = SourceOf(disk) /\ ServicesOf(cfg) = ServicesOf(disk)
        /\ \A k \in Keys : EndpointOf(cfg, k) = EndpointOf(disk, k)
        /\ KeyOf[s] \in KeysOf(cfg.names) /\ KeyOf[s] \in ServicesOf(disk)
    BY <1>2, LoadedSays
  <2>3. /\ Normal(e) /\ SourceOf(e) = SourceOf(cfg)
        /\ ServicesOf(e) = ServicesOf(cfg) \ {KeyOf[s]}
        /\ \A k \in Keys : EndpointOf(e, k) = IF k = KeyOf[s] THEN None ELSE EndpointOf(cfg, k)
        /\ Settled(cfg) => Settled(e)
    BY <2>2, RemoveEdits
  <2> HIDE DEF e
  <2>4. /\ Save(e) /\ SuccessMeansRouted'
        /\ routes' \in RouteFiles \cup {None} /\ result' \in {"ok", "failed"}
    <3>1. CASE e.names = <<>>
      <4>1. disk' = e /\ routes' = None /\ result' = "ok" /\ ServicesOf(e) = {}
        BY <2>1, <2>3, <3>1, NormalIsCatalog DEF Save
      <4>2. QED BY <2>1, <3>1, <4>1 DEF SuccessMeansRouted
    <3>2. CASE e.names # <<>>
      BY <2>1, <2>3, <3>2, SavedAndRouted DEF ConfigInv, TypeOK
    <3>3. QED BY <3>1, <3>2
  <2>5. /\ disk' = e /\ disk' \in Configurations /\ Unambiguous(disk')
        /\ cfg' = Effective(disk') /\ (Settled(e) => Settled(cfg'))
    BY <2>3, <2>4, SavedIsRead
  <2>6. ConfigInv'
    BY <2>1, <2>4, <2>5 DEF ConfigInv, TypeOK
  <2>7. KeyOf[s] \in Keys
    BY KeysAreSpellings
  <2>8. [k \in Keys |-> EndpointOf(e, k)] =
          [[k \in Keys |-> EndpointOf(disk, k)] EXCEPT ![KeyOf[s]] = None]
    BY <2>2, <2>3, <2>7
  <2>9. C!Remove(KeyOf[s])
    BY <2>2, <2>3, <2>5, <2>8 DEF C!Remove
  <2>10. QED BY <2>3, <2>5, <2>6, <2>7, <2>9 DEF StepKeeps, C!CatalogNext
<1>3. QED BY <1>1, <1>2

\* db start is Refresh.
LEMMA StartStep ==
  ASSUME ConfigInv, NEW answer \in [Keys -> Endpoints], DbStart(answer)
  PROVE  StepKeeps
<1> DEFINE table == Refreshed(cfg.table, {KeyOf[n] : n \in ToSet(cfg.names)}, answer)
           e == [cfg EXCEPT !.table = table, !.current = Get(table, cfg.active), !.legacy = None]
<1>1. cfg.host # None /\ cfg.names # <<>> /\ SaveAndRoute(e) /\ last' = "start"
  BY DEF DbStart, Configured
<1>2. Normal(cfg) /\ SourceOf(cfg) = SourceOf(disk) /\ ServicesOf(cfg) = ServicesOf(disk)
  BY LoadedSays
<1>3. /\ Normal(e) /\ e.names # <<>> /\ SourceOf(e) = SourceOf(cfg)
      /\ ServicesOf(e) = ServicesOf(cfg)
      /\ \A k \in Keys : EndpointOf(e, k) # None <=> k \in ServicesOf(cfg)
      /\ Settled(e)
  BY <1>1, <1>2, StartEdits
<1> HIDE DEF e
<1>4. /\ Save(e) /\ SuccessMeansRouted'
      /\ routes' \in RouteFiles \cup {None} /\ result' \in {"ok", "failed"}
  BY <1>1, <1>3, SavedAndRouted DEF ConfigInv, TypeOK
<1>5. /\ disk' = e /\ disk' \in Configurations /\ Unambiguous(disk')
      /\ cfg' = Effective(disk') /\ Settled(cfg')
  BY <1>3, <1>4, SavedIsRead
<1>6. ConfigInv'
  BY <1>1, <1>4, <1>5 DEF ConfigInv, TypeOK
<1>7. C!Refresh
  <2>1. SourceOf(disk) # None /\ ServicesOf(disk) # {}
    BY <1>1, <1>2, NormalIsCatalog
  <2>2. \A k \in Keys : EndpointOf(e, k) \in Routes \cup {None}
    BY <1>3, NormalIsCatalog
  <2>3. QED BY <1>2, <1>3, <1>5, <2>1, <2>2 DEF C!Refresh
<1>8. QED BY <1>5, <1>6, <1>7 DEF StepKeeps, C!CatalogNext

\* Every step keeps the invariant, the catalog and what is settled.
LEMMA NextKeeps ==
  ASSUME ConfigInv, [Next]_vars
  PROVE  StepKeeps
<1>1. ASSUME NEW force \in BOOLEAN, NEW d \in Discoveries, DbInit(force, d)
      PROVE  StepKeeps
  BY <1>1, InitStep
<1>2. ASSUME NEW s \in Spellings, NEW e \in Endpoints, DbAdd(s, e)
      PROVE  StepKeeps
  BY <1>2, AddStep
<1>3. ASSUME NEW s \in Spellings, DbRemove(s)
      PROVE  StepKeeps
  BY <1>3, RemoveStep
<1>4. ASSUME NEW answer \in [Keys -> Endpoints], DbStart(answer)
      PROVE  StepKeeps
  BY <1>4, StartStep
<1>5. ASSUME NEW o \in {"init", "add", "start"}, CommandFails(o)
      PROVE  StepKeeps
  BY <1>5, IdleStep DEF CommandFails
<1>6. CASE UNCHANGED vars
  <2>1. ConfigInv'
    BY <1>6 DEF ConfigInv, TypeOK, SuccessMeansRouted, vars
  <2>2. UNCHANGED C!catalog
    BY <1>6 DEF C!catalog, vars
  <2>3. QED BY <1>6, <2>1, <2>2 DEF StepKeeps, vars
<1>7. QED BY <1>1, <1>2, <1>3, <1>4, <1>5, <1>6 DEF Next

\* It holds of any file to begin with.
LEMMA InitConfig == Init => ConfigInv
BY DisksAssumption DEF Init, ConfigInv, TypeOK, SuccessMeansRouted

\* So it always holds.
LEMMA AlwaysConfig == Spec => []ConfigInv
<1>1. ConfigInv /\ [Next]_vars => ConfigInv'
  BY NextKeeps DEF StepKeeps
<1>2. QED BY InitConfig, <1>1, PTL DEF Spec

-----------------------------------------------------------------------------
(* The theorems                                                             *)

\* Whatever a file says and whatever the commands do, config.yaml and db-routes.json
\* hold values of the kinds the code gives them: an instance never becomes an address.
THEOREM TypeCorrect == Spec => []TypeOK
<1>1. ConfigInv => TypeOK
  BY DEF ConfigInv
<1>2. QED BY AlwaysConfig, <1>1, PTL

\* A db add, remove or start that ends well has routed exactly the services of the
\* configuration it leaves, each to its endpoint there.
THEOREM SuccessIsRouted == Spec => []SuccessMeansRouted
<1>1. ConfigInv => SuccessMeansRouted
  BY DEF ConfigInv
<1>2. QED BY AlwaysConfig, <1>1, PTL

\* Once the target in the file is that of the active service, no command unsettles it.
THEOREM SettledIsKept == Spec => ActiveStaysSettled
<1>1. ConfigInv /\ [Next]_vars => [Settled(cfg) => Settled(cfg')]_vars
  BY NextKeeps DEF StepKeeps
<1>2. QED BY AlwaysConfig, <1>1, PTL DEF Spec, ActiveStaysSettled

\* The commands on a config.yaml of any spelling implement the catalog of services:
\* every step is a step of Catalog or leaves what the file says.
THEOREM ConfigIsCatalog == Spec => CatalogFollowed
<1>1. Init => C!CatalogInit
  <2> SUFFICES ASSUME Init
               PROVE  C!CatalogInit
    OBVIOUS
  <2>1. /\ disk \in Configurations /\ Unambiguous(disk)
    BY DisksAssumption DEF Init
  <2>2. /\ Normal(Effective(disk))
        /\ SourceOf(Effective(disk)) = SourceOf(disk)
        /\ ServicesOf(Effective(disk)) = ServicesOf(disk)
        /\ \A k \in Keys : EndpointOf(Effective(disk), k) = EndpointOf(disk, k)
    BY <2>1, EffectiveSays
  <2>3. /\ SourceOf(disk) \in Discoveries \cup {None}
        /\ ServicesOf(disk) \in SUBSET Keys
        /\ \A k \in Keys : EndpointOf(disk, k) \in Routes \cup {None}
        /\ \A k \in Keys \ ServicesOf(disk) : EndpointOf(disk, k) = None
    BY <2>2, NormalIsCatalog
  <2>4. QED BY <2>3 DEF C!CatalogInit
<1>2. ConfigInv /\ [Next]_vars => [C!CatalogNext]_(C!catalog)
  BY NextKeeps DEF StepKeeps
<1>3. QED BY AlwaysConfig, <1>1, <1>2, PTL DEF Spec, CatalogFollowed, C!CatalogSpec

=============================================================================
