----------------------------- MODULE PlatformProofs -----------------------------
(***************************************************************************)
(* What holds, for every value of the constants, of the parts that share   *)
(* no state with one another.                                              *)
(***************************************************************************)
EXTENDS MCPlatform, MessageLogProofs, SubsequenceProofs, SequenceTheorems, FiniteSetTheorems, WellFoundedInduction, TLAPS

-----------------------------------------------------------------------------
(* Who is behind a privacy id                                               *)

\* The write under way of a lid nobody else writes stores what the cache says; without one the table does.
WritesAgree ==
    ~blind => \A l \in Lids \ mixed :
                 /\ \A w \in upserts : w.lid = l => w.phone = phoneOf[l]
                 /\ (\A w \in upserts : w.lid # l) => table[l] = phoneOf[l]

\* What a session has learned, what is being written and what was stored is in the cache.
KnownIsCached ==
    /\ \A w \in upserts : phoneOf[w.lid] # Unknown
    /\ \A l \in durable : table[l] # Unknown /\ (~blind => phoneOf[l] # Unknown)
    /\ \A s \in Accounts, l \in Lids : pnOf[s][l] # Unknown => phoneOf[l] # Unknown

IdentityInv == IdentityTypeOK /\ durable \subseteq Lids /\ ReverseIsExact /\ WritesAgree /\ KnownIsCached

LEMMA UnknownIsNobody == Unknown \notin Lids /\ Unknown \notin Phones
  BY IdentityAssumption DEF Unknown

LEMMA InitIdentity == IdentityInit => IdentityInv
  <1> SUFFICES ASSUME IdentityInit PROVE IdentityInv
    OBVIOUS
  <1>1. IdentityTypeOK
    BY DEF IdentityInit, IdentityTypeOK, NoPairs, NoContacts, Phone
  <1>2. ReverseIsExact
    BY UnknownIsNobody DEF IdentityInit, ReverseIsExact, NoPairs
  <1>3. WritesAgree /\ KnownIsCached /\ durable \subseteq Lids
    BY DEF IdentityInit, WritesAgree, KnownIsCached, NoPairs
  <1> QED BY <1>1, <1>2, <1>3 DEF IdentityInv

LEMMA CachesStep ==
    ASSUME IdentityInv, NEW l \in Lids, NEW p \in Phones, Caches(l, p), UNCHANGED <<table, durable, blind>>
    PROVE  /\ phoneOf' \in [Lids -> Phone] /\ lidsOf' \in [Phones -> SUBSET Lids] /\ upserts' \subseteq [lid : Lids, phone : Phones]
           /\ ReverseIsExact' /\ WritesAgree'
           /\ phoneOf'[l] = p
           /\ \A m \in Lids : phoneOf[m] # Unknown => phoneOf'[m] # Unknown
           /\ \A w \in upserts' : phoneOf'[w.lid] # Unknown
  <1>0. IdentityTypeOK /\ ReverseIsExact /\ WritesAgree /\ KnownIsCached /\ p # Unknown /\ p \in Phone
    BY UnknownIsNobody DEF IdentityInv, Phone
  <1>1. CASE phoneOf[l] = p
    BY <1>0, <1>1 DEF Caches, IdentityTypeOK, ReverseIsExact, WritesAgree, KnownIsCached
  <1>2. CASE phoneOf[l] # p
    <2>1. /\ phoneOf' = [phoneOf EXCEPT ![l] = p] /\ lidsOf' = Indexed(lidsOf, l, p)
          /\ upserts' = upserts \cup {[lid |-> l, phone |-> p]}
          /\ mixed' = IF \E w \in upserts : w.lid = l THEN mixed \cup {l} ELSE mixed
      BY <1>2 DEF Caches
    <2>2. /\ phoneOf' \in [Lids -> Phone] /\ phoneOf'[l] = p
          /\ \A m \in Lids \ {l} : phoneOf'[m] = phoneOf[m]
      BY <1>0, <2>1 DEF IdentityTypeOK
    <2>3. upserts' \subseteq [lid : Lids, phone : Phones]
      BY <1>0, <2>1 DEF IdentityTypeOK
    <2>4. /\ lidsOf' \in [Phones -> SUBSET Lids]
          /\ \A q \in Phones : lidsOf'[q] = IF q = p THEN lidsOf[q] \cup {l} ELSE lidsOf[q] \ {l}
      BY <1>0, <2>1 DEF IdentityTypeOK, Indexed
    <2>5. ReverseIsExact'
      BY <1>0, <2>2, <2>4 DEF ReverseIsExact
    <2>6. WritesAgree'
      <3>1. SUFFICES ASSUME ~blind', NEW m \in Lids \ mixed'
                     PROVE  /\ \A w \in upserts' : w.lid = m => w.phone = phoneOf'[m]
                            /\ (\A w \in upserts' : w.lid # m) => table'[m] = phoneOf'[m]
        BY DEF WritesAgree
      <3>2. m \in Lids \ mixed /\ ~blind
        BY <2>1, <3>1
      <3>3. /\ \A w \in upserts : w.lid = m => w.phone = phoneOf[m]
            /\ (\A w \in upserts : w.lid # m) => table[m] = phoneOf[m]
        BY <1>0, <3>2 DEF WritesAgree
      <3>4. CASE m = l
        <4>1. \A w \in upserts : w.lid # l
          BY <2>1, <3>1, <3>4
        <4>2. PICK w0 \in upserts' : w0.lid = l /\ w0.phone = p /\ upserts' = upserts \cup {w0}
          BY <2>1
        <4>3. \A w \in upserts' : w.lid = l => w.phone = p
          BY <4>1, <4>2
        <4> QED BY <2>2, <3>4, <4>2, <4>3
      <3>5. CASE m # l
        BY <2>1, <2>2, <3>3, <3>5
      <3> QED BY <3>4, <3>5
    <2>7. \A w \in upserts' : phoneOf'[w.lid] # Unknown
      BY <1>0, <2>1, <2>2 DEF KnownIsCached, IdentityTypeOK
    <2> QED BY <1>0, <2>2, <2>3, <2>4, <2>5, <2>6, <2>7
  <1> QED BY <1>1, <1>2

LEMMA LearnStep ==
    ASSUME IdentityInv, NEW s \in Accounts, NEW l \in Lids, NEW p \in Phones, Learn(s, l, p),
           contact' \in [Accounts -> [Lids \cup Phones -> [lid : Lids \cup {Unknown}, phone : Phone]]],
           UNCHANGED <<table, durable, blind>>
    PROVE  IdentityInv'
  <1>1. Caches(l, p) /\ pnOf' = [pnOf EXCEPT ![s][l] = p]
    BY DEF Learn
  <1>2. IdentityTypeOK /\ KnownIsCached /\ durable \subseteq Lids
    BY DEF IdentityInv
  <1>3. /\ pnOf' \in [Accounts -> [Lids -> Phone]]
        /\ \A t \in Accounts, m \in Lids : pnOf'[t][m] # Unknown => pnOf[t][m] # Unknown \/ m = l
    BY <1>1, <1>2 DEF IdentityTypeOK, Phone
  <1>4. /\ phoneOf' \in [Lids -> Phone] /\ lidsOf' \in [Phones -> SUBSET Lids] /\ upserts' \subseteq [lid : Lids, phone : Phones]
        /\ ReverseIsExact' /\ WritesAgree'
        /\ phoneOf'[l] = p
        /\ \A m \in Lids : phoneOf[m] # Unknown => phoneOf'[m] # Unknown
        /\ \A w \in upserts' : phoneOf'[w.lid] # Unknown
    BY <1>1, CachesStep
  <1>5. IdentityTypeOK'
    BY <1>2, <1>3, <1>4 DEF IdentityTypeOK
  <1>6. KnownIsCached'
    <2>1. \A m \in durable' : table'[m] # Unknown /\ (~blind' => phoneOf'[m] # Unknown)
      BY <1>2, <1>4 DEF KnownIsCached
    <2>2. \A t \in Accounts, m \in Lids : pnOf'[t][m] # Unknown => phoneOf'[m] # Unknown
      BY <1>2, <1>3, <1>4, UnknownIsNobody DEF KnownIsCached
    <2> QED BY <1>4, <2>1, <2>2 DEF KnownIsCached
  <1> QED BY <1>2, <1>4, <1>5, <1>6 DEF IdentityInv

LEMMA ContactStep ==
    ASSUME IdentityInv, NEW s \in Accounts, NEW id \in Lids \cup Phones, NEW lid \in Lids \cup {Unknown}, NEW phone \in Phone,
           ContactArrives(s, id, lid, phone)
    PROVE  IdentityInv'
  <1> DEFINE old == contact[s][id]
             merged == [lid |-> IF lid = Unknown THEN old.lid ELSE lid,
                        phone |-> IF phone = Unknown THEN old.phone ELSE phone]
             number == IF merged.phone # Unknown THEN merged.phone ELSE IF id \in Phones THEN id ELSE Unknown
  <1>0. IdentityTypeOK
    BY DEF IdentityInv
  <1>1. old \in [lid : Lids \cup {Unknown}, phone : Phone]
    BY <1>0 DEF IdentityTypeOK
  <1>2. merged \in [lid : Lids \cup {Unknown}, phone : Phone] /\ number \in Phone
    BY <1>1 DEF Phone
  <1>3. /\ contact' = [contact EXCEPT ![s][id] = merged]
        /\ IF merged.lid # Unknown /\ number # Unknown THEN Learn(s, merged.lid, number)
           ELSE UNCHANGED <<pnOf, phoneOf, lidsOf, upserts, mixed>>
        /\ UNCHANGED <<table, durable, blind, boots>>
    BY DEF ContactArrives
  <1> HIDE DEF old, merged, number
  <1>4. contact' \in [Accounts -> [Lids \cup Phones -> [lid : Lids \cup {Unknown}, phone : Phone]]]
    BY <1>0, <1>2, <1>3 DEF IdentityTypeOK
  <1>5. CASE merged.lid # Unknown /\ number # Unknown
    <2>1. PICK m \in Lids, p \in Phones : m = merged.lid /\ p = number
      BY <1>2, <1>5 DEF Phone
    <2>2. Learn(s, m, p) /\ UNCHANGED <<table, durable, blind>>
      BY <1>3, <1>5, <2>1
    <2> QED BY <1>4, <2>2, LearnStep
  <1>6. CASE ~(merged.lid # Unknown /\ number # Unknown)
    <2>1. UNCHANGED <<pnOf, phoneOf, lidsOf, upserts, mixed, table, durable, blind>>
      BY <1>3, <1>6
    <2> QED BY <1>0, <1>4, <2>1 DEF IdentityInv, IdentityTypeOK, ReverseIsExact, WritesAgree, KnownIsCached
  <1> QED BY <1>5, <1>6

LEMMA WriteEndsStep == ASSUME IdentityInv, NEW w \in upserts, WriteEnds(w) PROVE IdentityInv'
  <1>0. /\ IdentityTypeOK /\ durable \subseteq Lids /\ ReverseIsExact /\ WritesAgree /\ KnownIsCached
        /\ w \in [lid : Lids, phone : Phones] /\ w.lid \in Lids /\ w.phone \in Phones
        /\ UNCHANGED <<pnOf, contact, phoneOf, lidsOf, blind>> /\ upserts' = upserts \ {w}
        /\ w.phone # Unknown
    BY UnknownIsNobody DEF IdentityInv, IdentityTypeOK, WriteEnds
  <1>1. ReverseIsExact'
    BY <1>0 DEF ReverseIsExact
  <1>2. CASE /\ table' = [table EXCEPT ![w.lid] = w.phone]
             /\ durable' = durable \cup {w.lid}
             /\ UNCHANGED mixed
    <2>1. IdentityTypeOK' /\ durable' \subseteq Lids
      BY <1>0, <1>2 DEF IdentityTypeOK, Phone
    <2>2. table'[w.lid] = w.phone /\ \A l \in Lids \ {w.lid} : table'[l] = table[l]
      BY <1>0, <1>2 DEF IdentityTypeOK
    <2>3. ASSUME ~blind', NEW l \in Lids \ mixed'
          PROVE  /\ \A v \in upserts' : v.lid = l => v.phone = phoneOf'[l]
                 /\ (\A v \in upserts' : v.lid # l) => table'[l] = phoneOf'[l]
      <3>1. \A v \in upserts : v.lid = l => v.phone = phoneOf[l]
        BY <1>0, <1>2, <2>3 DEF WritesAgree
      <3>2. CASE l = w.lid
        BY <1>0, <2>2, <3>1, <3>2
      <3>3. CASE l # w.lid
        <4>1. (\A v \in upserts' : v.lid # l) => \A v \in upserts : v.lid # l
          BY <1>0, <3>3
        <4>2. (\A v \in upserts : v.lid # l) => table[l] = phoneOf[l]
          BY <1>0, <1>2, <2>3 DEF WritesAgree
        <4> QED BY <1>0, <2>2, <3>1, <3>3, <4>1, <4>2
      <3> QED BY <3>2, <3>3
    <2>4. WritesAgree'
      BY <2>3 DEF WritesAgree
    <2>5. KnownIsCached'
      BY <1>0, <1>2, <2>2 DEF KnownIsCached
    <2> QED BY <1>1, <2>1, <2>4, <2>5 DEF IdentityInv
  <1>3. CASE mixed' = mixed \cup {w.lid} /\ UNCHANGED <<table, durable>>
    <2>1. IdentityTypeOK'
      BY <1>0, <1>3 DEF IdentityTypeOK
    <2>2. WritesAgree'
      BY <1>0, <1>3 DEF WritesAgree
    <2>3. KnownIsCached'
      BY <1>0, <1>3 DEF KnownIsCached
    <2> QED BY <1>0, <1>1, <1>3, <2>1, <2>2, <2>3 DEF IdentityInv
  <1> QED BY <1>2, <1>3 DEF WriteEnds

LEMMA BootStep == ASSUME IdentityInv, Boot PROVE IdentityInv'
  <1>0. /\ IdentityTypeOK /\ durable \subseteq Lids /\ ReverseIsExact /\ WritesAgree /\ KnownIsCached
        /\ pnOf' = [s \in Accounts |-> NoPairs] /\ contact' = [s \in Accounts |-> NoContacts] /\ upserts' = {}
        /\ mixed' = mixed \cup {w.lid : w \in upserts} /\ UNCHANGED <<table, durable>>
    BY DEF IdentityInv, Boot
  <1>1. CASE phoneOf' = table /\ lidsOf' = [p \in Phones |-> {l \in Lids : table[l] = p}] /\ UNCHANGED blind
    <2>1. IdentityTypeOK'
      BY <1>0, <1>1 DEF IdentityTypeOK, NoPairs, NoContacts, Phone
    <2>2. ReverseIsExact'
      BY <1>1 DEF ReverseIsExact
    <2>3. WritesAgree' /\ KnownIsCached'
      BY <1>0, <1>1 DEF WritesAgree, KnownIsCached, NoPairs
    <2> QED BY <1>0, <2>1, <2>2, <2>3 DEF IdentityInv
  <1>2. CASE blind' = TRUE /\ phoneOf' = NoPairs /\ lidsOf' = [p \in Phones |-> {}]
    <2>1. IdentityTypeOK'
      BY <1>0, <1>2 DEF IdentityTypeOK, NoPairs, NoContacts, Phone
    <2>2. ReverseIsExact'
      BY <1>2, UnknownIsNobody DEF ReverseIsExact, NoPairs
    <2>3. WritesAgree' /\ KnownIsCached'
      BY <1>0, <1>2 DEF WritesAgree, KnownIsCached, NoPairs
    <2> QED BY <1>0, <2>1, <2>2, <2>3 DEF IdentityInv
  <1> QED BY <1>1, <1>2 DEF Boot

LEMMA AdapterReplacedStep == ASSUME IdentityInv, NEW s \in Accounts, AdapterReplaced(s) PROVE IdentityInv'
  <1>0. /\ IdentityTypeOK /\ UNCHANGED <<phoneOf, lidsOf, table, upserts, durable, mixed, blind>>
        /\ pnOf' = [pnOf EXCEPT ![s] = NoPairs] /\ contact' = [contact EXCEPT ![s] = NoContacts]
    BY DEF IdentityInv, AdapterReplaced
  <1>1. NoPairs \in [Lids -> Phone] /\ NoContacts \in [Lids \cup Phones -> [lid : Lids \cup {Unknown}, phone : Phone]]
    BY DEF NoPairs, NoContacts, Phone
  <1>2. IdentityTypeOK'
    BY <1>0, <1>1 DEF IdentityTypeOK
  <1>3. \A t \in Accounts, l \in Lids : pnOf'[t][l] # Unknown => pnOf[t][l] # Unknown
    BY <1>0 DEF IdentityTypeOK, NoPairs
  <1> QED BY <1>0, <1>2, <1>3 DEF IdentityInv, ReverseIsExact, WritesAgree, KnownIsCached

LEMMA IdentityStep == ASSUME IdentityInv, [IdentityNext]_identityVars PROVE IdentityInv'
  <1>1. CASE UNCHANGED identityVars
    BY <1>1 DEF identityVars, IdentityInv, IdentityTypeOK, ReverseIsExact, WritesAgree, KnownIsCached
  <1>2. ASSUME NEW s \in Accounts, NEW l \in Lids, NEW p \in Phones, PairArrives(s, l, p) PROVE IdentityInv'
    <2>1. Learn(s, l, p) /\ UNCHANGED <<contact, table, durable, blind>>
      BY <1>2 DEF PairArrives
    <2>2. contact' \in [Accounts -> [Lids \cup Phones -> [lid : Lids \cup {Unknown}, phone : Phone]]]
      BY <2>1 DEF IdentityInv, IdentityTypeOK
    <2> QED BY <2>1, <2>2, LearnStep
  <1>3. ASSUME NEW s \in Accounts, NEW l \in Lids, NEW p \in Phone, ContactArrives(s, l, Unknown, p) PROVE IdentityInv'
    BY <1>3, ContactStep
  <1>4. ASSUME NEW s \in Accounts, NEW p \in Phones, NEW l \in Lids \cup {Unknown}, ContactArrives(s, p, l, Unknown) PROVE IdentityInv'
    <2>1. Unknown \in Phone
      BY DEF Phone
    <2> QED BY <1>4, <2>1, ContactStep
  <1> QED BY <1>1, <1>2, <1>3, <1>4, BootStep, WriteEndsStep, AdapterReplacedStep DEF IdentityNext

LEMMA IdentityHolds == IdentityInv => IdentityIsTrue
  <1> SUFFICES ASSUME IdentityInv PROVE IdentityIsTrue
    OBVIOUS
  <1>1. ReverseIsExact
    BY DEF IdentityInv
  <1>2. TableFollowsCache
    BY DEF IdentityInv, WritesAgree, TableFollowsCache
  <1>3. StoredStaysKnown
    BY DEF IdentityInv, KnownIsCached, StoredStaysKnown, ResolvePhone
  <1>4. LearnedIsShared
    BY DEF IdentityInv, KnownIsCached, LearnedIsShared, ResolvePhone
  <1> QED BY <1>1, <1>2, <1>3, <1>4 DEF IdentityIsTrue

-----------------------------------------------------------------------------
(* The configuration and its containers                                     *)

Configurations ==
    {c \in [Sections -> Selections \cup BOOLEAN \cup {"wwjs", "baileys", "default", "tuned"}] : IsConfiguration(c)}
Pages ==
    [status : BOOLEAN, config : BOOLEAN, form : Configurations, pending : SUBSET Services, previous : SUBSET Services,
     modal : BOOLEAN, edited : BOOLEAN]

\* A form that is not filled from the status yet asks for nothing; only a form that is shown is saved.
FormWaits == ~page.status => ~page.modal /\ \A p \in Services : ~page.form[p].on

\* The database of a configuration is in a container only as one the server brings along.
Contained(s) == s.on /\ s.target = "container"
BringsAlong(s) == Contained(s) => s.builtin

\* Two selections of the database that mean the same.
Alike(x, y) == x.on = y.on /\ (x.on => x = y)

\* The form is what the status said, and nobody has touched it.
Untouched == page.status /\ ~page.config /\ ~page.edited

\* The database, as long as nothing excuses its absence: what the form of an untouched page says of it is what runs,
\* or what the file says; and the container a saved file needs is among those the restart starts.
DatabaseIsKept ==
    /\ docker
    /\ BringsAlong(file["postgres"]) /\ BringsAlong(running["postgres"]) /\ BringsAlong(page.form["postgres"])
    /\ page.modal /\ Contained(file["postgres"]) => "postgres" \in page.pending
    /\ proc \in {"stopping", "down"} /\ Contained(file["postgres"]) => "postgres" \in containers
    /\ Untouched /\ (page.modal \/ proc \in {"stopping", "down"}) =>
          Alike(file["postgres"], DatabaseSaved(Off, page.form["postgres"]))
    /\ Untouched /\ proc = "up" =>
          \/ page.form["postgres"] = Seeded("postgres")
          \/ /\ Alike(file["postgres"], running["postgres"])
             /\ Alike(file["postgres"], DatabaseSaved(Off, page.form["postgres"]))

InfraTyped ==
    /\ file \in Configurations /\ running \in Configurations /\ page \in Pages
    /\ proc \in {"up", "stopping", "down", "stuck"} /\ docker \in BOOLEAN /\ excused \in BOOLEAN /\ containers \subseteq Services

InfraInv ==
    /\ InfraTyped /\ FormWaits /\ BackendsAreUp
    /\ "postgres" \in Services /\ ~excused => DatabaseIsKept
    /\ ~excused => docker

LEMMA Disjoint ==
    /\ \A s \in Services : s \notin Switches
    /\ Sections = Services \cup Switches
    /\ \A s \in Switches : s \in {"queue", "engine", "extras"}
    /\ \A s \in Services : s \in {"postgres", "redis", "minio"}
  BY InfraAssumption DEF Sections

LEMMA OffTyped == Off \in Selections
  BY DEF Off, Selections

LEMMA ConfigurationOf ==
    ASSUME NEW c, c \in Configurations
    PROVE  /\ DOMAIN c = Sections
           /\ \A p \in Services : c[p] \in Selections
           /\ \A s \in Switches : c[s] \in Settings[s]
  BY Disjoint DEF Configurations, IsConfiguration

LEMMA SettingsTyped == \A s \in Switches : Settings[s] \subseteq BOOLEAN \cup {"wwjs", "baileys", "default", "tuned"}
  BY Disjoint DEF Settings

LEMMA ConfigurationIs ==
    ASSUME NEW c, c = [s \in Sections |-> c[s]],
           \A p \in Services : c[p] \in Selections, \A s \in Switches : c[s] \in Settings[s]
    PROVE  c \in Configurations
  <1>1. \A s \in Sections : c[s] \in Selections \cup BOOLEAN \cup {"wwjs", "baileys", "default", "tuned"}
    BY Disjoint, SettingsTyped
  <1>2. DOMAIN c = Sections /\ c \in [Sections -> Selections \cup BOOLEAN \cup {"wwjs", "baileys", "default", "tuned"}]
    BY <1>1
  <1>3. IsConfiguration(c)
    BY <1>2, Disjoint DEF IsConfiguration
  <1> QED BY <1>2, <1>3 DEF Configurations

LEMMA MinimalTyped == Minimal \in Configurations /\ \A p \in Services : Minimal[p] = Off
  <1>1. \A s \in Switches : [queue |-> FALSE, engine |-> "wwjs", extras |-> "default"][s] \in Settings[s]
    <2>1. FALSE \in Settings["queue"] /\ "wwjs" \in Settings["engine"] /\ "default" \in Settings["extras"]
      BY DEF Settings
    <2>2. PICK d : d = [queue |-> FALSE, engine |-> "wwjs", extras |-> "default"]
      OBVIOUS
    <2>3. d["queue"] = FALSE /\ d["engine"] = "wwjs" /\ d["extras"] = "default"
      BY <2>2
    <2>4. \A s \in Switches : s = "queue" \/ s = "engine" \/ s = "extras"
      BY Disjoint
    <2>5. \A s \in Switches : d[s] \in Settings[s]
      BY <2>1, <2>3, <2>4
    <2> QED BY <2>2, <2>5
  <1>2. Minimal = [s \in Sections |-> Minimal[s]]
    BY DEF Minimal
  <1>3. \A p \in Services : Minimal[p] = Off
    BY Disjoint DEF Minimal
  <1>4. \A s \in Switches : Minimal[s] \in Settings[s]
    BY <1>1, Disjoint DEF Minimal
  <1> QED BY <1>2, <1>3, <1>4, OffTyped, ConfigurationIs

\* A section changed alone, or all of them in a function of their own.
LEMMA SectionSet ==
    ASSUME NEW c \in Configurations, NEW p \in Sections, NEW v, v \in IF p \in Services THEN Selections ELSE Settings[p]
    PROVE  [c EXCEPT ![p] = v] \in Configurations /\ [c EXCEPT ![p] = v][p] = v
           /\ \A s \in Sections \ {p} : [c EXCEPT ![p] = v][s] = c[s]
  <1>1. DOMAIN c = Sections /\ (\A q \in Services : c[q] \in Selections) /\ \A s \in Switches : c[s] \in Settings[s]
    BY ConfigurationOf
  <1>2. PICK d : d = [c EXCEPT ![p] = v]
    OBVIOUS
  <1>3. d = [s \in Sections |-> d[s]] /\ d[p] = v /\ \A s \in Sections \ {p} : d[s] = c[s]
    BY <1>1, <1>2
  <1>4. (\A q \in Services : d[q] \in Selections) /\ \A s \in Switches : d[s] \in Settings[s]
    BY <1>1, <1>3, Disjoint
  <1>5. d \in Configurations
    BY <1>3, <1>4, ConfigurationIs
  <1> QED BY <1>2, <1>3, <1>5

LEMMA SavedTyped ==
    ASSUME NEW p \in Services, NEW old \in Selections, NEW s \in Selections
    PROVE  ServiceSaved(p, old, s) \in Selections /\ (p = "postgres" => ServiceSaved(p, old, s) = DatabaseSaved(Off, s))
  <1>1. \A t \in {"none", "container", "external"} : [s EXCEPT !.target = t] \in Selections
    BY DEF Selections
  <1>2. Reached(s, "external") \in {"none", "container", "external"} /\ Reached(s, old.target) \in {"none", "container", "external"}
    BY DEF Reached, Selections
  <1>3. old.target \in {"none", "container", "external"}
    BY DEF Selections
  <1>4. DatabaseSaved(old, s) \in Selections /\ RedisSaved(old, s) \in Selections /\ StorageSaved(old, s) \in Selections
    BY <1>1, <1>2, <1>3 DEF DatabaseSaved, RedisSaved, StorageSaved
  <1>5. DatabaseSaved(old, s) = DatabaseSaved(Off, s)
    BY DEF DatabaseSaved
  <1> QED BY <1>4, <1>5, Disjoint DEF ServiceSaved

LEMMA MergedTyped ==
    ASSUME NEW old \in Configurations, NEW payload, DOMAIN payload \subseteq Sections,
           \A s \in DOMAIN payload : payload[s] \in IF s \in Services THEN Selections ELSE Settings[s]
    PROVE  /\ Merged(old, payload) \in Configurations
           /\ \A s \in DOMAIN payload :
                 Merged(old, payload)[s] = IF s \in Services THEN ServiceSaved(s, old[s], payload[s]) ELSE payload[s]
  <1>0. PICK full : full = Completed(payload)
    OBVIOUS
  <1>1. /\ DOMAIN payload \subseteq DOMAIN full /\ \A s \in DOMAIN payload : full[s] = payload[s]
        /\ \A s \in DOMAIN full : s \notin DOMAIN payload => s \in Sections /\ full[s] = Minimal[s]
    BY <1>0 DEF Completed
  <1>2. /\ (\A q \in Services : old[q] \in Selections) /\ (\A s \in Switches : old[s] \in Settings[s])
        /\ (\A q \in Services : Minimal[q] \in Selections) /\ \A s \in Switches : Minimal[s] \in Settings[s]
    BY ConfigurationOf, MinimalTyped
  <1>3. \A s \in DOMAIN full : full[s] \in IF s \in Services THEN Selections ELSE Settings[s]
    BY <1>1, <1>2, Disjoint
  <1>4. PICK d : d = Merged(old, payload)
    OBVIOUS
  <1>5. d = [s \in Sections |-> IF s \notin DOMAIN full THEN old[s]
                              ELSE IF s \in Services THEN ServiceSaved(s, old[s], full[s]) ELSE full[s]]
    BY <1>0, <1>4 DEF Merged
  <1>6. \A q \in Services : d[q] \in Selections
    <2> TAKE q \in Services
    <2>1. CASE q \in DOMAIN full
      <3>1. full[q] \in Selections /\ old[q] \in Selections
        BY <1>2, <1>3, <2>1
      <3>2. ServiceSaved(q, old[q], full[q]) \in Selections
        BY <3>1, SavedTyped
      <3> QED BY <1>5, <2>1, <3>2, Disjoint
    <2>2. CASE q \notin DOMAIN full
      BY <1>2, <1>5, <2>2, Disjoint
    <2> QED BY <2>1, <2>2
  <1>7. \A s \in Switches : d[s] \in Settings[s]
    BY <1>2, <1>3, <1>5, Disjoint
  <1>8. d = [s \in Sections |-> d[s]]
    BY <1>5
  <1>9. d \in Configurations
    BY <1>6, <1>7, <1>8, ConfigurationIs
  <1>10. \A s \in DOMAIN payload : d[s] = IF s \in Services THEN ServiceSaved(s, old[s], payload[s]) ELSE payload[s]
    BY <1>1, <1>5
  <1> QED BY <1>4, <1>9, <1>10

LEMMA InitInfra == InfraInit => InfraInv
  <1> SUFFICES ASSUME InfraInit PROVE InfraInv
    OBVIOUS
  <1>1. PICK e \in Settings.engine : file = [s \in Sections |-> IF s = "engine" THEN e ELSE Minimal[s]]
    BY DEF InfraInit
  <1>2. (\A q \in Services : Minimal[q] = Off) /\ \A s \in Switches : Minimal[s] \in Settings[s]
    BY MinimalTyped, ConfigurationOf
  <1>3. \A q \in Services : file[q] = Off
    BY <1>1, <1>2, Disjoint
  <1>4. \A s \in Switches : file[s] \in Settings[s]
    BY <1>1, <1>2, Disjoint DEF Settings
  <1>5. file = [s \in Sections |-> file[s]]
    BY <1>1
  <1>6. file \in Configurations /\ running = file /\ running \in Configurations
    BY <1>3, <1>4, <1>5, OffTyped, ConfigurationIs DEF InfraInit
  <1>7. page = NewPage /\ page \in Pages /\ \A q \in Services : page.form[q] = Off
    BY MinimalTyped DEF InfraInit, NewPage, FormDefaults, Pages
  <1>8. InfraTyped
    BY <1>6, <1>7 DEF InfraInit, InfraTyped
  <1>9. FormWaits /\ BackendsAreUp
    BY <1>3, <1>6, <1>7 DEF FormWaits, BackendsAreUp, InfraInit, NewPage, Off
  <1>10. "postgres" \in Services /\ ~excused => DatabaseIsKept
    <2>1. SUFFICES ASSUME "postgres" \in Services, ~excused PROVE DatabaseIsKept
      OBVIOUS
    <2>2. docker
      BY <2>1 DEF InfraInit
    <2>3. file["postgres"] = Off /\ running["postgres"] = Off /\ page.form["postgres"] = Off /\ ~Off.on
      BY <1>3, <1>6, <1>7, <2>1 DEF Off
    <2>4. ~page.modal /\ ~page.status /\ proc = "up"
      BY <1>7 DEF NewPage, InfraInit
    <2> QED BY <2>2, <2>3, <2>4 DEF DatabaseIsKept, BringsAlong, Contained, Untouched
  <1>11. ~excused => docker
    BY DEF InfraInit
  <1> QED BY <1>8, <1>9, <1>10, <1>11 DEF InfraInv

LEMMA Typed ==
    ASSUME InfraInv
    PROVE  /\ InfraTyped /\ page \in Pages /\ page.form \in Configurations
           /\ file \in Configurations /\ running \in Configurations
           /\ \A p \in Services : p \in Sections /\ file[p] \in Selections /\ running[p] \in Selections /\ page.form[p] \in Selections
           /\ \A s \in Switches : s \in Sections /\ file[s] \in Settings[s] /\ running[s] \in Settings[s] /\ page.form[s] \in Settings[s]
  <1>1. InfraTyped /\ page \in Pages /\ page.form \in Configurations /\ file \in Configurations /\ running \in Configurations
    BY DEF InfraInv, InfraTyped, Pages
  <1> QED BY <1>1, ConfigurationOf, Disjoint

LEMMA NewPageTyped == NewPage \in Pages /\ ~NewPage.status /\ ~NewPage.modal /\ \A p \in Services : NewPage.form[p] = Off
  BY MinimalTyped DEF NewPage, FormDefaults, Pages

LEMMA ApiSavesStep == ASSUME InfraInv, ApiSaves PROVE InfraInv'
  <1>1. PICK sections \in SUBSET Sections \ {{}} :
          \E payload \in {[s \in sections |-> IF s \in Services THEN [Off EXCEPT !.on = on, !.builtin = on] ELSE file[s]] : on \in BOOLEAN} :
              file' = Merged(file, payload)
    BY DEF ApiSaves
  <1>2. PICK on \in BOOLEAN :
          file' = Merged(file, [s \in sections |-> IF s \in Services THEN [Off EXCEPT !.on = on, !.builtin = on] ELSE file[s]])
    BY <1>1
  <1>3. PICK v : v = [Off EXCEPT !.on = on, !.builtin = on]
    OBVIOUS
  <1>4. v \in Selections
    BY <1>3 DEF Off, Selections
  <1>5. PICK payload : payload = [s \in sections |-> IF s \in Services THEN v ELSE file[s]] /\ file' = Merged(file, payload)
    BY <1>2, <1>3
  <1>6. DOMAIN payload \subseteq Sections /\ \A s \in DOMAIN payload : payload[s] \in IF s \in Services THEN Selections ELSE Settings[s]
    BY <1>4, <1>5, Typed, Disjoint
  <1>7. file \in Configurations
    BY Typed
  <1>8. file' \in Configurations
    BY <1>5, <1>6, <1>7, MergedTyped
  <1>9. excused' = TRUE /\ UNCHANGED <<running, proc, docker, containers, page>>
    BY DEF ApiSaves
  <1>10. InfraTyped' /\ FormWaits' /\ BackendsAreUp'
    BY <1>8, <1>9 DEF InfraInv, InfraTyped, FormWaits, BackendsAreUp
  <1> QED BY <1>9, <1>10 DEF InfraInv

LEMMA OpensPageStep == ASSUME InfraInv, OpensPage PROVE InfraInv'
  <1>1. page' = NewPage /\ UNCHANGED <<file, running, proc, docker, containers, excused>>
    BY DEF OpensPage
  <1>2. InfraTyped' /\ FormWaits' /\ BackendsAreUp'
    BY <1>1, NewPageTyped DEF InfraInv, InfraTyped, FormWaits, BackendsAreUp, Off
  <1>3. ASSUME "postgres" \in Services, ~excused' PROVE DatabaseIsKept'
    <2>1. DatabaseIsKept
      BY <1>1, <1>3 DEF InfraInv
    <2>2. ~page'.status /\ ~page'.modal /\ ~page'.form["postgres"].on
      BY <1>1, <1>3, NewPageTyped DEF Off
    <2> QED BY <1>1, <2>1, <2>2 DEF DatabaseIsKept, BringsAlong, Contained, Untouched
  <1> QED BY <1>1, <1>2, <1>3 DEF InfraInv

LEMMA SeededTyped == ASSUME InfraInv, NEW p \in Services PROVE Seeded(p) \in Selections
  <1>1. LiveBuiltin(p) \in BOOLEAN
    BY Typed DEF LiveBuiltin, InfraTyped, Selections
  <1>2. running[p].on \in BOOLEAN /\ running[p].target \in {"none", "container", "external"}
        /\ page.form[p].target \in {"none", "container", "external"}
    BY Typed DEF Selections
  <1> QED BY <1>1, <1>2 DEF Seeded, Selections

\* What the status says of a database that runs.
LEMMA SeededDatabase ==
    ASSUME InfraInv, "postgres" \in Services, ~excused, proc = "up"
    PROVE  /\ BringsAlong(Seeded("postgres"))
           /\ Seeded("postgres").on = running["postgres"].on
           /\ running["postgres"].on => (Seeded("postgres").builtin <=> running["postgres"].target = "container")
           /\ Seeded("postgres").target = IF running["postgres"].target = "none" THEN "external" ELSE running["postgres"].target
           /\ Seeded("postgres")' = Seeded("postgres") \/ ~UNCHANGED <<running, docker, containers>>
  <1>1. DatabaseIsKept /\ docker /\ BackendsAreUp
    BY DEF InfraInv
  <1>2. Seeded("postgres") =
          [on |-> running["postgres"].on, builtin |-> "postgres" \in containers /\ running["postgres"].target = "container",
           target |-> IF running["postgres"].target = "none" THEN "external" ELSE running["postgres"].target]
    BY <1>1 DEF Seeded, LiveBuiltin
  <1>3. running["postgres"].on /\ running["postgres"].target = "container" => "postgres" \in containers
    BY <1>1 DEF DatabaseIsKept, BackendsAreUp, BringsAlong, Contained
  <1>4. UNCHANGED <<running, docker, containers>> => Seeded("postgres")' = Seeded("postgres")
    BY <1>1 DEF Seeded, LiveBuiltin
  <1>5. PICK s, r : s = Seeded("postgres") /\ r = running["postgres"]
    OBVIOUS
  <1>6. s.on = r.on /\ s.target = IF r.target = "none" THEN "external" ELSE r.target
    BY <1>2, <1>5
  <1>7. s.builtin <=> "postgres" \in containers /\ r.target = "container"
    <2>1. s.builtin = ("postgres" \in containers /\ r.target = "container")
      BY <1>2, <1>5
    <2> QED BY <2>1
  <1>8. r.on /\ r.target = "container" => "postgres" \in containers
    BY <1>3, <1>5
  <1>9. s.on /\ s.target = "container" => r.on /\ r.target = "container"
    BY <1>6
  <1>10. BringsAlong(s)
    BY <1>7, <1>8, <1>9 DEF BringsAlong, Contained
  <1> QED BY <1>4, <1>5, <1>6, <1>7, <1>8, <1>10

\* What the status says of a database that runs as the file says is saved as it was.
LEMMA SavedAgain ==
    ASSUME NEW f \in Selections, NEW r \in Selections, NEW m \in Selections, NEW s \in Selections,
           BringsAlong(m), Alike(f, r), Alike(f, DatabaseSaved(Off, m)),
           s.on = r.on, r.on => (s.builtin <=> r.target = "container"),
           s.target = IF r.target = "none" THEN "external" ELSE r.target
    PROVE  Alike(f, DatabaseSaved(Off, s))
  <1>1. PICK x : x = DatabaseSaved(Off, m)
    OBVIOUS
  <1>2. PICK y : y = DatabaseSaved(Off, s)
    OBVIOUS
  <1>3. /\ x \in Selections /\ x.on = m.on /\ x.builtin = m.builtin
        /\ m.on => x.target = IF m.builtin THEN "container" ELSE IF m.target = "none" THEN "external" ELSE m.target
    BY <1>1 DEF DatabaseSaved, Reached, Selections
  <1>4. /\ y \in Selections /\ y.on = s.on /\ y.builtin = s.builtin
        /\ s.on => y.target = IF s.builtin THEN "container" ELSE IF s.target = "none" THEN "external" ELSE s.target
    BY <1>2 DEF DatabaseSaved, Reached, Selections
  <1>5. f.on = r.on /\ f.on = x.on /\ (f.on => f = r /\ f = x)
    BY <1>1 DEF Alike
  <1>6. f.on = y.on
    BY <1>4, <1>5
  <1>7. ASSUME f.on PROVE f = y
    <2>1. r.on /\ m.on /\ s.on /\ r = x /\ f = x
      <3>1. f = r /\ f = x
        BY <1>5, <1>7
      <3>2. r.on /\ x.on
        BY <1>7, <3>1
      <3>3. m.on
        BY <1>3, <3>2
      <3>4. s.on
        BY <3>2
      <3> QED BY <3>1, <3>2, <3>3, <3>4
    <2>2. m.target = "container" => m.builtin
      BY <2>1 DEF BringsAlong, Contained
    <2>3. x.target = "container" <=> m.builtin
      BY <1>3, <2>1, <2>2
    <2>4. s.builtin <=> m.builtin
      BY <2>1, <2>3
    <2>5. s.builtin \in BOOLEAN /\ m.builtin \in BOOLEAN
      BY DEF Selections
    <2>6. y.builtin = x.builtin
      BY <1>3, <1>4, <2>4, <2>5
    <2>7. x.target # "none" /\ y.target = x.target
      BY <1>3, <1>4, <2>1, <2>2, <2>3, <2>4
    <2>8. y.on = x.on
      BY <1>5, <1>6
    <2>9. x = [on |-> x.on, builtin |-> x.builtin, target |-> x.target]
      BY <1>3 DEF Selections
    <2>10. y = [on |-> y.on, builtin |-> y.builtin, target |-> y.target]
      BY <1>4 DEF Selections
    <2>11. x = y
      BY <2>6, <2>7, <2>8, <2>9, <2>10
    <2> QED BY <2>1, <2>11
  <1> QED BY <1>2, <1>6, <1>7 DEF Alike

LEMMA StatusArrivesStep == ASSUME InfraInv, StatusArrives PROVE InfraInv'
  <1>1. PICK form : form = [s \in Sections |-> IF s \in Services THEN Seeded(s) ELSE IF s = "queue" THEN running[s] ELSE page.form[s]]
    OBVIOUS
  <1>2. /\ proc = "up" /\ UNCHANGED <<file, running, proc, docker, containers>>
        /\ page' = IF FormSeeded THEN page ELSE [page EXCEPT !.status = TRUE, !.form = form]
        /\ excused' = (excused \/ (page.edited /\ ~FormSeeded))
    BY <1>1 DEF StatusArrives
  <1>3. form \in Configurations /\ \A p \in Services : form[p] = Seeded(p)
    <2>1. \A p \in Services : form[p] = Seeded(p) /\ form[p] \in Selections
      BY <1>1, SeededTyped, Disjoint
    <2>2. \A s \in Switches : form[s] \in Settings[s]
      BY <1>1, Typed, Disjoint
    <2>3. form = [s \in Sections |-> form[s]]
      BY <1>1
    <2> QED BY <2>1, <2>2, <2>3, ConfigurationIs
  <1>4. CASE FormSeeded
    <2>1. UNCHANGED <<file, running, proc, docker, containers, page, excused>>
      <3>1. page' = page
        BY <1>2, <1>4
      <3>2. excused' = excused
        BY <1>2, <1>4 DEF InfraInv, InfraTyped
      <3> QED BY <1>2, <3>1, <3>2
    <2> QED BY <2>1 DEF InfraInv, InfraTyped, FormWaits, BackendsAreUp, DatabaseIsKept, Untouched, Seeded, LiveBuiltin
  <1>5. CASE ~FormSeeded
    <2>0. page \in Pages
      BY Typed
    <2>1. page' = [page EXCEPT !.status = TRUE, !.form = form]
      BY <1>2, <1>5
    <2>2. /\ page' \in Pages /\ page'.status /\ page'.form = form /\ page'.config = page.config /\ page'.modal = page.modal
          /\ page'.edited = page.edited /\ page'.pending = page.pending
      BY <1>3, <2>0, <2>1 DEF Pages
    <2>3. InfraTyped'
      BY <1>2, <2>2 DEF InfraInv, InfraTyped
    <2>4. FormWaits' /\ BackendsAreUp' /\ (~excused' => docker')
      BY <1>2, <2>2 DEF InfraInv, FormWaits, BackendsAreUp
    <2>5. ASSUME "postgres" \in Services, ~excused' PROVE DatabaseIsKept'
      <3>1. ~excused /\ ~page.edited /\ DatabaseIsKept
        BY <1>2, <1>5, <2>5 DEF InfraInv
      <3>2. PICK f, r, m, s : f = file["postgres"] /\ r = running["postgres"] /\ m = page.form["postgres"] /\ s = Seeded("postgres")
        OBVIOUS
      <3>3. f \in Selections /\ r \in Selections /\ m \in Selections /\ s \in Selections
        BY <2>5, <3>2, Typed, SeededTyped
      <3>4. /\ BringsAlong(s) /\ s.on = r.on /\ (r.on => (s.builtin <=> r.target = "container"))
            /\ s.target = IF r.target = "none" THEN "external" ELSE r.target
            /\ Seeded("postgres")' = s
        BY <1>2, <2>5, <3>1, <3>2, SeededDatabase
      <3>5. page'.form["postgres"] = s
        BY <1>3, <2>2, <2>5, <3>2
      <3>6. ASSUME Untouched', page'.modal PROVE Alike(f, DatabaseSaved(Off, s))
        <4>1. Untouched /\ page.modal
          BY <1>5, <2>2, <3>1, <3>6 DEF Untouched, InfraInv, FormWaits, FormSeeded
        <4>2. BringsAlong(m) /\ Alike(f, DatabaseSaved(Off, m)) /\ (m = s \/ Alike(f, r))
          BY <1>2, <3>1, <3>2, <4>1 DEF DatabaseIsKept
        <4>3. CASE m = s
          BY <4>2, <4>3
        <4>4. CASE Alike(f, r)
          BY <3>3, <3>4, <4>2, <4>4, SavedAgain
        <4> QED BY <4>2, <4>3, <4>4
      <3>7. BringsAlong(f) /\ BringsAlong(r) /\ docker /\ (page.modal /\ Contained(f) => "postgres" \in page.pending)
        BY <3>1, <3>2 DEF DatabaseIsKept
      <3> QED BY <1>2, <2>2, <3>2, <3>4, <3>5, <3>6, <3>7 DEF DatabaseIsKept
    <2> QED BY <2>3, <2>4, <2>5 DEF InfraInv
  <1> QED BY <1>4, <1>5

LEMMA ConfigArrivesStep == ASSUME InfraInv, ConfigArrives PROVE InfraInv'
  <1>1. PICK form : form = [s \in Sections |->
                              IF s \in Services /\ file[s].target # "none" THEN [page.form[s] EXCEPT !.target = file[s].target]
                              ELSE IF s = "extras" THEN file[s] ELSE page.form[s]]
    OBVIOUS
  <1>2. /\ proc = "up" /\ UNCHANGED <<file, running, proc, docker, containers>>
        /\ page' = IF FormSeeded THEN page ELSE [page EXCEPT !.config = TRUE, !.form = form]
        /\ excused' = (excused \/ (~FormSeeded /\ (page.edited \/ file # running)))
    BY <1>1 DEF ConfigArrives
  <1>3. /\ form \in Configurations
        /\ \A p \in Services : /\ form[p].on = page.form[p].on /\ form[p].builtin = page.form[p].builtin
                                /\ form[p].target = IF file[p].target # "none" THEN file[p].target ELSE page.form[p].target
    <2>1. ASSUME NEW p \in Services
          PROVE  /\ form[p] \in Selections
                 /\ form[p].on = page.form[p].on /\ form[p].builtin = page.form[p].builtin
                 /\ form[p].target = IF file[p].target # "none" THEN file[p].target ELSE page.form[p].target
      <3>1. PICK m, x : m = page.form[p] /\ x = file[p].target
        OBVIOUS
      <3>2. m \in Selections /\ x \in {"none", "container", "external"} /\ p \in Sections /\ p # "extras"
        BY <3>1, Typed, Disjoint DEF Selections
      <3>3. form[p] = IF x # "none" THEN [m EXCEPT !.target = x] ELSE m
        BY <1>1, <3>1, <3>2
      <3> QED BY <3>1, <3>2, <3>3 DEF Selections
    <2>2. \A s \in Switches : form[s] \in Settings[s]
      BY <1>1, Typed, Disjoint
    <2>3. form = [s \in Sections |-> form[s]]
      BY <1>1
    <2> QED BY <2>1, <2>2, <2>3, ConfigurationIs
  <1>4. CASE FormSeeded
    <2>1. UNCHANGED <<file, running, proc, docker, containers, page, excused>>
      <3>1. page' = page
        BY <1>2, <1>4
      <3>2. excused' = excused
        BY <1>2, <1>4 DEF InfraInv, InfraTyped
      <3> QED BY <1>2, <3>1, <3>2
    <2> QED BY <2>1 DEF InfraInv, InfraTyped, FormWaits, BackendsAreUp, DatabaseIsKept, Untouched, Seeded, LiveBuiltin
  <1>5. CASE ~FormSeeded
    <2>0. page \in Pages
      BY Typed
    <2>1. page' = [page EXCEPT !.config = TRUE, !.form = form]
      BY <1>2, <1>5
    <2>2. /\ page' \in Pages /\ page'.config /\ page'.form = form /\ page'.status = page.status /\ page'.modal = page.modal
          /\ page'.edited = page.edited /\ page'.pending = page.pending
      BY <1>3, <2>0, <2>1 DEF Pages
    <2>3. InfraTyped'
      BY <1>2, <2>2 DEF InfraInv, InfraTyped
    <2>4. FormWaits' /\ BackendsAreUp' /\ (~excused' => docker')
      BY <1>2, <1>3, <2>2 DEF InfraInv, FormWaits, BackendsAreUp
    <2>5. ASSUME "postgres" \in Services, ~excused' PROVE DatabaseIsKept'
      <3>1. ~excused /\ ~page.edited /\ file = running /\ DatabaseIsKept
        BY <1>2, <1>5, <2>5 DEF InfraInv
      <3>2. PICK f, m, s, z : f = file["postgres"] /\ m = page.form["postgres"] /\ s = Seeded("postgres") /\ z = page'.form["postgres"]
        OBVIOUS
      <3>3. f \in Selections /\ m \in Selections /\ f = running["postgres"]
        BY <2>5, <3>1, <3>2, Typed
      <3>4. z.on = m.on /\ z.builtin = m.builtin /\ z.target = IF f.target # "none" THEN f.target ELSE m.target
        BY <1>3, <2>2, <2>5, <3>2
      <3>5. BringsAlong(m)
        BY <3>1, <3>2 DEF DatabaseIsKept
      <3>7. ASSUME page.status, m.on, f.target = "container" PROVE m.builtin
        <4>1. Untouched
          BY <1>5, <3>1, <3>7 DEF Untouched, FormSeeded
        <4>2. m = s \/ Alike(f, DatabaseSaved(Off, m))
          BY <1>2, <3>1, <3>2, <4>1 DEF DatabaseIsKept
        <4>3. CASE m = s
          BY <1>2, <2>5, <3>1, <3>2, <3>3, <3>7, <4>3, SeededDatabase
        <4>4. CASE Alike(f, DatabaseSaved(Off, m))
          <5>1. PICK x : x = DatabaseSaved(Off, m)
            OBVIOUS
          <5>2. x.on = m.on /\ x.target = IF m.builtin THEN "container" ELSE IF m.target = "none" THEN "external" ELSE m.target
            BY <3>3, <3>7, <5>1 DEF DatabaseSaved, Reached, Selections
          <5>3. f = x
            BY <3>7, <4>4, <5>1, <5>2 DEF Alike
          <5> QED BY <3>5, <3>7, <5>2, <5>3 DEF BringsAlong, Contained
        <4> QED BY <4>2, <4>3, <4>4
      <3>8. BringsAlong(z)
        <4>1. SUFFICES ASSUME z.on, z.target = "container" PROVE z.builtin
          BY DEF BringsAlong, Contained
        <4>2. m.on /\ page.status
          BY <3>4, <4>1, <2>5, <3>2 DEF InfraInv, FormWaits
        <4>3. CASE f.target = "container"
          BY <3>4, <3>7, <4>2, <4>3
        <4>4. CASE f.target # "container"
          BY <3>4, <3>5, <4>1, <4>2, <4>4 DEF BringsAlong, Contained
        <4> QED BY <4>3, <4>4
      <3>9. BringsAlong(page'.form["postgres"]) /\ ~Untouched'
        BY <2>2, <3>2, <3>8 DEF Untouched
      <3>10. /\ BringsAlong(f) /\ BringsAlong(running["postgres"]) /\ docker
             /\ page.modal /\ Contained(f) => "postgres" \in page.pending
        BY <3>1, <3>2 DEF DatabaseIsKept
      <3> QED BY <1>2, <2>2, <3>2, <3>9, <3>10 DEF DatabaseIsKept
    <2> QED BY <2>3, <2>4, <2>5 DEF InfraInv
  <1> QED BY <1>4, <1>5

LEMMA EditsStep == ASSUME InfraInv, Edits PROVE InfraInv'
  <1>1. /\ page.status /\ ~page.modal /\ UNCHANGED <<file, running, proc, docker, containers, excused>>
        /\ page \in Pages /\ page.form \in Configurations
    BY Typed DEF Edits, FormShown
  <1>2. \/ \E p \in Services : \E v \in Selections : page' = [page EXCEPT !.form[p] = v, !.edited = TRUE] /\ BringsAlong(v)
        \/ \E s \in Switches : \E v \in Settings[s] : page' = [page EXCEPT !.form[s] = v, !.edited = TRUE]
    <2>1. ASSUME NEW p \in Services, EditService(p)
          PROVE  \E v \in Selections : page' = [page EXCEPT !.form[p] = v, !.edited = TRUE] /\ BringsAlong(v)
      <3>1. PICK m : m = page.form[p]
        OBVIOUS
      <3>2. PICK v \in {[m EXCEPT !.on = FALSE], [m EXCEPT !.on = TRUE, !.builtin = TRUE],
                        [on |-> TRUE, builtin |-> FALSE, target |-> "external"]} :
              page' = [page EXCEPT !.form[p] = v, !.edited = TRUE]
        BY <2>1, <3>1 DEF EditService
      <3>3. m \in Selections
        BY <3>1, Typed
      <3>4. ASSUME v = [m EXCEPT !.on = FALSE] PROVE v \in Selections /\ ~v.on
        BY <3>3, <3>4 DEF Selections
      <3>5. ASSUME v = [m EXCEPT !.on = TRUE, !.builtin = TRUE] PROVE v \in Selections /\ v.builtin
        <4>1. v = [on |-> TRUE, builtin |-> TRUE, target |-> m.target]
          BY <3>3, <3>5 DEF Selections
        <4> QED BY <3>3, <4>1 DEF Selections
      <3>6. ASSUME v = [on |-> TRUE, builtin |-> FALSE, target |-> "external"] PROVE v \in Selections /\ v.target # "container"
        BY <3>6 DEF Selections
      <3>7. v \in Selections /\ BringsAlong(v)
        BY <3>2, <3>4, <3>5, <3>6 DEF BringsAlong, Contained
      <3> QED BY <3>2, <3>7
    <2> QED BY <2>1 DEF Edits
  <1>3. PICK p \in Sections, v \in Selections \cup UNION {Settings[s] : s \in Switches} :
               /\ page' = [page EXCEPT !.form[p] = v, !.edited = TRUE]
               /\ v \in IF p \in Services THEN Selections ELSE Settings[p]
               /\ p = "postgres" => BringsAlong(v)
    <2>1. CASE \E p \in Services : \E v \in Selections : page' = [page EXCEPT !.form[p] = v, !.edited = TRUE] /\ BringsAlong(v)
      BY <2>1, Disjoint
    <2>2. CASE \E s \in Switches : \E v \in Settings[s] : page' = [page EXCEPT !.form[s] = v, !.edited = TRUE]
      BY <2>2, Disjoint
    <2> QED BY <1>2, <2>1, <2>2
  <1>4. PICK form : form = [page.form EXCEPT ![p] = v]
    OBVIOUS
  <1>5. form \in Configurations /\ form[p] = v /\ \A s \in Sections \ {p} : form[s] = page.form[s]
    BY <1>1, <1>3, <1>4, SectionSet
  <1>6. /\ page' \in Pages /\ page'.form = form /\ page'.status /\ page'.edited /\ page'.pending = page.pending
        /\ page'.modal = page.modal
    <2>1. page' = [page EXCEPT !.form = form, !.edited = TRUE]
      BY <1>1, <1>3, <1>4 DEF Pages
    <2> QED BY <1>1, <1>5, <2>1 DEF Pages
  <1>7. InfraTyped' /\ FormWaits' /\ BackendsAreUp'
    BY <1>1, <1>6 DEF InfraInv, InfraTyped, FormWaits, BackendsAreUp
  <1>8. ASSUME "postgres" \in Services, ~excused' PROVE DatabaseIsKept'
    <2>1. DatabaseIsKept /\ "postgres" \in Sections
      BY <1>1, <1>8, Disjoint DEF InfraInv
    <2>2. BringsAlong(form["postgres"])
      BY <1>3, <1>5, <1>8, <2>1 DEF DatabaseIsKept
    <2>3. BringsAlong(page'.form["postgres"]) /\ ~Untouched' /\ ~page'.modal
      BY <1>1, <1>6, <2>2 DEF Untouched
    <2>4. /\ BringsAlong(file["postgres"]) /\ BringsAlong(running["postgres"]) /\ docker
          /\ proc \in {"stopping", "down"} /\ Contained(file["postgres"]) => "postgres" \in containers
      BY <2>1 DEF DatabaseIsKept
    <2> QED BY <1>1, <2>3, <2>4 DEF DatabaseIsKept
  <1>9. ~excused' => docker'
    BY <1>1 DEF InfraInv
  <1> QED BY <1>7, <1>8, <1>9 DEF InfraInv

LEMMA SavesFormStep == ASSUME InfraInv, SavesForm PROVE InfraInv'
  <1>1. page.status /\ ~page.modal /\ proc = "up" /\ UNCHANGED <<running, proc, docker, containers, excused>>
    BY DEF SavesForm, FormShown
  <1>2. CASE UNCHANGED <<file, page>>
    BY <1>1, <1>2 DEF InfraInv, InfraTyped, FormWaits, BackendsAreUp, DatabaseIsKept, Untouched, Seeded, LiveBuiltin
  <1>3. CASE /\ file' = Merged(file, page.form)
             /\ page' = [page EXCEPT !.previous = page.pending, !.pending = ProfilesOf(page.form), !.modal = TRUE]
    <2>1. /\ page \in Pages /\ file \in Configurations /\ page.form \in Configurations
          /\ DOMAIN page.form = Sections
          /\ \A s \in Sections : page.form[s] \in IF s \in Services THEN Selections ELSE Settings[s]
      BY Typed, ConfigurationOf, Disjoint
    <2>2. /\ file' \in Configurations
          /\ \A s \in Services : file'[s] = ServiceSaved(s, file[s], page.form[s])
      BY <1>3, <2>1, MergedTyped, Disjoint
    <2>3. /\ page' \in Pages /\ page'.modal /\ page'.status /\ page'.form = page.form /\ page'.config = page.config
          /\ page'.edited = page.edited /\ page'.pending = ProfilesOf(page.form)
      BY <1>1, <1>3, <2>1 DEF Pages, ProfilesOf
    <2>4. InfraTyped' /\ FormWaits' /\ BackendsAreUp'
      BY <1>1, <2>2, <2>3 DEF InfraInv, InfraTyped, FormWaits, BackendsAreUp
    <2>5. ASSUME "postgres" \in Services, ~excused' PROVE DatabaseIsKept'
      <3>1. DatabaseIsKept
        BY <1>1, <2>5 DEF InfraInv
      <3>2. PICK f, r, m, x : /\ f = file["postgres"] /\ r = running["postgres"] /\ m = page.form["postgres"]
                              /\ x = DatabaseSaved(Off, m)
        OBVIOUS
      <3>3. f \in Selections /\ m \in Selections
        BY <2>5, <3>2, Typed
      <3>4. file'["postgres"] = x
        BY <2>2, <2>5, <3>2, <3>3, SavedTyped
      <3>5. /\ x.on = m.on /\ x.builtin = m.builtin
            /\ m.on => x.target = IF m.builtin THEN "container" ELSE IF m.target = "none" THEN "external" ELSE m.target
        BY <3>2, <3>3 DEF DatabaseSaved, Reached, Selections
      <3>6. BringsAlong(m)
        BY <3>1, <3>2 DEF DatabaseIsKept
      <3>7. Contained(x) => m.on /\ m.builtin
        BY <3>5, <3>6 DEF BringsAlong, Contained
      <3>8. BringsAlong(x)
        BY <3>5, <3>7 DEF BringsAlong
      <3>9. Contained(x) => "postgres" \in page'.pending
        BY <2>1, <2>3, <2>5, <3>2, <3>7, Disjoint DEF ProfilesOf
      <3>10. Alike(x, x)
        BY DEF Alike
      <3>11. Untouched' => Untouched
        BY <1>1, <2>3 DEF Untouched
      <3>12. Untouched' => m = Seeded("postgres")' \/ Alike(x, r)
        <4>1. Untouched => m = Seeded("postgres") \/ (Alike(f, r) /\ Alike(f, x))
          BY <1>1, <3>1, <3>2 DEF DatabaseIsKept
        <4>2. Seeded("postgres")' = Seeded("postgres")
          BY <1>1, <2>5, SeededDatabase
        <4>3. Alike(f, r) /\ Alike(f, x) => Alike(x, r)
          BY DEF Alike
        <4> QED BY <3>11, <4>1, <4>2, <4>3
      <3>13. docker /\ BringsAlong(r)
        BY <3>1, <3>2 DEF DatabaseIsKept
      <3> QED BY <1>1, <2>3, <3>2, <3>4, <3>6, <3>8, <3>9, <3>10, <3>12, <3>13 DEF DatabaseIsKept
    <2>6. ~excused' => docker'
      BY <1>1 DEF InfraInv
    <2> QED BY <2>4, <2>5, <2>6 DEF InfraInv
  <1> QED BY <1>2, <1>3 DEF SavesForm

LEMMA RestartsLaterStep == ASSUME InfraInv, RestartsLater PROVE InfraInv'
  <1>1. page \in Pages /\ page.modal /\ page' = [page EXCEPT !.modal = FALSE]
        /\ UNCHANGED <<file, running, proc, docker, containers, excused>>
    BY Typed DEF RestartsLater
  <1>2. /\ page' \in Pages /\ ~page'.modal /\ page'.status = page.status /\ page'.form = page.form
        /\ page'.config = page.config /\ page'.edited = page.edited
    BY <1>1 DEF Pages
  <1>3. InfraTyped' /\ FormWaits' /\ BackendsAreUp'
    BY <1>1, <1>2 DEF InfraInv, InfraTyped, FormWaits, BackendsAreUp
  <1>4. ASSUME "postgres" \in Services, ~excused' PROVE DatabaseIsKept'
    <2>1. DatabaseIsKept
      BY <1>1, <1>4 DEF InfraInv
    <2>2. proc = "up" => Seeded("postgres")' = Seeded("postgres")
      BY <1>1, <1>4, SeededDatabase
    <2>3. Untouched' <=> Untouched
      BY <1>2 DEF Untouched
    <2> QED BY <1>1, <1>2, <2>1, <2>2, <2>3 DEF DatabaseIsKept
  <1> QED BY <1>1, <1>3, <1>4 DEF InfraInv

LEMMA RequestsRestartStep == ASSUME InfraInv, RequestsRestart PROVE InfraInv'
  <1>1. /\ page.modal /\ proc = "up" /\ proc' = "stopping" /\ UNCHANGED <<file, running, docker, page>> /\ page \in Pages
        /\ IF docker THEN \E left \in LeftByRemoval : Orchestrates(left) ELSE UNCHANGED <<containers, excused>>
    BY Typed DEF RequestsRestart
  <1>2. CASE ~docker
    <2>1. excused /\ UNCHANGED <<containers, excused>>
      BY <1>1, <1>2 DEF InfraInv
    <2> QED BY <1>1, <2>1 DEF InfraInv, InfraTyped, FormWaits, BackendsAreUp
  <1>3. CASE docker
    <2>1. PICK left \in LeftByRemoval : Orchestrates(left)
      BY <1>1, <1>3
    <2>2. left \subseteq containers
      BY <2>1 DEF LeftByRemoval
    <2>3. PICK missed \in Failing(page.pending \ containers) :
            containers' = left \cup (page.pending \ missed) /\ excused' = (excused \/ missed # {})
      BY <2>1 DEF Orchestrates
    <2>4. containers' \subseteq Services /\ excused' \in BOOLEAN
      BY <1>1, <2>2, <2>3 DEF InfraInv, InfraTyped, Pages
    <2>5. InfraTyped' /\ FormWaits' /\ BackendsAreUp' /\ (~excused' => docker')
      BY <1>1, <1>3, <2>4 DEF InfraInv, InfraTyped, FormWaits, BackendsAreUp
    <2>6. ASSUME "postgres" \in Services, ~excused' PROVE DatabaseIsKept'
      <3>1. DatabaseIsKept /\ missed = {}
        BY <2>3, <2>6 DEF InfraInv
      <3>2. Contained(file["postgres"]) => "postgres" \in containers'
        BY <1>1, <2>3, <3>1 DEF DatabaseIsKept
      <3>3. Untouched' <=> Untouched
        BY <1>1 DEF Untouched
      <3> QED BY <1>1, <3>1, <3>2, <3>3 DEF DatabaseIsKept
    <2> QED BY <2>5, <2>6 DEF InfraInv
  <1> QED BY <1>2, <1>3

LEMMA ExitsStep == ASSUME InfraInv, Exits PROVE InfraInv'
  <1>1. proc = "stopping" /\ proc' = "down" /\ UNCHANGED <<file, running, docker, containers, page, excused>>
    BY DEF Exits
  <1>2. InfraTyped' /\ FormWaits' /\ BackendsAreUp' /\ (~excused' => docker')
    BY <1>1 DEF InfraInv, InfraTyped, FormWaits, BackendsAreUp
  <1>3. ASSUME "postgres" \in Services, ~excused' PROVE DatabaseIsKept'
    <2>1. DatabaseIsKept /\ (Untouched' <=> Untouched)
      BY <1>1, <1>3 DEF InfraInv, Untouched
    <2> QED BY <1>1, <2>1 DEF DatabaseIsKept
  <1> QED BY <1>2, <1>3 DEF InfraInv

LEMMA DiesStep == ASSUME InfraInv, Dies PROVE InfraInv'
  BY DEF Dies, InfraInv, InfraTyped, FormWaits, BackendsAreUp

LEMMA BootsStep == ASSUME InfraInv, Boots PROVE InfraInv'
  <1>1. proc \in {"down", "stuck"} /\ running' = file /\ UNCHANGED <<file, docker, page>>
    BY DEF Boots
  <1>2. CASE ~Reachable
    <2>1. proc' = "stuck" /\ UNCHANGED <<containers, excused>>
      BY <1>2 DEF Boots
    <2>2. excused
      <3>1. SUFFICES ASSUME ~excused PROVE FALSE
        OBVIOUS
      <3>2. proc = "down"
        BY <1>1, <3>1 DEF InfraInv, BackendsAreUp
      <3>3. "postgres" \in Services /\ Contained(file["postgres"]) /\ "postgres" \notin containers
        BY <1>2 DEF Reachable, Contained
      <3> QED BY <3>1, <3>2, <3>3 DEF InfraInv, DatabaseIsKept
    <2> QED BY <1>1, <2>1, <2>2 DEF InfraInv, InfraTyped, FormWaits, BackendsAreUp
  <1>3. CASE Reachable
    <2>1. /\ proc' = "up"
          /\ IF docker
             THEN \E missed \in Failing(Bundled \ containers) :
                      containers' = containers \cup (Bundled \ missed) /\ excused' = (excused \/ missed # {})
             ELSE UNCHANGED <<containers, excused>>
      BY <1>3 DEF Boots
    <2>2. /\ containers' \subseteq Services /\ excused' \in BOOLEAN /\ containers \subseteq containers'
          /\ ~excused' => ~excused /\ docker /\ Bundled \subseteq containers'
      <3>1. CASE ~docker
        BY <2>1, <3>1 DEF InfraInv, InfraTyped
      <3>2. CASE docker
        <4>1. PICK missed \in Failing(Bundled \ containers) :
                containers' = containers \cup (Bundled \ missed) /\ excused' = (excused \/ missed # {})
          BY <2>1, <3>2
        <4> QED BY <3>2, <4>1 DEF InfraInv, InfraTyped, Bundled
      <3> QED BY <3>1, <3>2
    <2>3. InfraTyped' /\ FormWaits' /\ (~excused' => docker')
      BY <1>1, <2>1, <2>2 DEF InfraInv, InfraTyped, FormWaits
    <2>4. BackendsAreUp'
      <3>1. ASSUME ~excused', NEW p \in Services, file[p].on, file[p].builtin PROVE p \in containers'
        BY <2>2, <3>1 DEF Bundled
      <3> QED BY <1>1, <2>1, <3>1 DEF BackendsAreUp
    <2>5. ASSUME "postgres" \in Services, ~excused' PROVE DatabaseIsKept'
      <3>1. DatabaseIsKept /\ proc = "down" /\ (Untouched' <=> Untouched)
        BY <1>1, <2>2, <2>5 DEF InfraInv, BackendsAreUp, Untouched
      <3>2. Alike(file["postgres"], running'["postgres"])
        BY <1>1 DEF Alike
      <3> QED BY <1>1, <2>1, <3>1, <3>2 DEF DatabaseIsKept
    <2> QED BY <2>3, <2>4, <2>5 DEF InfraInv
  <1> QED BY <1>2, <1>3

LEMMA InfraStep == ASSUME InfraInv, [InfraNext]_infraVars PROVE InfraInv'
  <1>1. CASE UNCHANGED infraVars
    BY <1>1 DEF infraVars, InfraInv, InfraTyped, FormWaits, BackendsAreUp, DatabaseIsKept, Untouched, Seeded, LiveBuiltin
  <1> QED BY <1>1, ApiSavesStep, OpensPageStep, StatusArrivesStep, ConfigArrivesStep, EditsStep, SavesFormStep, RestartsLaterStep,
             RequestsRestartStep, ExitsStep, DiesStep, BootsStep DEF InfraNext

LEMMA InfraTypeHolds == InfraInv => InfraTypeOK
  <1> SUFFICES ASSUME InfraInv PROVE InfraTypeOK
    OBVIOUS
  <1>1. InfraTyped /\ page \in Pages
    BY DEF InfraInv, InfraTyped
  <1> QED BY <1>1, Typed DEF InfraTyped, InfraTypeOK, Pages, Configurations

-----------------------------------------------------------------------------
(* The operations of an adapter                                             *)

Adapters == {"wwjs", "baileys"}
Effects == {"act", "send"}
Refusals == {"unsupported", "stub"}

\* Operations that answer an error with nothing.
Quiet == {"getContactById", "resolveContactPhone", "getGroupInfo", "getProfilePicture"}

\* A plan acts once, and then at most recovers; it resolves once, right before it sends; it refuses at its end.
GoodPlan(p) ==
    /\ Len(p) \in Nat \ {0}
    /\ \A i \in 1 .. Len(p) : p[i] \in Effects =>
          \A j \in 1 .. Len(p) : (j > i => p[j] = "recover") /\ (j < i => p[j] \notin Effects)
    /\ \A i \in 1 .. Len(p) : p[i] = "send" => i > 1 /\ p[i - 1] = "resolve"
    /\ \A i \in 1 .. Len(p) : p[i] = "resolve" => i > 1 /\ i < Len(p) /\ \A j \in 1 .. Len(p) : j # i => p[j] # "resolve"
    /\ \A i \in 1 .. Len(p) : p[i] \in Refusals => i = Len(p)
ActsNever(p) == \A i \in 1 .. Len(p) : p[i] \notin Effects
Refuses(p) == \E i \in 1 .. Len(p) : p[i] \in Refusals

ReadingPlan(p) == GoodPlan(p) /\ ~Refuses(p) /\ ActsNever(p)
Acting(p) == GoodPlan(p) /\ ~Refuses(p)
Refusing(p) == GoodPlan(p) /\ Refuses(p) /\ ActsNever(p)

\* A table of plans for the operations of a set, which refuses exactly those of another one.
SoundTable(f, ops, refused) ==
    /\ DOMAIN f = ops
    /\ \A op \in ops : /\ GoodPlan(f[op])
                       /\ op \in refused <=> Refuses(f[op])
                       /\ op \in refused \/ op \in Quiet => ActsNever(f[op])

LEMMA JoinedSound ==
    ASSUME NEW f, NEW g, NEW opsOfF, NEW opsOfG, NEW refused, SoundTable(f, opsOfF, refused), SoundTable(g, opsOfG, refused)
    PROVE  SoundTable(f ++ g, opsOfF \cup opsOfG, refused)
  <1>1. PICK h : h = f ++ g
    OBVIOUS
  <1>2. DOMAIN h = DOMAIN f \cup DOMAIN g /\ \A op \in DOMAIN h : h[op] = IF op \in DOMAIN f THEN f[op] ELSE g[op]
    BY <1>1 DEF ++
  <1>3. SoundTable(h, opsOfF \cup opsOfG, refused)
    BY <1>2 DEF SoundTable
  <1> QED BY <1>1, <1>3

LEMMA ReadingSound ==
    ASSUME NEW ops, NEW p, NEW refused, ReadingPlan(p), ops \cap refused = {} PROVE SoundTable(Each(ops, p), ops, refused)
  BY DEF SoundTable, Each, ReadingPlan
LEMMA ActingSound ==
    ASSUME NEW ops, NEW p, NEW refused, Acting(p), ops \cap (refused \cup Quiet) = {} PROVE SoundTable(Each(ops, p), ops, refused)
  BY DEF SoundTable, Each, Acting
LEMMA RefusingSound ==
    ASSUME NEW ops, NEW p, NEW refused, Refusing(p), ops \subseteq refused PROVE SoundTable(Each(ops, p), ops, refused)
  BY DEF SoundTable, Each, Refusing

\* The plans that act.
LEMMA ActingPlans ==
    /\ Acting(<<"ready", "resolve", "send">>)
    /\ Acting(<<"ready", "channelRefused", "media", "resolve", "send">>)
    /\ Acting(<<"ready", "read", "message", "resolve", "send">>)
    /\ Acting(<<"ready", "read", "message", "resolve", "send", "recover">>)
    /\ Acting(<<"ready", "act">>)
    /\ Acting(<<"ready", "read", "group", "act">>)
    /\ Acting(<<"ready", "read", "message", "act">>)
    /\ Acting(<<"ready", "channelRejected", "ready", "read", "read", "act">>)
    /\ Acting(<<"ready", "read", "act">>)
    /\ Acting(<<"ready", "media", "act">>)
    /\ Acting(<<"ready", "channelEmpty", "read", "act">>)
    /\ Acting(<<"ready", "channelEmpty", "resolve", "read", "act">>)
    /\ Acting(<<"ready", "stored", "act">>)
    /\ Acting(<<"ready", "last", "act">>)
    /\ Acting(<<"ready", "media", "ready", "act">>)
  <1>1. Acting(<<"ready", "resolve", "send">>)
    <2>1. PICK p : p = <<"ready", "resolve", "send">>
      OBVIOUS
    <2>2. Len(p) = 3 /\ p[1] = "ready" /\ p[2] = "resolve" /\ p[3] = "send"
      BY <2>1
    <2>3. \A i \in 1 .. Len(p) : i = 1 \/ i = 2 \/ i = 3
      BY <2>2
    <2> QED BY <2>1, <2>2, <2>3 DEF Acting, GoodPlan, ActsNever, Refuses, Effects, Refusals
  <1>2. Acting(<<"ready", "channelRefused", "media", "resolve", "send">>)
    <2>1. PICK p : p = <<"ready", "channelRefused", "media", "resolve", "send">>
      OBVIOUS
    <2>2. Len(p) = 5 /\ p[1] = "ready" /\ p[2] = "channelRefused" /\ p[3] = "media" /\ p[4] = "resolve" /\ p[5] = "send"
      BY <2>1
    <2>3. \A i \in 1 .. Len(p) : i = 1 \/ i = 2 \/ i = 3 \/ i = 4 \/ i = 5
      BY <2>2
    <2> QED BY <2>1, <2>2, <2>3 DEF Acting, GoodPlan, ActsNever, Refuses, Effects, Refusals
  <1>3. Acting(<<"ready", "read", "message", "resolve", "send">>)
    <2>1. PICK p : p = <<"ready", "read", "message", "resolve", "send">>
      OBVIOUS
    <2>2. Len(p) = 5 /\ p[1] = "ready" /\ p[2] = "read" /\ p[3] = "message" /\ p[4] = "resolve" /\ p[5] = "send"
      BY <2>1
    <2>3. \A i \in 1 .. Len(p) : i = 1 \/ i = 2 \/ i = 3 \/ i = 4 \/ i = 5
      BY <2>2
    <2> QED BY <2>1, <2>2, <2>3 DEF Acting, GoodPlan, ActsNever, Refuses, Effects, Refusals
  <1>4. Acting(<<"ready", "read", "message", "resolve", "send", "recover">>)
    <2>1. PICK p : p = <<"ready", "read", "message", "resolve", "send", "recover">>
      OBVIOUS
    <2>2. Len(p) = 6 /\ p[1] = "ready" /\ p[2] = "read" /\ p[3] = "message" /\ p[4] = "resolve" /\ p[5] = "send" /\ p[6] = "recover"
      BY <2>1
    <2>3. \A i \in 1 .. Len(p) : i = 1 \/ i = 2 \/ i = 3 \/ i = 4 \/ i = 5 \/ i = 6
      BY <2>2
    <2> QED BY <2>1, <2>2, <2>3 DEF Acting, GoodPlan, ActsNever, Refuses, Effects, Refusals
  <1>5. Acting(<<"ready", "act">>)
    <2>1. PICK p : p = <<"ready", "act">>
      OBVIOUS
    <2>2. Len(p) = 2 /\ p[1] = "ready" /\ p[2] = "act"
      BY <2>1
    <2>3. \A i \in 1 .. Len(p) : i = 1 \/ i = 2
      BY <2>2
    <2> QED BY <2>1, <2>2, <2>3 DEF Acting, GoodPlan, ActsNever, Refuses, Effects, Refusals
  <1>6. Acting(<<"ready", "read", "group", "act">>)
    <2>1. PICK p : p = <<"ready", "read", "group", "act">>
      OBVIOUS
    <2>2. Len(p) = 4 /\ p[1] = "ready" /\ p[2] = "read" /\ p[3] = "group" /\ p[4] = "act"
      BY <2>1
    <2>3. \A i \in 1 .. Len(p) : i = 1 \/ i = 2 \/ i = 3 \/ i = 4
      BY <2>2
    <2> QED BY <2>1, <2>2, <2>3 DEF Acting, GoodPlan, ActsNever, Refuses, Effects, Refusals
  <1>7. Acting(<<"ready", "read", "message", "act">>)
    <2>1. PICK p : p = <<"ready", "read", "message", "act">>
      OBVIOUS
    <2>2. Len(p) = 4 /\ p[1] = "ready" /\ p[2] = "read" /\ p[3] = "message" /\ p[4] = "act"
      BY <2>1
    <2>3. \A i \in 1 .. Len(p) : i = 1 \/ i = 2 \/ i = 3 \/ i = 4
      BY <2>2
    <2> QED BY <2>1, <2>2, <2>3 DEF Acting, GoodPlan, ActsNever, Refuses, Effects, Refusals
  <1>8. Acting(<<"ready", "channelRejected", "ready", "read", "read", "act">>)
    <2>1. PICK p : p = <<"ready", "channelRejected", "ready", "read", "read", "act">>
      OBVIOUS
    <2>2. Len(p) = 6 /\ p[1] = "ready" /\ p[2] = "channelRejected" /\ p[3] = "ready" /\ p[4] = "read" /\ p[5] = "read" /\ p[6] = "act"
      BY <2>1
    <2>3. \A i \in 1 .. Len(p) : i = 1 \/ i = 2 \/ i = 3 \/ i = 4 \/ i = 5 \/ i = 6
      BY <2>2
    <2> QED BY <2>1, <2>2, <2>3 DEF Acting, GoodPlan, ActsNever, Refuses, Effects, Refusals
  <1>9. Acting(<<"ready", "read", "act">>)
    <2>1. PICK p : p = <<"ready", "read", "act">>
      OBVIOUS
    <2>2. Len(p) = 3 /\ p[1] = "ready" /\ p[2] = "read" /\ p[3] = "act"
      BY <2>1
    <2>3. \A i \in 1 .. Len(p) : i = 1 \/ i = 2 \/ i = 3
      BY <2>2
    <2> QED BY <2>1, <2>2, <2>3 DEF Acting, GoodPlan, ActsNever, Refuses, Effects, Refusals
  <1>10. Acting(<<"ready", "media", "act">>)
    <2>1. PICK p : p = <<"ready", "media", "act">>
      OBVIOUS
    <2>2. Len(p) = 3 /\ p[1] = "ready" /\ p[2] = "media" /\ p[3] = "act"
      BY <2>1
    <2>3. \A i \in 1 .. Len(p) : i = 1 \/ i = 2 \/ i = 3
      BY <2>2
    <2> QED BY <2>1, <2>2, <2>3 DEF Acting, GoodPlan, ActsNever, Refuses, Effects, Refusals
  <1>11. Acting(<<"ready", "channelEmpty", "read", "act">>)
    <2>1. PICK p : p = <<"ready", "channelEmpty", "read", "act">>
      OBVIOUS
    <2>2. Len(p) = 4 /\ p[1] = "ready" /\ p[2] = "channelEmpty" /\ p[3] = "read" /\ p[4] = "act"
      BY <2>1
    <2>3. \A i \in 1 .. Len(p) : i = 1 \/ i = 2 \/ i = 3 \/ i = 4
      BY <2>2
    <2> QED BY <2>1, <2>2, <2>3 DEF Acting, GoodPlan, ActsNever, Refuses, Effects, Refusals
  <1>12. Acting(<<"ready", "channelEmpty", "resolve", "read", "act">>)
    <2>1. PICK p : p = <<"ready", "channelEmpty", "resolve", "read", "act">>
      OBVIOUS
    <2>2. Len(p) = 5 /\ p[1] = "ready" /\ p[2] = "channelEmpty" /\ p[3] = "resolve" /\ p[4] = "read" /\ p[5] = "act"
      BY <2>1
    <2>3. \A i \in 1 .. Len(p) : i = 1 \/ i = 2 \/ i = 3 \/ i = 4 \/ i = 5
      BY <2>2
    <2> QED BY <2>1, <2>2, <2>3 DEF Acting, GoodPlan, ActsNever, Refuses, Effects, Refusals
  <1>13. Acting(<<"ready", "stored", "act">>)
    <2>1. PICK p : p = <<"ready", "stored", "act">>
      OBVIOUS
    <2>2. Len(p) = 3 /\ p[1] = "ready" /\ p[2] = "stored" /\ p[3] = "act"
      BY <2>1
    <2>3. \A i \in 1 .. Len(p) : i = 1 \/ i = 2 \/ i = 3
      BY <2>2
    <2> QED BY <2>1, <2>2, <2>3 DEF Acting, GoodPlan, ActsNever, Refuses, Effects, Refusals
  <1>14. Acting(<<"ready", "last", "act">>)
    <2>1. PICK p : p = <<"ready", "last", "act">>
      OBVIOUS
    <2>2. Len(p) = 3 /\ p[1] = "ready" /\ p[2] = "last" /\ p[3] = "act"
      BY <2>1
    <2>3. \A i \in 1 .. Len(p) : i = 1 \/ i = 2 \/ i = 3
      BY <2>2
    <2> QED BY <2>1, <2>2, <2>3 DEF Acting, GoodPlan, ActsNever, Refuses, Effects, Refusals
  <1>15. Acting(<<"ready", "media", "ready", "act">>)
    <2>1. PICK p : p = <<"ready", "media", "ready", "act">>
      OBVIOUS
    <2>2. Len(p) = 4 /\ p[1] = "ready" /\ p[2] = "media" /\ p[3] = "ready" /\ p[4] = "act"
      BY <2>1
    <2>3. \A i \in 1 .. Len(p) : i = 1 \/ i = 2 \/ i = 3 \/ i = 4
      BY <2>2
    <2> QED BY <2>1, <2>2, <2>3 DEF Acting, GoodPlan, ActsNever, Refuses, Effects, Refusals
  <1> QED BY <1>1, <1>2, <1>3, <1>4, <1>5, <1>6, <1>7, <1>8, <1>9, <1>10, <1>11, <1>12, <1>13, <1>14, <1>15

\* The plans that only read.
LEMMA ReadingPlans ==
    /\ ReadingPlan(<<"ready", "read">>)
    /\ ReadingPlan(<<"ready", "ready", "page">>)
    /\ ReadingPlan(<<"ready", "read", "message", "read">>)
    /\ ReadingPlan(<<"ready", "channelEmpty", "read", "read">>)
    /\ ReadingPlan(<<"ready", "ready", "read">>)
    /\ ReadingPlan(<<"ready", "page">>)
    /\ ReadingPlan(<<"ready", "read", "group", "read">>)
    /\ ReadingPlan(<<"ready">>)
  <1>1. ReadingPlan(<<"ready", "read">>)
    <2>1. PICK p : p = <<"ready", "read">>
      OBVIOUS
    <2>2. Len(p) = 2 /\ p[1] = "ready" /\ p[2] = "read"
      BY <2>1
    <2>3. \A i \in 1 .. Len(p) : i = 1 \/ i = 2
      BY <2>2
    <2> QED BY <2>1, <2>2, <2>3 DEF ReadingPlan, GoodPlan, ActsNever, Refuses, Effects, Refusals
  <1>2. ReadingPlan(<<"ready", "ready", "page">>)
    <2>1. PICK p : p = <<"ready", "ready", "page">>
      OBVIOUS
    <2>2. Len(p) = 3 /\ p[1] = "ready" /\ p[2] = "ready" /\ p[3] = "page"
      BY <2>1
    <2>3. \A i \in 1 .. Len(p) : i = 1 \/ i = 2 \/ i = 3
      BY <2>2
    <2> QED BY <2>1, <2>2, <2>3 DEF ReadingPlan, GoodPlan, ActsNever, Refuses, Effects, Refusals
  <1>3. ReadingPlan(<<"ready", "read", "message", "read">>)
    <2>1. PICK p : p = <<"ready", "read", "message", "read">>
      OBVIOUS
    <2>2. Len(p) = 4 /\ p[1] = "ready" /\ p[2] = "read" /\ p[3] = "message" /\ p[4] = "read"
      BY <2>1
    <2>3. \A i \in 1 .. Len(p) : i = 1 \/ i = 2 \/ i = 3 \/ i = 4
      BY <2>2
    <2> QED BY <2>1, <2>2, <2>3 DEF ReadingPlan, GoodPlan, ActsNever, Refuses, Effects, Refusals
  <1>4. ReadingPlan(<<"ready", "channelEmpty", "read", "read">>)
    <2>1. PICK p : p = <<"ready", "channelEmpty", "read", "read">>
      OBVIOUS
    <2>2. Len(p) = 4 /\ p[1] = "ready" /\ p[2] = "channelEmpty" /\ p[3] = "read" /\ p[4] = "read"
      BY <2>1
    <2>3. \A i \in 1 .. Len(p) : i = 1 \/ i = 2 \/ i = 3 \/ i = 4
      BY <2>2
    <2> QED BY <2>1, <2>2, <2>3 DEF ReadingPlan, GoodPlan, ActsNever, Refuses, Effects, Refusals
  <1>5. ReadingPlan(<<"ready", "ready", "read">>)
    <2>1. PICK p : p = <<"ready", "ready", "read">>
      OBVIOUS
    <2>2. Len(p) = 3 /\ p[1] = "ready" /\ p[2] = "ready" /\ p[3] = "read"
      BY <2>1
    <2>3. \A i \in 1 .. Len(p) : i = 1 \/ i = 2 \/ i = 3
      BY <2>2
    <2> QED BY <2>1, <2>2, <2>3 DEF ReadingPlan, GoodPlan, ActsNever, Refuses, Effects, Refusals
  <1>6. ReadingPlan(<<"ready", "page">>)
    <2>1. PICK p : p = <<"ready", "page">>
      OBVIOUS
    <2>2. Len(p) = 2 /\ p[1] = "ready" /\ p[2] = "page"
      BY <2>1
    <2>3. \A i \in 1 .. Len(p) : i = 1 \/ i = 2
      BY <2>2
    <2> QED BY <2>1, <2>2, <2>3 DEF ReadingPlan, GoodPlan, ActsNever, Refuses, Effects, Refusals
  <1>7. ReadingPlan(<<"ready", "read", "group", "read">>)
    <2>1. PICK p : p = <<"ready", "read", "group", "read">>
      OBVIOUS
    <2>2. Len(p) = 4 /\ p[1] = "ready" /\ p[2] = "read" /\ p[3] = "group" /\ p[4] = "read"
      BY <2>1
    <2>3. \A i \in 1 .. Len(p) : i = 1 \/ i = 2 \/ i = 3 \/ i = 4
      BY <2>2
    <2> QED BY <2>1, <2>2, <2>3 DEF ReadingPlan, GoodPlan, ActsNever, Refuses, Effects, Refusals
  <1>8. ReadingPlan(<<"ready">>)
    <2>1. PICK p : p = <<"ready">>
      OBVIOUS
    <2>2. Len(p) = 1 /\ p[1] = "ready"
      BY <2>1
    <2>3. \A i \in 1 .. Len(p) : i = 1
      BY <2>2
    <2> QED BY <2>1, <2>2, <2>3 DEF ReadingPlan, GoodPlan, ActsNever, Refuses, Effects, Refusals
  <1> QED BY <1>1, <1>2, <1>3, <1>4, <1>5, <1>6, <1>7, <1>8

\* The plans that refuse.
LEMMA RefusingPlans ==
    /\ Refusing(<<"ready", "stub">>)
    /\ Refusing(<<"ready", "unsupported">>)
    /\ Refusing(<<"unsupported">>)
  <1>1. Refusing(<<"ready", "stub">>)
    <2>1. PICK p : p = <<"ready", "stub">>
      OBVIOUS
    <2>2. Len(p) = 2 /\ p[1] = "ready" /\ p[2] = "stub"
      BY <2>1
    <2>3. \A i \in 1 .. Len(p) : i = 1 \/ i = 2
      BY <2>2
    <2> QED BY <2>1, <2>2, <2>3 DEF Refusing, GoodPlan, ActsNever, Refuses, Effects, Refusals
  <1>2. Refusing(<<"ready", "unsupported">>)
    <2>1. PICK p : p = <<"ready", "unsupported">>
      OBVIOUS
    <2>2. Len(p) = 2 /\ p[1] = "ready" /\ p[2] = "unsupported"
      BY <2>1
    <2>3. \A i \in 1 .. Len(p) : i = 1 \/ i = 2
      BY <2>2
    <2> QED BY <2>1, <2>2, <2>3 DEF Refusing, GoodPlan, ActsNever, Refuses, Effects, Refusals
  <1>3. Refusing(<<"unsupported">>)
    <2>1. PICK p : p = <<"unsupported">>
      OBVIOUS
    <2>2. Len(p) = 1 /\ p[1] = "unsupported"
      BY <2>1
    <2>3. \A i \in 1 .. Len(p) : i = 1
      BY <2>2
    <2> QED BY <2>1, <2>2, <2>3 DEF Refusing, GoodPlan, ActsNever, Refuses, Effects, Refusals
  <1> QED BY <1>1, <1>2, <1>3

\* The plans of an adapter refuse what the matrix calls not available, and both have the same operations.
LEMMA PlansAreSound == \A a \in Adapters : SoundTable(Plans[a], Operations, NotAvailable[a])
  <1> DEFINE wRefused == NotAvailable.wwjs
             w1 == {"sendTextMessage"} \cup MediaSends
             w2 == {"getContacts", "getContactById", "getNumberId", "checkNumberExists", "resolveContactPhone"} \cup {"getGroups"}
             w3 == {"sendLocationMessage", "sendContactMessage", "sendPollMessage"} \cup {"sendStickerMessage"} \cup {"replyToMessage"} \cup {"forwardMessage"}
             w4 == {"getGroupInfo"} \cup {"createGroup"} \cup GroupWrites
             w5 == {"reactToMessage"} \cup {"getMessageReactions"} \cup {"getLabels", "getLabelById"} \cup {"getChatLabels"} \cup {"addLabelToChat", "removeLabelFromChat"}
             w6 == {"getSubscribedChannels"} \cup {"getChannelById"} \cup {"subscribeToChannel", "unsubscribeFromChannel"} \cup {"getChannelMessages"}
             w7 == {"getChatHistory"} \cup {"deleteMessage"} \cup {"getProfilePicture"} \cup {"blockContact", "unblockContact"} \cup {"getGroupInviteCode"} \cup {"revokeGroupInviteCode"}
             w8 == {"getContactStatuses", "getContactStatus"} \cup {"postTextStatus", "deleteStatus"} \cup {"postImageStatus", "postVideoStatus"}
             w9 == Catalogs \cup {"sendProduct", "sendCatalog"}
             w10 == {"getChats"} \cup {"sendSeen"} \cup {"markUnread", "deleteChat"} \cup {"sendChatState"}
             bRefused == NotAvailable.baileys
             b1 == {"sendTextMessage", "sendLocationMessage", "sendContactMessage", "sendPollMessage", "sendChatState"} \cup (MediaSends \cup {"sendStickerMessage"}) \cup {"getNumberId", "checkNumberExists"}
             b2 == {"replyToMessage", "forwardMessage", "reactToMessage", "deleteMessage"}
             b3 == {"getGroups", "getGroupInfo", "getGroupInviteCode"} \cup (GroupWrites \cup {"createGroup", "revokeGroupInviteCode"})
             b4 == {"getProfilePicture"} \cup {"blockContact", "unblockContact"} \cup {"getContacts", "getContactById", "resolveContactPhone", "getChats"} \cup {"sendSeen", "markUnread", "deleteChat"}
             b5 == {"getMessageReactions", "getChatHistory", "getLabels", "getLabelById", "getChatLabels", "getSubscribedChannels", "getChannelMessages"} \cup {"addLabelToChat", "removeLabelFromChat", "unsubscribeFromChannel"} \cup {"getChannelById"} \cup {"subscribeToChannel"}
             b6 == ({"getContactStatuses", "getContactStatus", "sendProduct", "sendCatalog"} \cup Catalogs) \cup {"postTextStatus", "deleteStatus"} \cup {"postImageStatus", "postVideoStatus"}
  <1>1. SoundTable(WwjsSends, w1, wRefused)
    <2>1. SoundTable(Each({"sendTextMessage"}, <<"ready", "resolve", "send">>), {"sendTextMessage"}, wRefused)
      <3>1. {"sendTextMessage"} \cap (wRefused \cup Quiet) = {}
        BY DEF NotAvailable, Quiet, Catalogs
      <3> QED BY <3>1, ActingPlans, ActingSound
    <2>2. SoundTable(Each(MediaSends, <<"ready", "channelRefused", "media", "resolve", "send">>), MediaSends, wRefused)
      <3>1. MediaSends \cap (wRefused \cup Quiet) = {}
        BY DEF NotAvailable, Quiet, MediaSends, Catalogs
      <3> QED BY <3>1, ActingPlans, ActingSound
    <2> QED BY <2>1, <2>2, JoinedSound DEF WwjsSends
  <1>2. SoundTable(WwjsContacts, w2, wRefused)
    <2>1. SoundTable(Each({"getContacts", "getContactById", "getNumberId", "checkNumberExists", "resolveContactPhone"}, <<"ready", "read">>), {"getContacts", "getContactById", "getNumberId", "checkNumberExists", "resolveContactPhone"}, wRefused)
      <3>1. {"getContacts", "getContactById", "getNumberId", "checkNumberExists", "resolveContactPhone"} \cap wRefused = {}
        BY DEF NotAvailable, Catalogs
      <3> QED BY <3>1, ReadingPlans, ReadingSound
    <2>2. SoundTable(Each({"getGroups"}, <<"ready", "ready", "page">>), {"getGroups"}, wRefused)
      <3>1. {"getGroups"} \cap wRefused = {}
        BY DEF NotAvailable, Catalogs
      <3> QED BY <3>1, ReadingPlans, ReadingSound
    <2> QED BY <2>1, <2>2, JoinedSound DEF WwjsContacts
  <1>3. SoundTable(WwjsExtended, w3, wRefused)
    <2>1. SoundTable(Each({"sendLocationMessage", "sendContactMessage", "sendPollMessage"}, <<"ready", "resolve", "send">>), {"sendLocationMessage", "sendContactMessage", "sendPollMessage"}, wRefused)
      <3>1. {"sendLocationMessage", "sendContactMessage", "sendPollMessage"} \cap (wRefused \cup Quiet) = {}
        BY DEF NotAvailable, Quiet, Catalogs
      <3> QED BY <3>1, ActingPlans, ActingSound
    <2>2. SoundTable(Each({"sendStickerMessage"}, <<"ready", "channelRefused", "media", "resolve", "send">>), {"sendStickerMessage"}, wRefused)
      <3>1. {"sendStickerMessage"} \cap (wRefused \cup Quiet) = {}
        BY DEF NotAvailable, Quiet, Catalogs
      <3> QED BY <3>1, ActingPlans, ActingSound
    <2>3. SoundTable(Each({"replyToMessage"}, <<"ready", "read", "message", "resolve", "send">>), {"replyToMessage"}, wRefused)
      <3>1. {"replyToMessage"} \cap (wRefused \cup Quiet) = {}
        BY DEF NotAvailable, Quiet, Catalogs
      <3> QED BY <3>1, ActingPlans, ActingSound
    <2>4. SoundTable(Each({"forwardMessage"}, <<"ready", "read", "message", "resolve", "send", "recover">>), {"forwardMessage"}, wRefused)
      <3>1. {"forwardMessage"} \cap (wRefused \cup Quiet) = {}
        BY DEF NotAvailable, Quiet, Catalogs
      <3> QED BY <3>1, ActingPlans, ActingSound
    <2> QED BY <2>1, <2>2, <2>3, <2>4, JoinedSound DEF WwjsExtended
  <1>4. SoundTable(WwjsGroups, w4, wRefused)
    <2>1. SoundTable(Each({"getGroupInfo"}, <<"ready", "read">>), {"getGroupInfo"}, wRefused)
      <3>1. {"getGroupInfo"} \cap wRefused = {}
        BY DEF NotAvailable, Catalogs
      <3> QED BY <3>1, ReadingPlans, ReadingSound
    <2>2. SoundTable(Each({"createGroup"}, <<"ready", "act">>), {"createGroup"}, wRefused)
      <3>1. {"createGroup"} \cap (wRefused \cup Quiet) = {}
        BY DEF NotAvailable, Quiet, Catalogs
      <3> QED BY <3>1, ActingPlans, ActingSound
    <2>3. SoundTable(Each(GroupWrites, <<"ready", "read", "group", "act">>), GroupWrites, wRefused)
      <3>1. GroupWrites \cap (wRefused \cup Quiet) = {}
        BY DEF NotAvailable, Quiet, GroupWrites, Catalogs
      <3> QED BY <3>1, ActingPlans, ActingSound
    <2> QED BY <2>1, <2>2, <2>3, JoinedSound DEF WwjsGroups
  <1>5. SoundTable(WwjsLabels, w5, wRefused)
    <2>1. SoundTable(Each({"reactToMessage"}, <<"ready", "read", "message", "act">>), {"reactToMessage"}, wRefused)
      <3>1. {"reactToMessage"} \cap (wRefused \cup Quiet) = {}
        BY DEF NotAvailable, Quiet, Catalogs
      <3> QED BY <3>1, ActingPlans, ActingSound
    <2>2. SoundTable(Each({"getMessageReactions"}, <<"ready", "read", "message", "read">>), {"getMessageReactions"}, wRefused)
      <3>1. {"getMessageReactions"} \cap wRefused = {}
        BY DEF NotAvailable, Catalogs
      <3> QED BY <3>1, ReadingPlans, ReadingSound
    <2>3. SoundTable(Each({"getLabels", "getLabelById"}, <<"ready", "read">>), {"getLabels", "getLabelById"}, wRefused)
      <3>1. {"getLabels", "getLabelById"} \cap wRefused = {}
        BY DEF NotAvailable, Catalogs
      <3> QED BY <3>1, ReadingPlans, ReadingSound
    <2>4. SoundTable(Each({"getChatLabels"}, <<"ready", "channelEmpty", "read", "read">>), {"getChatLabels"}, wRefused)
      <3>1. {"getChatLabels"} \cap wRefused = {}
        BY DEF NotAvailable, Catalogs
      <3> QED BY <3>1, ReadingPlans, ReadingSound
    <2>5. SoundTable(Each({"addLabelToChat", "removeLabelFromChat"}, <<"ready", "channelRejected", "ready", "read", "read", "act">>), {"addLabelToChat", "removeLabelFromChat"}, wRefused)
      <3>1. {"addLabelToChat", "removeLabelFromChat"} \cap (wRefused \cup Quiet) = {}
        BY DEF NotAvailable, Quiet, Catalogs
      <3> QED BY <3>1, ActingPlans, ActingSound
    <2> QED BY <2>1, <2>2, <2>3, <2>4, <2>5, JoinedSound DEF WwjsLabels
  <1>6. SoundTable(WwjsChannels, w6, wRefused)
    <2>1. SoundTable(Each({"getSubscribedChannels"}, <<"ready", "read">>), {"getSubscribedChannels"}, wRefused)
      <3>1. {"getSubscribedChannels"} \cap wRefused = {}
        BY DEF NotAvailable, Catalogs
      <3> QED BY <3>1, ReadingPlans, ReadingSound
    <2>2. SoundTable(Each({"getChannelById"}, <<"ready", "ready", "read">>), {"getChannelById"}, wRefused)
      <3>1. {"getChannelById"} \cap wRefused = {}
        BY DEF NotAvailable, Catalogs
      <3> QED BY <3>1, ReadingPlans, ReadingSound
    <2>3. SoundTable(Each({"subscribeToChannel", "unsubscribeFromChannel"}, <<"ready", "act">>), {"subscribeToChannel", "unsubscribeFromChannel"}, wRefused)
      <3>1. {"subscribeToChannel", "unsubscribeFromChannel"} \cap (wRefused \cup Quiet) = {}
        BY DEF NotAvailable, Quiet, Catalogs
      <3> QED BY <3>1, ActingPlans, ActingSound
    <2>4. SoundTable(Each({"getChannelMessages"}, <<"ready", "read", "message", "read">>), {"getChannelMessages"}, wRefused)
      <3>1. {"getChannelMessages"} \cap wRefused = {}
        BY DEF NotAvailable, Catalogs
      <3> QED BY <3>1, ReadingPlans, ReadingSound
    <2> QED BY <2>1, <2>2, <2>3, <2>4, JoinedSound DEF WwjsChannels
  <1>7. SoundTable(WwjsHistory, w7, wRefused)
    <2>1. SoundTable(Each({"getChatHistory"}, <<"ready", "page">>), {"getChatHistory"}, wRefused)
      <3>1. {"getChatHistory"} \cap wRefused = {}
        BY DEF NotAvailable, Catalogs
      <3> QED BY <3>1, ReadingPlans, ReadingSound
    <2>2. SoundTable(Each({"deleteMessage"}, <<"ready", "read", "message", "act">>), {"deleteMessage"}, wRefused)
      <3>1. {"deleteMessage"} \cap (wRefused \cup Quiet) = {}
        BY DEF NotAvailable, Quiet, Catalogs
      <3> QED BY <3>1, ActingPlans, ActingSound
    <2>3. SoundTable(Each({"getProfilePicture"}, <<"ready", "read">>), {"getProfilePicture"}, wRefused)
      <3>1. {"getProfilePicture"} \cap wRefused = {}
        BY DEF NotAvailable, Catalogs
      <3> QED BY <3>1, ReadingPlans, ReadingSound
    <2>4. SoundTable(Each({"blockContact", "unblockContact"}, <<"ready", "read", "act">>), {"blockContact", "unblockContact"}, wRefused)
      <3>1. {"blockContact", "unblockContact"} \cap (wRefused \cup Quiet) = {}
        BY DEF NotAvailable, Quiet, Catalogs
      <3> QED BY <3>1, ActingPlans, ActingSound
    <2>5. SoundTable(Each({"getGroupInviteCode"}, <<"ready", "read", "group", "read">>), {"getGroupInviteCode"}, wRefused)
      <3>1. {"getGroupInviteCode"} \cap wRefused = {}
        BY DEF NotAvailable, Catalogs
      <3> QED BY <3>1, ReadingPlans, ReadingSound
    <2>6. SoundTable(Each({"revokeGroupInviteCode"}, <<"ready", "read", "group", "act">>), {"revokeGroupInviteCode"}, wRefused)
      <3>1. {"revokeGroupInviteCode"} \cap (wRefused \cup Quiet) = {}
        BY DEF NotAvailable, Quiet, Catalogs
      <3> QED BY <3>1, ActingPlans, ActingSound
    <2> QED BY <2>1, <2>2, <2>3, <2>4, <2>5, <2>6, JoinedSound DEF WwjsHistory
  <1>8. SoundTable(WwjsStatuses, w8, wRefused)
    <2>1. SoundTable(Each({"getContactStatuses", "getContactStatus"}, <<"ready", "read">>), {"getContactStatuses", "getContactStatus"}, wRefused)
      <3>1. {"getContactStatuses", "getContactStatus"} \cap wRefused = {}
        BY DEF NotAvailable, Catalogs
      <3> QED BY <3>1, ReadingPlans, ReadingSound
    <2>2. SoundTable(Each({"postTextStatus", "deleteStatus"}, <<"ready", "act">>), {"postTextStatus", "deleteStatus"}, wRefused)
      <3>1. {"postTextStatus", "deleteStatus"} \cap (wRefused \cup Quiet) = {}
        BY DEF NotAvailable, Quiet, Catalogs
      <3> QED BY <3>1, ActingPlans, ActingSound
    <2>3. SoundTable(Each({"postImageStatus", "postVideoStatus"}, <<"ready", "media", "act">>), {"postImageStatus", "postVideoStatus"}, wRefused)
      <3>1. {"postImageStatus", "postVideoStatus"} \cap (wRefused \cup Quiet) = {}
        BY DEF NotAvailable, Quiet, Catalogs
      <3> QED BY <3>1, ActingPlans, ActingSound
    <2> QED BY <2>1, <2>2, <2>3, JoinedSound DEF WwjsStatuses
  <1>9. SoundTable(WwjsCatalog, w9, wRefused)
    <2>1. SoundTable(Each(Catalogs, <<"ready", "stub">>), Catalogs, wRefused)
      <3>1. Catalogs \subseteq wRefused
        BY DEF NotAvailable, Catalogs
      <3> QED BY <3>1, RefusingPlans, RefusingSound
    <2>2. SoundTable(Each({"sendProduct", "sendCatalog"}, <<"ready", "unsupported">>), {"sendProduct", "sendCatalog"}, wRefused)
      <3>1. {"sendProduct", "sendCatalog"} \subseteq wRefused
        BY DEF NotAvailable, Catalogs
      <3> QED BY <3>1, RefusingPlans, RefusingSound
    <2> QED BY <2>1, <2>2, JoinedSound DEF WwjsCatalog
  <1>10. SoundTable(WwjsChats, w10, wRefused)
    <2>1. SoundTable(Each({"getChats"}, <<"ready", "page">>), {"getChats"}, wRefused)
      <3>1. {"getChats"} \cap wRefused = {}
        BY DEF NotAvailable, Catalogs
      <3> QED BY <3>1, ReadingPlans, ReadingSound
    <2>2. SoundTable(Each({"sendSeen"}, <<"ready", "read", "act">>), {"sendSeen"}, wRefused)
      <3>1. {"sendSeen"} \cap (wRefused \cup Quiet) = {}
        BY DEF NotAvailable, Quiet, Catalogs
      <3> QED BY <3>1, ActingPlans, ActingSound
    <2>3. SoundTable(Each({"markUnread", "deleteChat"}, <<"ready", "channelEmpty", "read", "act">>), {"markUnread", "deleteChat"}, wRefused)
      <3>1. {"markUnread", "deleteChat"} \cap (wRefused \cup Quiet) = {}
        BY DEF NotAvailable, Quiet, Catalogs
      <3> QED BY <3>1, ActingPlans, ActingSound
    <2>4. SoundTable(Each({"sendChatState"}, <<"ready", "channelEmpty", "resolve", "read", "act">>), {"sendChatState"}, wRefused)
      <3>1. {"sendChatState"} \cap (wRefused \cup Quiet) = {}
        BY DEF NotAvailable, Quiet, Catalogs
      <3> QED BY <3>1, ActingPlans, ActingSound
    <2> QED BY <2>1, <2>2, <2>3, <2>4, JoinedSound DEF WwjsChats
  <1>11. SoundTable(BaileysSends, b1, bRefused)
    <2>1. SoundTable(Each({"sendTextMessage", "sendLocationMessage", "sendContactMessage", "sendPollMessage", "sendChatState"}, <<"ready", "act">>), {"sendTextMessage", "sendLocationMessage", "sendContactMessage", "sendPollMessage", "sendChatState"}, bRefused)
      <3>1. {"sendTextMessage", "sendLocationMessage", "sendContactMessage", "sendPollMessage", "sendChatState"} \cap (bRefused \cup Quiet) = {}
        BY DEF NotAvailable, Quiet, Catalogs
      <3> QED BY <3>1, ActingPlans, ActingSound
    <2>2. SoundTable(Each(MediaSends \cup {"sendStickerMessage"}, <<"ready", "media", "act">>), MediaSends \cup {"sendStickerMessage"}, bRefused)
      <3>1. (MediaSends \cup {"sendStickerMessage"}) \cap (bRefused \cup Quiet) = {}
        BY DEF NotAvailable, Quiet, MediaSends, Catalogs
      <3> QED BY <3>1, ActingPlans, ActingSound
    <2>3. SoundTable(Each({"getNumberId", "checkNumberExists"}, <<"ready", "read">>), {"getNumberId", "checkNumberExists"}, bRefused)
      <3>1. {"getNumberId", "checkNumberExists"} \cap bRefused = {}
        BY DEF NotAvailable, Catalogs
      <3> QED BY <3>1, ReadingPlans, ReadingSound
    <2> QED BY <2>1, <2>2, <2>3, JoinedSound DEF BaileysSends
  <1>12. SoundTable(BaileysReplies, b2, bRefused)
    <2>1. SoundTable(Each({"replyToMessage", "forwardMessage", "reactToMessage", "deleteMessage"}, <<"ready", "stored", "act">>), {"replyToMessage", "forwardMessage", "reactToMessage", "deleteMessage"}, bRefused)
      <3>1. {"replyToMessage", "forwardMessage", "reactToMessage", "deleteMessage"} \cap (bRefused \cup Quiet) = {}
        BY DEF NotAvailable, Quiet, Catalogs
      <3> QED BY <3>1, ActingPlans, ActingSound
    <2> QED BY <2>1 DEF BaileysReplies
  <1>13. SoundTable(BaileysGroups, b3, bRefused)
    <2>1. SoundTable(Each({"getGroups", "getGroupInfo", "getGroupInviteCode"}, <<"ready", "read">>), {"getGroups", "getGroupInfo", "getGroupInviteCode"}, bRefused)
      <3>1. {"getGroups", "getGroupInfo", "getGroupInviteCode"} \cap bRefused = {}
        BY DEF NotAvailable, Catalogs
      <3> QED BY <3>1, ReadingPlans, ReadingSound
    <2>2. SoundTable(Each(GroupWrites \cup {"createGroup", "revokeGroupInviteCode"}, <<"ready", "act">>), GroupWrites \cup {"createGroup", "revokeGroupInviteCode"}, bRefused)
      <3>1. (GroupWrites \cup {"createGroup", "revokeGroupInviteCode"}) \cap (bRefused \cup Quiet) = {}
        BY DEF NotAvailable, Quiet, GroupWrites, Catalogs
      <3> QED BY <3>1, ActingPlans, ActingSound
    <2> QED BY <2>1, <2>2, JoinedSound DEF BaileysGroups
  <1>14. SoundTable(BaileysContacts, b4, bRefused)
    <2>1. SoundTable(Each({"getProfilePicture"}, <<"ready", "read">>), {"getProfilePicture"}, bRefused)
      <3>1. {"getProfilePicture"} \cap bRefused = {}
        BY DEF NotAvailable, Catalogs
      <3> QED BY <3>1, ReadingPlans, ReadingSound
    <2>2. SoundTable(Each({"blockContact", "unblockContact"}, <<"ready", "act">>), {"blockContact", "unblockContact"}, bRefused)
      <3>1. {"blockContact", "unblockContact"} \cap (bRefused \cup Quiet) = {}
        BY DEF NotAvailable, Quiet, Catalogs
      <3> QED BY <3>1, ActingPlans, ActingSound
    <2>3. SoundTable(Each({"getContacts", "getContactById", "resolveContactPhone", "getChats"}, <<"ready">>), {"getContacts", "getContactById", "resolveContactPhone", "getChats"}, bRefused)
      <3>1. {"getContacts", "getContactById", "resolveContactPhone", "getChats"} \cap bRefused = {}
        BY DEF NotAvailable, Catalogs
      <3> QED BY <3>1, ReadingPlans, ReadingSound
    <2>4. SoundTable(Each({"sendSeen", "markUnread", "deleteChat"}, <<"ready", "last", "act">>), {"sendSeen", "markUnread", "deleteChat"}, bRefused)
      <3>1. {"sendSeen", "markUnread", "deleteChat"} \cap (bRefused \cup Quiet) = {}
        BY DEF NotAvailable, Quiet, Catalogs
      <3> QED BY <3>1, ActingPlans, ActingSound
    <2> QED BY <2>1, <2>2, <2>3, <2>4, JoinedSound DEF BaileysContacts
  <1>15. SoundTable(BaileysGated, b5, bRefused)
    <2>1. SoundTable(Each({"getMessageReactions", "getChatHistory", "getLabels", "getLabelById", "getChatLabels", "getSubscribedChannels", "getChannelMessages"}, <<"unsupported">>), {"getMessageReactions", "getChatHistory", "getLabels", "getLabelById", "getChatLabels", "getSubscribedChannels", "getChannelMessages"}, bRefused)
      <3>1. {"getMessageReactions", "getChatHistory", "getLabels", "getLabelById", "getChatLabels", "getSubscribedChannels", "getChannelMessages"} \subseteq bRefused
        BY DEF NotAvailable, Catalogs
      <3> QED BY <3>1, RefusingPlans, RefusingSound
    <2>2. SoundTable(Each({"addLabelToChat", "removeLabelFromChat", "unsubscribeFromChannel"}, <<"ready", "act">>), {"addLabelToChat", "removeLabelFromChat", "unsubscribeFromChannel"}, bRefused)
      <3>1. {"addLabelToChat", "removeLabelFromChat", "unsubscribeFromChannel"} \cap (bRefused \cup Quiet) = {}
        BY DEF NotAvailable, Quiet, Catalogs
      <3> QED BY <3>1, ActingPlans, ActingSound
    <2>3. SoundTable(Each({"getChannelById"}, <<"ready", "read">>), {"getChannelById"}, bRefused)
      <3>1. {"getChannelById"} \cap bRefused = {}
        BY DEF NotAvailable, Catalogs
      <3> QED BY <3>1, ReadingPlans, ReadingSound
    <2>4. SoundTable(Each({"subscribeToChannel"}, <<"ready", "read", "message", "act">>), {"subscribeToChannel"}, bRefused)
      <3>1. {"subscribeToChannel"} \cap (bRefused \cup Quiet) = {}
        BY DEF NotAvailable, Quiet, Catalogs
      <3> QED BY <3>1, ActingPlans, ActingSound
    <2> QED BY <2>1, <2>2, <2>3, <2>4, JoinedSound DEF BaileysGated
  <1>16. SoundTable(BaileysStatuses, b6, bRefused)
    <2>1. SoundTable(Each({"getContactStatuses", "getContactStatus", "sendProduct", "sendCatalog"} \cup Catalogs, <<"unsupported">>), {"getContactStatuses", "getContactStatus", "sendProduct", "sendCatalog"} \cup Catalogs, bRefused)
      <3>1. ({"getContactStatuses", "getContactStatus", "sendProduct", "sendCatalog"} \cup Catalogs) \subseteq bRefused
        BY DEF NotAvailable, Catalogs
      <3> QED BY <3>1, RefusingPlans, RefusingSound
    <2>2. SoundTable(Each({"postTextStatus", "deleteStatus"}, <<"ready", "act">>), {"postTextStatus", "deleteStatus"}, bRefused)
      <3>1. {"postTextStatus", "deleteStatus"} \cap (bRefused \cup Quiet) = {}
        BY DEF NotAvailable, Quiet, Catalogs
      <3> QED BY <3>1, ActingPlans, ActingSound
    <2>3. SoundTable(Each({"postImageStatus", "postVideoStatus"}, <<"ready", "media", "ready", "act">>), {"postImageStatus", "postVideoStatus"}, bRefused)
      <3>1. {"postImageStatus", "postVideoStatus"} \cap (bRefused \cup Quiet) = {}
        BY DEF NotAvailable, Quiet, Catalogs
      <3> QED BY <3>1, ActingPlans, ActingSound
    <2> QED BY <2>1, <2>2, <2>3, JoinedSound DEF BaileysStatuses
  <1> HIDE DEF wRefused, w1, w2, w3, w4, w5, w6, w7, w8, w9, w10, bRefused, b1, b2, b3, b4, b5, b6
  <1>17. SoundTable(WwjsSends ++ WwjsContacts,
                   w1 \cup w2, wRefused)
    BY <1>1, <1>2, JoinedSound
  <1>18. SoundTable(WwjsSends ++ WwjsContacts ++ WwjsExtended,
                   w1 \cup w2 \cup w3, wRefused)
    BY <1>17, <1>3, JoinedSound
  <1>19. SoundTable(WwjsSends ++ WwjsContacts ++ WwjsExtended ++ WwjsGroups,
                   w1 \cup w2 \cup w3 \cup w4, wRefused)
    BY <1>18, <1>4, JoinedSound
  <1>20. SoundTable(WwjsSends ++ WwjsContacts ++ WwjsExtended ++ WwjsGroups ++ WwjsLabels,
                   w1 \cup w2 \cup w3 \cup w4 \cup w5, wRefused)
    BY <1>19, <1>5, JoinedSound
  <1>21. SoundTable(WwjsSends ++ WwjsContacts ++ WwjsExtended ++ WwjsGroups ++ WwjsLabels ++ WwjsChannels,
                   w1 \cup w2 \cup w3 \cup w4 \cup w5 \cup w6, wRefused)
    BY <1>20, <1>6, JoinedSound
  <1>22. SoundTable(WwjsSends ++ WwjsContacts ++ WwjsExtended ++ WwjsGroups ++ WwjsLabels ++ WwjsChannels ++ WwjsHistory,
                   w1 \cup w2 \cup w3 \cup w4 \cup w5 \cup w6 \cup w7, wRefused)
    BY <1>21, <1>7, JoinedSound
  <1>23. SoundTable(WwjsSends ++ WwjsContacts ++ WwjsExtended ++ WwjsGroups ++ WwjsLabels ++ WwjsChannels ++ WwjsHistory ++ WwjsStatuses,
                   w1 \cup w2 \cup w3 \cup w4 \cup w5 \cup w6 \cup w7 \cup w8, wRefused)
    BY <1>22, <1>8, JoinedSound
  <1>24. SoundTable(WwjsSends ++ WwjsContacts ++ WwjsExtended ++ WwjsGroups ++ WwjsLabels ++ WwjsChannels ++ WwjsHistory ++ WwjsStatuses ++ WwjsCatalog,
                   w1 \cup w2 \cup w3 \cup w4 \cup w5 \cup w6 \cup w7 \cup w8 \cup w9, wRefused)
    BY <1>23, <1>9, JoinedSound
  <1>25. SoundTable(WwjsSends ++ WwjsContacts ++ WwjsExtended ++ WwjsGroups ++ WwjsLabels ++ WwjsChannels ++ WwjsHistory ++ WwjsStatuses ++ WwjsCatalog ++ WwjsChats,
                   w1 \cup w2 \cup w3 \cup w4 \cup w5 \cup w6 \cup w7 \cup w8 \cup w9 \cup w10, wRefused)
    BY <1>24, <1>10, JoinedSound
  <1>26. SoundTable(BaileysSends ++ BaileysReplies,
                   b1 \cup b2, bRefused)
    BY <1>11, <1>12, JoinedSound
  <1>27. SoundTable(BaileysSends ++ BaileysReplies ++ BaileysGroups,
                   b1 \cup b2 \cup b3, bRefused)
    BY <1>26, <1>13, JoinedSound
  <1>28. SoundTable(BaileysSends ++ BaileysReplies ++ BaileysGroups ++ BaileysContacts,
                   b1 \cup b2 \cup b3 \cup b4, bRefused)
    BY <1>27, <1>14, JoinedSound
  <1>29. SoundTable(BaileysSends ++ BaileysReplies ++ BaileysGroups ++ BaileysContacts ++ BaileysGated,
                   b1 \cup b2 \cup b3 \cup b4 \cup b5, bRefused)
    BY <1>28, <1>15, JoinedSound
  <1>30. SoundTable(BaileysSends ++ BaileysReplies ++ BaileysGroups ++ BaileysContacts ++ BaileysGated ++ BaileysStatuses,
                   b1 \cup b2 \cup b3 \cup b4 \cup b5 \cup b6, bRefused)
    BY <1>29, <1>16, JoinedSound
  <1>31. SoundTable(Plans.wwjs, w1 \cup w2 \cup w3 \cup w4 \cup w5 \cup w6 \cup w7 \cup w8 \cup w9 \cup w10, wRefused) /\ SoundTable(Plans.baileys, b1 \cup b2 \cup b3 \cup b4 \cup b5 \cup b6, bRefused)
    BY <1>25, <1>30 DEF Plans
  <1>32. w1 \cup w2 \cup w3 \cup w4 \cup w5 \cup w6 \cup w7 \cup w8 \cup w9 \cup w10 = b1 \cup b2 \cup b3 \cup b4 \cup b5 \cup b6
    BY DEF w1, w2, w3, w4, w5, w6, w7, w8, w9, w10, b1, b2, b3, b4, b5, b6, MediaSends, GroupWrites, Catalogs
  <1>33. Operations = w1 \cup w2 \cup w3 \cup w4 \cup w5 \cup w6 \cup w7 \cup w8 \cup w9 \cup w10
    BY <1>31 DEF Operations, SoundTable
  <1> QED BY <1>31, <1>32, <1>33 DEF Adapters, wRefused, bRefused

\* What an adapter answers instead of an error: nothing, or that the operation did not work.
LEMMA SwallowedAnswers ==
    ASSUME NEW a \in Adapters, NEW op \in DOMAIN Swallowed[a]
    PROVE  Swallowed[a][op] = "false" \/ (Swallowed[a][op] = "empty" /\ op \in Quiet)
  <1> DEFINE e1 == Each({"getContactById", "resolveContactPhone", "getGroupInfo", "getProfilePicture"}, "empty")
             f1 == Each({"sendSeen", "markUnread", "deleteChat", "sendChatState"}, "false")
             e2 == Each({"getGroupInfo", "getProfilePicture"}, "empty")
             f2 == Each({"sendChatState"}, "false")
  <1>1. ASSUME NEW e, NEW f, DOMAIN e \subseteq Quiet, \A o \in DOMAIN e : e[o] = "empty", \A o \in DOMAIN f : f[o] = "false",
               NEW o \in DOMAIN (e ++ f)
        PROVE  (e ++ f)[o] = "false" \/ ((e ++ f)[o] = "empty" /\ o \in Quiet)
    BY <1>1 DEF ++
  <1>2. DOMAIN e1 \subseteq Quiet /\ DOMAIN e2 \subseteq Quiet
    BY DEF Each, Quiet
  <1>3. /\ \A o \in DOMAIN e1 : e1[o] = "empty"
        /\ \A o \in DOMAIN e2 : e2[o] = "empty"
        /\ \A o \in DOMAIN f1 : f1[o] = "false"
        /\ \A o \in DOMAIN f2 : f2[o] = "false"
    BY DEF Each
  <1>4. Swallowed.wwjs = e1 ++ f1 /\ Swallowed.baileys = e2 ++ f2
    BY DEF Swallowed
  <1> HIDE DEF e1, f1, e2, f2
  <1>5. CASE a = "wwjs"
    BY <1>1, <1>2, <1>3, <1>4, <1>5
  <1>6. CASE a = "baileys"
    BY <1>1, <1>2, <1>3, <1>4, <1>6
  <1> QED BY <1>5, <1>6 DEF Adapters

-----------------------------------------------------------------------------
(* What holds of a request on its way                                       *)

Ids == {"none", "phone", "lid", "chat"}
EngineAnswers == {"none", "done", "empty", "false", "failed", "notReady", "notSupported", "notFound", "noLid"}
Effectless == {"empty", "notReady", "notSupported", "notFound", "noLid"}
RequestSet == [op : Operations, target : Targets, pc : Nat, to : Ids, tried : {"none", "phone"}, answer : EngineAnswers]

\* A step of these has been passed on the way to another one.
Passed(p, pc, kinds) == \E i \in 1 .. Len(p) : i < pc /\ p[i] \in kinds

\* WhatsApp has acted on a request if and only if it is past its effect; what its answer says of that is true.
Counted(q, n, a) ==
    /\ q.pc \in 1 .. Len(Plans[a][q.op]) + 1
    /\ q.answer = "none" => q.pc <= Len(Plans[a][q.op]) /\ (n = 1 <=> Passed(Plans[a][q.op], q.pc, Effects))
    /\ q.answer = "done" /\ ~ActsNever(Plans[a][q.op]) => n = 1
    /\ q.answer \in Effectless => n = 0
    /\ q.op \in NotAvailable[a] => n = 0 /\ q.answer # "done"
    /\ q.op \notin NotAvailable[a] /\ q.answer = "notSupported" => q.target = "channel"

\* Where a request goes to: nowhere before it resolves its recipient, and then where WhatsApp has just found it.
\* Once more only to a contact that has migrated, whose number is forgotten then.
Routed(q, a, w, k, b) ==
    /\ q.answer = "noLid" => b
    /\ q.answer = "none" =>
          /\ q.tried # "none" => q.pc >= 2
          /\ q.to # "none" => Passed(Plans[a][q.op], q.pc + 1, {"resolve"})
          /\ q.to # "none" /\ Plans[a][q.op][q.pc] = "resolve" => q.to \in {"phone", "lid"} /\ (~b => q.to = w)
          /\ ~b /\ q.tried # "none" => w = "lid" /\ k # "phone" /\ q.to # "phone"

OpInv ==
    /\ adapter \in Adapters
    /\ address \in {"phone", "lid"} /\ known \in {"none", "phone", "lid"} /\ blurred \in BOOLEAN
    /\ req \in [Requests -> RequestSet] /\ acts \in [Requests -> {0, 1}]
    /\ \A r \in Requests : Counted(req[r], acts[r], adapter) /\ Routed(req[r], adapter, address, known, blurred)

LEMMA PlanIsGood ==
    ASSUME NEW a \in Adapters, NEW op \in Operations
    PROVE  /\ GoodPlan(Plans[a][op])
           /\ op \in NotAvailable[a] <=> Refuses(Plans[a][op])
           /\ op \in NotAvailable[a] \/ op \in Quiet => ActsNever(Plans[a][op])
  BY PlansAreSound DEF SoundTable

\* Before its recovery a request has not had an effect.
LEMMA NotYet ==
    ASSUME NEW p, NEW pc \in 1 .. Len(p), GoodPlan(p), p[pc] # "recover"
    PROVE  ~Passed(p, pc, Effects)
  BY DEF GoodPlan, Passed

LEMMA OnwardOf ==
    ASSUME NEW q \in RequestSet, NEW p, NEW q1, q1 = Onward(q, p), q.answer = "none"
    PROVE  /\ q1 \in RequestSet
           /\ q1.op = q.op /\ q1.target = q.target /\ q1.pc = q.pc + 1 /\ q1.to = q.to /\ q1.tried = q.tried
           /\ q1.answer = IF q.pc = Len(p) THEN "done" ELSE "none"
  <1>1. CASE q.pc = Len(p)
    <2>1. PICK c : c = q.pc + 1 /\ c \in Nat
      BY DEF RequestSet
    <2>2. q1 = [q EXCEPT !.pc = c, !.answer = "done"]
      BY <1>1, <2>1 DEF Onward
    <2>3. "done" \in EngineAnswers
      BY DEF EngineAnswers
    <2>4. q1 \in RequestSet
      BY <2>1, <2>2, <2>3 DEF RequestSet
    <2>5. q1.op = q.op /\ q1.target = q.target /\ q1.pc = c /\ q1.to = q.to /\ q1.tried = q.tried /\ q1.answer = "done"
      BY <2>2 DEF RequestSet
    <2> QED BY <1>1, <2>1, <2>4, <2>5
  <1>2. CASE q.pc # Len(p)
    BY <1>2 DEF Onward, RequestSet
  <1> QED BY <1>1, <1>2

LEMMA GoCounted ==
    ASSUME NEW a \in Adapters, NEW q \in RequestSet, NEW n \in {0, 1}, NEW q1 \in RequestSet, Counted(q, n, a),
           q.answer = "none", q1.op = q.op, q1.pc = q.pc + 1,
           q1.answer = IF q.pc = Len(Plans[a][q.op]) THEN "done" ELSE "none",
           Plans[a][q.op][q.pc] \notin Effects \cup Refusals
    PROVE  Counted(q1, n, a)
  <1> DEFINE p == Plans[a][q.op]
  <1>1. GoodPlan(p) /\ (q.op \in NotAvailable[a] <=> Refuses(p))
    BY PlanIsGood DEF RequestSet
  <1>2. q.pc \in 1 .. Len(p) /\ Len(p) \in Nat /\ (n = 1 <=> Passed(p, q.pc, Effects)) /\ p[q.pc] \notin Effects /\ p[q.pc] \notin Refusals
    BY <1>1 DEF Counted, GoodPlan
  <1>3. q.op \in NotAvailable[a] => n = 0 /\ q.pc # Len(p)
    BY <1>1, <1>2 DEF Counted, GoodPlan, Refuses
  <1>4. Passed(p, q.pc + 1, Effects) <=> Passed(p, q.pc, Effects)
    BY <1>2 DEF Passed
  <1>5. q.pc = Len(p) /\ ~ActsNever(p) => n = 1
    BY <1>2 DEF ActsNever, Passed
  <1> QED BY <1>2, <1>3, <1>4, <1>5 DEF Counted, Effectless

LEMMA ActCounted ==
    ASSUME NEW a \in Adapters, NEW q \in RequestSet, NEW n \in {0, 1}, NEW q1 \in RequestSet, Counted(q, n, a),
           q.answer = "none", q1.op = q.op, q1.pc = q.pc + 1,
           q1.answer = IF q.pc = Len(Plans[a][q.op]) THEN "done" ELSE "none",
           Plans[a][q.op][q.pc] \in Effects
    PROVE  Counted(q1, 1, a)
  <1> DEFINE p == Plans[a][q.op]
  <1>1. GoodPlan(p) /\ (q.op \in NotAvailable[a] => ActsNever(p))
    BY PlanIsGood DEF RequestSet
  <1>2. q.pc \in 1 .. Len(p) /\ Len(p) \in Nat /\ p[q.pc] \in Effects
    BY <1>1 DEF Counted, GoodPlan
  <1>3. q.op \notin NotAvailable[a]
    BY <1>1, <1>2 DEF ActsNever
  <1>4. Passed(p, q.pc + 1, Effects)
    BY <1>2 DEF Passed
  <1> QED BY <1>2, <1>3, <1>4 DEF Counted, Effectless

\* Before its effect nothing has happened.
LEMMA NothingYet ==
    ASSUME NEW a \in Adapters, NEW q \in RequestSet, NEW n \in {0, 1}, Counted(q, n, a), q.answer = "none",
           Plans[a][q.op][q.pc] # "recover"
    PROVE  n = 0
  <1>1. GoodPlan(Plans[a][q.op])
    BY PlanIsGood DEF RequestSet
  <1>2. q.pc \in 1 .. Len(Plans[a][q.op])
    BY <1>1 DEF Counted, GoodPlan
  <1>3. ~Passed(Plans[a][q.op], q.pc, Effects)
    BY <1>1, <1>2, NotYet
  <1> QED BY <1>3 DEF Counted

LEMMA EndCounted ==
    ASSUME NEW a \in Adapters, NEW q \in RequestSet, NEW n \in {0, 1}, NEW q1 \in RequestSet, Counted(q, 0, a),
           q.answer = "none", q1.op = q.op, q1.target = q.target, q1.pc = q.pc, q1.answer \notin {"none", "done"},
           n = 0 \/ (q1.answer \notin Effectless /\ q.op \notin NotAvailable[a]),
           q1.answer = "notSupported" => q.op \in NotAvailable[a] \/ q.target = "channel"
    PROVE  Counted(q1, n, a)
  BY DEF Counted, Effectless

LEMMA GoRouted ==
    ASSUME NEW a \in Adapters, NEW q \in RequestSet, NEW q1 \in RequestSet, NEW w, NEW k, NEW b \in BOOLEAN, Routed(q, a, w, k, b),
           q.answer = "none", q.pc \in 1 .. Len(Plans[a][q.op]), q1.op = q.op, q1.pc = q.pc + 1, q1.to = q.to, q1.tried = q.tried,
           q1.answer = IF q.pc = Len(Plans[a][q.op]) THEN "done" ELSE "none",
           Plans[a][q.op][q.pc] # "resolve"
    PROVE  Routed(q1, a, w, k, b)
  <1> DEFINE p == Plans[a][q.op]
  <1>1. GoodPlan(p)
    BY PlanIsGood DEF RequestSet
  <1>2. q.to # "none" /\ q.pc # Len(p) => p[q.pc + 1] # "resolve" /\ Passed(p, q.pc + 2, {"resolve"})
    BY <1>1 DEF Routed, Passed, GoodPlan
  <1>3. q.pc + 1 + 1 = q.pc + 2 /\ (q.pc >= 2 => q.pc + 1 >= 2)
    OBVIOUS
  <1> QED BY <1>2, <1>3 DEF Routed

LEMMA ResolvedRouted ==
    ASSUME NEW a \in Adapters, NEW q \in RequestSet, NEW q1 \in RequestSet, NEW w, NEW k, NEW b \in BOOLEAN, Routed(q, a, w, k, b),
           q.answer = "none", q.pc \in 1 .. Len(Plans[a][q.op]), q1.op = q.op, q1.pc = q.pc + 1, q1.tried = q.tried,
           q1.answer \in {"none", "done"}, Plans[a][q.op][q.pc] = "resolve",
           NEW k1, NEW b1 \in BOOLEAN, b => b1, ~b1 /\ q.tried # "none" => k1 # "phone" /\ q1.to # "phone"
    PROVE  Routed(q1, a, w, k1, b1)
  <1> DEFINE p == Plans[a][q.op]
  <1>1. GoodPlan(p)
    BY PlanIsGood DEF RequestSet
  <1>2. p[q.pc + 1] # "resolve" /\ Passed(p, q.pc + 2, {"resolve"})
    BY <1>1 DEF Passed, GoodPlan
  <1>3. q.pc + 1 + 1 = q.pc + 2 /\ (q.pc >= 2 => q.pc + 1 >= 2)
    OBVIOUS
  <1> QED BY <1>2, <1>3 DEF Routed

LEMMA EndRouted ==
    ASSUME NEW a, NEW q1, NEW w, NEW k, NEW b, q1.answer # "none", q1.answer = "noLid" => b
    PROVE  Routed(q1, a, w, k, b)
  BY DEF Routed

\* What one request and its environment do to the others.
LEMMA RequestMoves ==
    ASSUME OpInv, NEW r \in Requests, NEW q \in RequestSet, NEW n \in {0, 1}, NEW k \in {"none", "phone", "lid"}, NEW b \in BOOLEAN,
           req' = [req EXCEPT ![r] = q], acts' = [acts EXCEPT ![r] = n], known' = k, blurred' = b, UNCHANGED <<adapter, address>>,
           Counted(q, n, adapter), Routed(q, adapter, address, k, b),
           blurred => b, ~b /\ address = "lid" => k # "phone" \/ k = known
    PROVE  OpInv'
  <1>1. /\ req' \in [Requests -> RequestSet] /\ acts' \in [Requests -> {0, 1}]
        /\ req'[r] = q /\ acts'[r] = n /\ \A s \in Requests : s # r => req'[s] = req[s] /\ acts'[s] = acts[s]
    BY DEF OpInv
  <1>2. ASSUME NEW s \in Requests
        PROVE  Counted(req'[s], acts'[s], adapter) /\ Routed(req'[s], adapter, address, k, b)
    <2>1. CASE s = r
      BY <1>1, <2>1
    <2>2. CASE s # r
      <3>1. Counted(req[s], acts[s], adapter) /\ Routed(req[s], adapter, address, known, blurred)
        BY DEF OpInv
      <3>2. Routed(req[s], adapter, address, k, b)
        BY <3>1 DEF Routed
      <3> QED BY <1>1, <2>2, <3>1, <3>2
    <2> QED BY <2>1, <2>2
  <1> QED BY <1>1, <1>2 DEF OpInv

\* A request that goes on without an effect.
LEMMA Going ==
    ASSUME OpInv, NEW r \in Requests, req[r].answer = "none", Plan(r)[req[r].pc] \notin Effects \cup Refusals \cup {"resolve"},
           Goes(r), UNCHANGED <<adapter, address, known, acts, blurred>>
    PROVE  OpInv'
  <1>1. PICK q : q = req[r]
    OBVIOUS
  <1>2. PICK n : n = acts[r]
    OBVIOUS
  <1>3. PICK q1 : q1 = Onward(q, Plan(r))
    OBVIOUS
  <1>4. q \in RequestSet /\ n \in {0, 1} /\ Counted(q, n, adapter) /\ Routed(q, adapter, address, known, blurred) /\ adapter \in Adapters
    BY <1>1, <1>2 DEF OpInv
  <1>5. Plan(r) = Plans[adapter][q.op] /\ q.answer = "none"
    BY <1>1 DEF Plan
  <1>6. /\ q1 \in RequestSet
        /\ q1.op = q.op /\ q1.target = q.target /\ q1.pc = q.pc + 1 /\ q1.to = q.to /\ q1.tried = q.tried
        /\ q1.answer = IF q.pc = Len(Plan(r)) THEN "done" ELSE "none"
    BY <1>3, <1>4, <1>5, OnwardOf
  <1>7. q.pc \in 1 .. Len(Plan(r))
    <2>1. GoodPlan(Plan(r))
      BY <1>4, <1>5, PlanIsGood DEF RequestSet
    <2> QED BY <1>4, <1>5, <2>1 DEF Counted, GoodPlan
  <1>8. Counted(q1, n, adapter)
    BY <1>1, <1>4, <1>5, <1>6, GoCounted
  <1>9. Routed(q1, adapter, address, known, blurred)
    <2>1. blurred \in BOOLEAN
      BY DEF OpInv
    <2> QED BY <1>1, <1>4, <1>5, <1>6, <1>7, <2>1, GoRouted
  <1>10. req' = [req EXCEPT ![r] = q1] /\ acts' = [acts EXCEPT ![r] = n]
    BY <1>1, <1>2, <1>3 DEF Goes, OpInv
  <1> QED BY <1>4, <1>6, <1>8, <1>9, <1>10, RequestMoves DEF OpInv

\* A request that ends before its effect, or with the error of an effect.
LEMMA Ending ==
    ASSUME OpInv, NEW r \in Requests, NEW x \in EngineAnswers \ {"none", "done"}, NEW n \in {0, 1}, NEW b \in BOOLEAN,
           req[r].answer = "none", Plan(r)[req[r].pc] # "recover",
           Ends(r, x), acts' = [acts EXCEPT ![r] = n], UNCHANGED <<adapter, address, known, blurred>>,
           n = 0 \/ (x \notin Effectless /\ req[r].op \notin NotAvailable[adapter]),
           x = "notSupported" => req[r].op \in NotAvailable[adapter] \/ req[r].target = "channel",
           x = "noLid" => blurred
    PROVE  OpInv'
  <1>1. PICK q : q = req[r]
    OBVIOUS
  <1>2. PICK q1 : q1 = [q EXCEPT !.answer = x]
    OBVIOUS
  <1>3. q \in RequestSet /\ acts[r] \in {0, 1} /\ Counted(q, acts[r], adapter) /\ adapter \in Adapters /\ q.answer = "none"
    BY <1>1 DEF OpInv
  <1>4. /\ q1 \in RequestSet
        /\ q1.op = q.op /\ q1.target = q.target /\ q1.pc = q.pc /\ q1.answer = x
    BY <1>2, <1>3 DEF RequestSet
  <1>5. acts[r] = 0
    BY <1>1, <1>3, NothingYet DEF Plan
  <1>6. Counted(q1, n, adapter)
    BY <1>1, <1>3, <1>4, <1>5, EndCounted
  <1>7. Routed(q1, adapter, address, known, blurred)
    BY <1>4, EndRouted
  <1>8. req' = [req EXCEPT ![r] = q1]
    BY <1>1, <1>2 DEF Ends, OpInv
  <1> QED BY <1>4, <1>6, <1>7, <1>8, RequestMoves DEF OpInv

\* Nothing but the request changes.
LEMMA EndingQuietly ==
    ASSUME OpInv, NEW r \in Requests, NEW x \in EngineAnswers \ {"none", "done"}, req[r].answer = "none", Plan(r)[req[r].pc] # "recover",
           Ends(r, x), UNCHANGED <<adapter, address, known, acts, blurred>>,
           x = "notSupported" => req[r].op \in NotAvailable[adapter] \/ req[r].target = "channel",
           x = "noLid" => blurred
    PROVE  OpInv'
  <1>1. acts[r] = 0 /\ acts' = [acts EXCEPT ![r] = 0]
    <2>1. req[r] \in RequestSet /\ acts[r] \in {0, 1} /\ Counted(req[r], acts[r], adapter) /\ adapter \in Adapters
      BY DEF OpInv
    <2>2. acts[r] = 0
      BY <2>1, NothingYet DEF Plan
    <2> QED BY <2>2 DEF OpInv
  <1>2. blurred \in BOOLEAN
    BY DEF OpInv
  <1> QED BY <1>1, <1>2, Ending

LEMMA Rejecting ==
    ASSUME OpInv, NEW r \in Requests, req[r].answer = "none", Plan(r)[req[r].pc] # "recover",
           Rejects(r), UNCHANGED <<adapter, address, known, blurred>>,
           \/ UNCHANGED acts
           \/ Plan(r)[req[r].pc] \in Effects /\ acts' = [acts EXCEPT ![r] = @ + 1]
    PROVE  OpInv'
  <1>1. PICK op : op = req[r].op
    OBVIOUS
  <1>2. PICK x : x = IF op \in DOMAIN Swallowed[adapter] THEN Swallowed[adapter][op] ELSE "failed"
    OBVIOUS
  <1>3. req[r] \in RequestSet /\ op \in Operations /\ acts[r] \in {0, 1} /\ Counted(req[r], acts[r], adapter) /\ adapter \in Adapters
    BY <1>1 DEF OpInv, RequestSet
  <1>4. x \in {"failed", "false"} \/ (x = "empty" /\ op \in Quiet)
    BY <1>2, <1>3, SwallowedAnswers
  <1>5. x \in EngineAnswers \ {"none", "done"} /\ x # "notSupported" /\ x # "noLid" /\ Ends(r, x)
    BY <1>1, <1>2, <1>4 DEF EngineAnswers, Rejects
  <1>6. CASE UNCHANGED acts
    BY <1>5, <1>6, EndingQuietly
  <1>7. CASE Plan(r)[req[r].pc] \in Effects /\ acts' = [acts EXCEPT ![r] = @ + 1]
    <2>1. GoodPlan(Plan(r)) /\ (op \in NotAvailable[adapter] \/ op \in Quiet => ActsNever(Plan(r))) /\ Plan(r) = Plans[adapter][op]
      BY <1>1, <1>3, PlanIsGood DEF Plan
    <2>2. req[r].pc \in 1 .. Len(Plan(r))
      BY <1>1, <1>3, <2>1 DEF Counted, GoodPlan
    <2>3. op \notin NotAvailable[adapter] /\ op \notin Quiet
      BY <1>7, <2>1, <2>2 DEF ActsNever
    <2>4. acts[r] = 0
      BY <1>3, NothingYet DEF Plan
    <2>5. acts' = [acts EXCEPT ![r] = 1]
      BY <1>7, <2>4
    <2>6. x \notin Effectless
      BY <1>4, <2>3 DEF Effectless
    <2>7. blurred \in BOOLEAN
      BY DEF OpInv
    <2> QED BY <1>1, <1>5, <2>3, <2>5, <2>6, <2>7, Ending
  <1> QED BY <1>6, <1>7

LEMMA ReadyStep == ASSUME OpInv, NEW r \in Requests, EnsureReady(r) PROVE OpInv'
  <1>1. req[r].answer = "none" /\ Plan(r)[req[r].pc] = "ready" /\ UNCHANGED <<adapter, address, known, acts, blurred>>
    BY DEF EnsureReady, AtStep, Still, engineVars
  <1>2. Goes(r) \/ Ends(r, "notReady")
    BY DEF EnsureReady
  <1>3. "notReady" \in EngineAnswers \ {"none", "done"}
    BY DEF EngineAnswers
  <1> QED BY <1>1, <1>2, <1>3, Going, EndingQuietly DEF Effects, Refusals

LEMMA ChannelStep == ASSUME OpInv, NEW r \in Requests, CheckChannel(r) PROVE OpInv'
  <1>1. PICK step \in DOMAIN ChannelAnswer :
            /\ AtStep(r, step)
            /\ IF req[r].target = "channel" THEN Ends(r, ChannelAnswer[step]) ELSE Goes(r)
    BY DEF CheckChannel
  <1>2. PICK x : x = ChannelAnswer[step]
    OBVIOUS
  <1>3. step \in {"channelRefused", "channelEmpty", "channelRejected"} /\ x \in {"notSupported", "empty", "failed"}
    BY <1>2 DEF ChannelAnswer
  <1>4. req[r].answer = "none" /\ Plan(r)[req[r].pc] = step /\ UNCHANGED <<adapter, address, known, acts, blurred>>
    BY <1>1 DEF AtStep, Still, engineVars, CheckChannel
  <1>5. x \in EngineAnswers \ {"none", "done"} /\ step # "recover" /\ step \notin Effects \cup Refusals \cup {"resolve"} /\ x # "noLid"
    BY <1>3 DEF EngineAnswers, Effects, Refusals
  <1>6. CASE req[r].target = "channel"
    BY <1>1, <1>2, <1>4, <1>5, <1>6, EndingQuietly
  <1>7. CASE req[r].target # "channel"
    BY <1>1, <1>4, <1>5, <1>7, Going
  <1> QED BY <1>6, <1>7

LEMMA UnsupportedStep == ASSUME OpInv, NEW r \in Requests, Unsupported(r) PROVE OpInv'
  <1>1. PICK x \in {"notSupported", "empty"} : Ends(r, x)
    BY DEF Unsupported
  <1>2. req[r].answer = "none" /\ Plan(r)[req[r].pc] \in Refusals /\ UNCHANGED <<adapter, address, known, acts, blurred>>
    BY DEF Unsupported, AtStep, Still, engineVars, Refusals
  <1>3. req[r].op \in NotAvailable[adapter]
    <2>1. req[r] \in RequestSet /\ Counted(req[r], acts[r], adapter) /\ adapter \in Adapters /\ req[r].op \in Operations
      BY DEF OpInv, RequestSet
    <2>2. GoodPlan(Plan(r)) /\ (req[r].op \in NotAvailable[adapter] <=> Refuses(Plan(r)))
      BY <2>1, PlanIsGood DEF Plan
    <2>3. req[r].pc \in 1 .. Len(Plan(r))
      BY <1>2, <2>1, <2>2 DEF Counted, GoodPlan, Plan
    <2> QED BY <1>2, <2>2, <2>3 DEF Refuses
  <1>4. x \in EngineAnswers \ {"none", "done"} /\ x # "noLid" /\ Plan(r)[req[r].pc] # "recover"
    BY <1>2 DEF EngineAnswers, Refusals
  <1> QED BY <1>1, <1>2, <1>3, <1>4, EndingQuietly

LEMMA GroupStep == ASSUME OpInv, NEW r \in Requests, CheckGroup(r) PROVE OpInv'
  <1>1. req[r].answer = "none" /\ Plan(r)[req[r].pc] = "group" /\ UNCHANGED <<adapter, address, known, acts, blurred>>
    BY DEF CheckGroup, AtStep, Still, engineVars
  <1>2. Goes(r) \/ Rejects(r)
    BY DEF CheckGroup
  <1> QED BY <1>1, <1>2, Going, Rejecting DEF Effects, Refusals

LEMMA FindStep == ASSUME OpInv, NEW r \in Requests, FindMessage(r) \/ LastMessage(r) PROVE OpInv'
  <1>1. req[r].answer = "none" /\ Plan(r)[req[r].pc] \in {"message", "stored", "last"} /\ UNCHANGED <<adapter, address, known, acts, blurred>>
    BY DEF FindMessage, LastMessage, AtStep, Still, engineVars
  <1>2. Goes(r) \/ Ends(r, "notFound") \/ Ends(r, "empty")
    BY DEF FindMessage, LastMessage
  <1>3. "notFound" \in EngineAnswers \ {"none", "done"} /\ "empty" \in EngineAnswers \ {"none", "done"}
    BY DEF EngineAnswers
  <1> QED BY <1>1, <1>2, <1>3, Going, EndingQuietly DEF Effects, Refusals

LEMMA MediaStep == ASSUME OpInv, NEW r \in Requests, LoadMedia(r) PROVE OpInv'
  <1>1. req[r].answer = "none" /\ Plan(r)[req[r].pc] = "media" /\ UNCHANGED <<adapter, address, known, acts, blurred>>
    BY DEF LoadMedia, AtStep, Still, engineVars
  <1>2. Goes(r) \/ Rejects(r)
    BY DEF LoadMedia
  <1> QED BY <1>1, <1>2, Going, Rejecting DEF Effects, Refusals

LEMMA ReadsStep == ASSUME OpInv, NEW r \in Requests, Reads(r) \/ ReadsPage(r) PROVE OpInv'
  <1>1. req[r].answer = "none" /\ Plan(r)[req[r].pc] \in {"read", "page"} /\ UNCHANGED <<adapter, address, known, acts, blurred>>
    BY DEF Reads, ReadsPage, AtStep, Still, engineVars
  <1>2. Goes(r) \/ Rejects(r) \/ Ends(r, "notReady")
    BY DEF Reads, ReadsPage
  <1>3. "notReady" \in EngineAnswers \ {"none", "done"}
    BY DEF EngineAnswers
  <1> QED BY <1>1, <1>2, <1>3, Going, Rejecting, EndingQuietly DEF Effects, Refusals

LEMMA RecoverStep == ASSUME OpInv, NEW r \in Requests, RecoverId(r) PROVE OpInv'
  <1>1. req[r].answer = "none" /\ Plan(r)[req[r].pc] = "recover" /\ Goes(r) /\ UNCHANGED <<adapter, address, known, acts, blurred>>
    BY DEF RecoverId, AtStep, Still, engineVars
  <1> QED BY <1>1, Going DEF Effects, Refusals

\* A request that has its effect.
LEMMA Acting1 ==
    ASSUME OpInv, NEW r \in Requests, req[r].answer = "none", Plan(r)[req[r].pc] \in Effects, Goes(r),
           acts' = [acts EXCEPT ![r] = @ + 1], UNCHANGED <<adapter, address, known, blurred>>
    PROVE  OpInv'
  <1>1. PICK q : q = req[r]
    OBVIOUS
  <1>2. PICK q1 : q1 = Onward(q, Plan(r))
    OBVIOUS
  <1>3. q \in RequestSet /\ acts[r] \in {0, 1} /\ Counted(q, acts[r], adapter) /\ Routed(q, adapter, address, known, blurred) /\ adapter \in Adapters
    BY <1>1 DEF OpInv
  <1>4. Plan(r) = Plans[adapter][q.op] /\ q.answer = "none"
    BY <1>1 DEF Plan
  <1>5. /\ q1 \in RequestSet
        /\ q1.op = q.op /\ q1.target = q.target /\ q1.pc = q.pc + 1 /\ q1.to = q.to /\ q1.tried = q.tried
        /\ q1.answer = IF q.pc = Len(Plan(r)) THEN "done" ELSE "none"
    BY <1>2, <1>3, <1>4, OnwardOf
  <1>6. q.pc \in 1 .. Len(Plan(r)) /\ Plan(r)[q.pc] # "recover" /\ Plan(r)[q.pc] # "resolve"
    <2>1. GoodPlan(Plan(r))
      BY <1>3, <1>4, PlanIsGood DEF RequestSet
    <2> QED BY <1>1, <1>3, <1>4, <2>1 DEF Counted, GoodPlan, Effects
  <1>7. acts[r] = 0
    BY <1>1, <1>3, <1>4, <1>6, NothingYet
  <1>8. Counted(q1, 1, adapter)
    BY <1>1, <1>3, <1>4, <1>5, ActCounted
  <1>9. Routed(q1, adapter, address, known, blurred) /\ blurred \in BOOLEAN /\ known \in {"none", "phone", "lid"}
    <2>1. blurred \in BOOLEAN /\ known \in {"none", "phone", "lid"}
      BY DEF OpInv
    <2> QED BY <1>1, <1>3, <1>4, <1>5, <1>6, <2>1, GoRouted
  <1>10. req' = [req EXCEPT ![r] = q1] /\ acts' = [acts EXCEPT ![r] = 1]
    BY <1>1, <1>2, <1>7 DEF Goes, OpInv
  <1> QED BY <1>5, <1>8, <1>9, <1>10, RequestMoves

LEMMA ActsStep == ASSUME OpInv, NEW r \in Requests, Acts(r) PROVE OpInv'
  <1>1. req[r].answer = "none" /\ Plan(r)[req[r].pc] = "act" /\ UNCHANGED <<adapter, address, known, blurred>>
    BY DEF Acts, AtStep, engineVars
  <1>2. "act" \in Effects /\ "act" # "recover"
    BY DEF Effects
  <1>3. \/ Goes(r) /\ acts' = [acts EXCEPT ![r] = @ + 1]
        \/ Rejects(r) /\ UNCHANGED acts
        \/ Rejects(r) /\ acts' = [acts EXCEPT ![r] = @ + 1]
    BY DEF Acts
  <1> QED BY <1>1, <1>2, <1>3, Acting1, Rejecting

\* A request whose recipient has been found.
LEMMA Resolving ==
    ASSUME OpInv, NEW r \in Requests, NEW id \in {"chat", "phone", "lid"}, NEW k \in {"none", "phone", "lid"}, NEW b \in BOOLEAN,
           AtStep(r, "resolve"), Resolved(r, id), known' = k, blurred' = b, UNCHANGED <<adapter, address, acts>>,
           blurred => b, ~b /\ address = "lid" => k # "phone" \/ k = known,
           ~b /\ req[r].tried # "none" => id # "phone"
    PROVE  OpInv'
  <1>1. PICK q : q = req[r]
    OBVIOUS
  <1>2. PICK n : n = acts[r]
    OBVIOUS
  <1>3. PICK q1 : q1 = Onward(q, Plan(r))
    OBVIOUS
  <1>4. PICK q2 : q2 = [q1 EXCEPT !.to = id]
    OBVIOUS
  <1>5. /\ q \in RequestSet /\ n \in {0, 1} /\ Counted(q, n, adapter) /\ Routed(q, adapter, address, known, blurred)
        /\ adapter \in Adapters /\ blurred \in BOOLEAN
    BY <1>1, <1>2 DEF OpInv
  <1>6. Plan(r) = Plans[adapter][q.op] /\ q.answer = "none" /\ Plan(r)[q.pc] = "resolve"
    BY <1>1 DEF Plan, AtStep
  <1>7. /\ q1 \in RequestSet
        /\ q1.op = q.op /\ q1.target = q.target /\ q1.pc = q.pc + 1 /\ q1.to = q.to /\ q1.tried = q.tried
        /\ q1.answer = IF q.pc = Len(Plan(r)) THEN "done" ELSE "none"
    BY <1>3, <1>5, <1>6, OnwardOf
  <1>8. /\ q2 \in RequestSet
        /\ q2.op = q.op /\ q2.target = q.target /\ q2.pc = q.pc + 1 /\ q2.to = id /\ q2.tried = q.tried
        /\ q2.answer = IF q.pc = Len(Plan(r)) THEN "done" ELSE "none"
    BY <1>4, <1>7 DEF RequestSet, Ids
  <1>9. q.pc \in 1 .. Len(Plan(r))
    <2>1. GoodPlan(Plan(r))
      BY <1>5, <1>6, PlanIsGood DEF RequestSet
    <2> QED BY <1>5, <1>6, <2>1 DEF Counted, GoodPlan
  <1>10. Counted(q2, n, adapter)
    <2>1. "resolve" \notin Effects \cup Refusals
      BY DEF Effects, Refusals
    <2> QED BY <1>5, <1>6, <1>8, <2>1, GoCounted
  <1>11. Routed(q2, adapter, address, k, b)
    <2>1. ~b /\ q.tried # "none" => k # "phone" /\ q2.to # "phone"
      BY <1>1, <1>5, <1>6, <1>8 DEF Routed
    <2>2. q2.answer \in {"none", "done"}
      BY <1>8
    <2> QED BY <1>5, <1>6, <1>8, <1>9, <2>1, <2>2, ResolvedRouted
  <1>12. req' = [req EXCEPT ![r] = q2] /\ acts' = [acts EXCEPT ![r] = n]
    BY <1>1, <1>2, <1>3, <1>4 DEF Resolved, OpInv
  <1>13. UNCHANGED <<adapter, address>>
    OBVIOUS
  <1> QED BY <1>5, <1>8, <1>10, <1>11, <1>12, <1>13, RequestMoves

LEMMA ResolveStep == ASSUME OpInv, NEW r \in Requests, ResolveSendId(r) PROVE OpInv'
  <1>1. /\ address \in {"phone", "lid"} /\ known \in {"none", "phone", "lid"} /\ blurred \in BOOLEAN /\ adapter \in Adapters
        /\ Routed(req[r], adapter, address, known, blurred) /\ req[r].answer = "none" /\ Plan(r)[req[r].pc] = "resolve"
        /\ AtStep(r, "resolve") /\ req[r].to = "none" /\ UNCHANGED <<adapter, address, acts>>
        /\ req[r] \in RequestSet /\ acts[r] \in {0, 1} /\ Counted(req[r], acts[r], adapter)
    BY DEF OpInv, ResolveSendId, AtStep, engineVars
  <1>2. CASE req[r].target # "contact" /\ Resolved(r, "chat") /\ UNCHANGED <<known, blurred>>
    BY <1>1, <1>2, Resolving
  <1>3. CASE req[r].target = "contact" /\ known # "none" /\ Resolved(r, known) /\ UNCHANGED <<known, blurred>>
    <2>1. ~blurred /\ req[r].tried # "none" => known # "phone"
      BY <1>1, <1>3 DEF Routed
    <2>2. PICK id \in {"chat", "phone", "lid"} : id = known
      BY <1>1, <1>3
    <2> QED BY <1>1, <1>3, <2>1, <2>2, Resolving
  <1>4. CASE req' = [req EXCEPT ![r].to = address] /\ UNCHANGED <<known, blurred>>
    <2>1. PICK q : q = req[r]
      OBVIOUS
    <2>2. PICK q1 : q1 = [q EXCEPT !.to = address]
      OBVIOUS
    <2>3. q1 \in RequestSet /\ q1.op = q.op /\ q1.target = q.target /\ q1.pc = q.pc /\ q1.to = address /\ q1.tried = q.tried /\ q1.answer = q.answer
      BY <1>1, <2>1, <2>2 DEF RequestSet, Ids
    <2>4. Counted(q1, acts[r], adapter)
      BY <1>1, <2>1, <2>3 DEF Counted
    <2>5. GoodPlan(Plan(r)) /\ Plan(r) = Plans[adapter][q.op]
      BY <1>1, <2>1, PlanIsGood DEF RequestSet, Plan
    <2>6. Passed(Plan(r), q.pc + 1, {"resolve"})
      BY <1>1, <2>1, <2>5 DEF Passed, Counted, GoodPlan
    <2>7. Routed(q1, adapter, address, known, blurred)
      BY <1>1, <2>1, <2>3, <2>5, <2>6 DEF Routed
    <2>8. req' = [req EXCEPT ![r] = q1] /\ acts' = [acts EXCEPT ![r] = acts[r]]
      BY <1>1, <1>4, <2>1, <2>2 DEF OpInv
    <2>9. known' = known /\ blurred' = blurred /\ UNCHANGED <<adapter, address>>
      BY <1>1, <1>4
    <2> QED BY <1>1, <2>3, <2>4, <2>7, <2>8, <2>9, RequestMoves
  <1>5. CASE Resolved(r, "phone") /\ blurred' = TRUE /\ UNCHANGED known
    BY <1>1, <1>5, Resolving
  <1> QED BY <1>2, <1>3, <1>4, <1>5 DEF ResolveSendId

LEMMA LookupStep == ASSUME OpInv, NEW r \in Requests, LookupAnswered(r) PROVE OpInv'
  <1>1. /\ address \in {"phone", "lid"} /\ blurred \in BOOLEAN
        /\ Routed(req[r], adapter, address, known, blurred) /\ req[r].answer = "none" /\ Plan(r)[req[r].pc] = "resolve"
        /\ AtStep(r, "resolve") /\ req[r].to # "none" /\ UNCHANGED <<adapter, address, acts, blurred>>
        /\ known' = req[r].to /\ Resolved(r, req[r].to)
    BY DEF OpInv, LookupAnswered, AtStep, engineVars
  <1>2. PICK id : id = req[r].to
    OBVIOUS
  <1>3. id \in {"phone", "lid"} /\ (~blurred => id = address) /\ (~blurred /\ req[r].tried # "none" => address = "lid")
    BY <1>1, <1>2 DEF Routed, Plan
  <1> QED BY <1>1, <1>2, <1>3, Resolving

\* WhatsApp does not know the contact by its number: the request looks it up once more.
LEMMA Retrying ==
    ASSUME OpInv, NEW r \in Requests, AtStep(r, "send"), NoLid(r), req[r].tried = "none",
           known' = "none", req' = [req EXCEPT ![r].tried = req[r].to, ![r].to = "none", ![r].pc = @ - 1],
           UNCHANGED <<adapter, address, acts, blurred>>
    PROVE  OpInv'
  <1>1. PICK q : q = req[r]
    OBVIOUS
  <1>2. PICK c : c = q.pc - 1
    OBVIOUS
  <1>3. PICK q1 : q1 = [q EXCEPT !.tried = q.to, !.to = "none", !.pc = c]
    OBVIOUS
  <1>4. /\ q \in RequestSet /\ acts[r] \in {0, 1} /\ Counted(q, acts[r], adapter) /\ Routed(q, adapter, address, known, blurred)
        /\ adapter \in Adapters /\ blurred \in BOOLEAN
    BY <1>1 DEF OpInv
  <1>5. Plan(r) = Plans[adapter][q.op] /\ q.answer = "none" /\ Plan(r)[q.pc] = "send" /\ q.to = "phone" /\ address = "lid"
    BY <1>1 DEF Plan, AtStep, NoLid
  <1>6. GoodPlan(Plan(r))
    BY <1>4, <1>5, PlanIsGood DEF RequestSet
  <1>7. q.pc \in 1 .. Len(Plan(r)) /\ Len(Plan(r)) \in Nat
    BY <1>4, <1>5, <1>6 DEF Counted, GoodPlan
  <1>8. Plan(r)[c] = "resolve" /\ c \in 2 .. Len(Plan(r)) /\ c < q.pc
    BY <1>2, <1>5, <1>6, <1>7 DEF GoodPlan
  <1>9. /\ q1 \in RequestSet
        /\ q1.op = q.op /\ q1.target = q.target /\ q1.pc = c /\ q1.to = "none" /\ q1.tried = "phone" /\ q1.answer = "none"
    <2>1. c \in Nat
      BY <1>8
    <2> QED BY <1>3, <1>4, <1>5, <2>1 DEF RequestSet, Ids
  <1>10. acts[r] = 0 /\ Counted(q1, 0, adapter)
    <2>1. acts[r] = 0
      BY <1>4, <1>5, NothingYet
    <2>2. ~Passed(Plan(r), c, Effects)
      BY <1>6, <1>7, <1>8, NotYet
    <2> QED BY <1>4, <1>5, <1>8, <1>9, <2>1, <2>2 DEF Counted, Effectless
  <1>11. Routed(q1, adapter, address, "none", blurred)
    BY <1>5, <1>8, <1>9 DEF Routed
  <1>12. req' = [req EXCEPT ![r] = q1] /\ acts' = [acts EXCEPT ![r] = 0]
    <2>1. req' = [req EXCEPT ![r] = [q EXCEPT !.tried = q.to, !.to = "none", !.pc = c]]
      BY <1>1, <1>2 DEF OpInv, RequestSet
    <2> QED BY <1>3, <1>10, <2>1 DEF OpInv
  <1> QED BY <1>4, <1>9, <1>10, <1>11, <1>12, RequestMoves

LEMMA SendStep == ASSUME OpInv, NEW r \in Requests, SendResolved(r) PROVE OpInv'
  <1>1. req[r].answer = "none" /\ Plan(r)[req[r].pc] = "send" /\ AtStep(r, "send") /\ UNCHANGED <<adapter, address, blurred>>
    BY DEF SendResolved, AtStep, engineVars
  <1>2. "send" \in Effects /\ "send" # "recover"
    BY DEF Effects
  <1>3. CASE Goes(r) /\ acts' = [acts EXCEPT ![r] = @ + 1] /\ UNCHANGED known
    BY <1>1, <1>2, <1>3, Acting1
  <1>4. CASE Rejects(r) /\ UNCHANGED <<acts, known>>
    BY <1>1, <1>2, <1>4, Rejecting
  <1>5. CASE Rejects(r) /\ acts' = [acts EXCEPT ![r] = @ + 1] /\ UNCHANGED known
    BY <1>1, <1>2, <1>5, Rejecting
  <1>6. CASE /\ NoLid(r) /\ req[r].tried = "none" /\ known' = "none" /\ UNCHANGED acts
             /\ req' = [req EXCEPT ![r].tried = req[r].to, ![r].to = "none", ![r].pc = @ - 1]
    BY <1>1, <1>6, Retrying
  <1>7. CASE NoLid(r) /\ req[r].tried # "none" /\ Ends(r, "noLid") /\ UNCHANGED <<acts, known>>
    <2>1. blurred
      BY <1>1, <1>7 DEF OpInv, Routed, NoLid
    <2>2. "noLid" \in EngineAnswers \ {"none", "done"}
      BY DEF EngineAnswers
    <2> QED BY <1>1, <1>2, <1>7, <2>1, <2>2, EndingQuietly
  <1> QED BY <1>3, <1>4, <1>5, <1>6, <1>7 DEF SendResolved

LEMMA SameStep == ASSUME OpInv, NEW r \in Requests, SameAgain(r) PROVE OpInv'
  <1>1. /\ req[r].answer = "none" /\ Plan(r)[req[r].pc] = "send" /\ req[r].tried # "none" /\ req[r].to = req[r].tried
        /\ Ends(r, "noLid") /\ UNCHANGED <<adapter, address, known, acts, blurred>>
    BY DEF SameAgain, AtStep, Still, engineVars
  <1>2. blurred
    BY <1>1 DEF OpInv, Routed, RequestSet
  <1>3. "noLid" \in EngineAnswers \ {"none", "done"}
    BY DEF EngineAnswers
  <1> QED BY <1>1, <1>2, <1>3, EndingQuietly

\* A migration overtakes every request that is past its first step.
LEMMA MigratesStep == ASSUME OpInv, Migrates PROVE OpInv'
  <1>1. /\ address' = "lid" /\ UNCHANGED <<adapter, known, req, acts>>
        /\ blurred' = (blurred \/ \E r \in Requests : req[r].pc > 1 /\ req[r].answer = "none")
    BY DEF Migrates
  <1>2. ASSUME NEW r \in Requests PROVE Routed(req[r], adapter, "lid", known, blurred')
    <2>1. PICK q : q = req[r]
      OBVIOUS
    <2>2. PICK b : b = blurred'
      OBVIOUS
    <2>3. /\ q \in RequestSet /\ Counted(q, acts[r], adapter) /\ Routed(q, adapter, address, known, blurred)
          /\ adapter \in Adapters /\ blurred \in BOOLEAN
      BY <2>1 DEF OpInv
    <2>4. b \in BOOLEAN /\ (blurred => b) /\ (~b => ~blurred /\ ~(q.pc > 1 /\ q.answer = "none"))
      BY <1>1, <2>1, <2>2, <2>3
    <2>5. GoodPlan(Plans[adapter][q.op])
      BY <2>3, PlanIsGood DEF RequestSet
    <2>6. q.answer = "none" /\ Plans[adapter][q.op][q.pc] = "resolve" => q.pc > 1
      BY <2>3, <2>5 DEF Counted, GoodPlan
    <2>7. q.answer = "none" /\ q.tried # "none" => q.pc > 1
      BY <2>3 DEF Routed, RequestSet
    <2>8. Routed(q, adapter, "lid", known, b)
      BY <2>3, <2>4, <2>6, <2>7 DEF Routed
    <2> QED BY <2>1, <2>2, <2>8
  <1>3. blurred' \in BOOLEAN
    BY <1>1 DEF OpInv
  <1> QED BY <1>1, <1>2, <1>3 DEF OpInv

LEMMA EngineStep == ASSUME OpInv, TearsDown \/ Reconnects \/ Detaches PROVE OpInv'
  <1>1. UNCHANGED <<adapter, address, known, req, acts, blurred>>
    BY DEF TearsDown, Reconnects, Detaches
  <1> QED BY <1>1 DEF OpInv

LEMMA InitOperations == OpInit => OpInv
  <1> SUFFICES ASSUME OpInit PROVE OpInv
    OBVIOUS
  <1>1. /\ adapter \in Adapters /\ address = "phone" /\ known \in {"none", "phone"} /\ blurred = FALSE
        /\ req \in [Requests -> [op : Operations, target : Targets, pc : {1}, to : {"none"}, tried : {"none"}, answer : {"none"}]]
        /\ acts = [r \in Requests |-> 0]
    BY DEF OpInit, Adapters
  <1>2. ASSUME NEW r \in Requests
        PROVE  req[r] \in RequestSet /\ Counted(req[r], 0, adapter) /\ Routed(req[r], adapter, address, known, blurred)
    <2>1. /\ req[r] \in RequestSet
          /\ req[r].pc = 1 /\ req[r].to = "none" /\ req[r].tried = "none" /\ req[r].answer = "none"
      BY <1>1 DEF RequestSet, Ids, EngineAnswers
    <2>2. GoodPlan(Plans[adapter][req[r].op])
      BY <1>1, <2>1, PlanIsGood DEF RequestSet
    <2>3. Counted(req[r], 0, adapter)
      BY <2>1, <2>2 DEF Counted, GoodPlan, Passed, Effectless
    <2>4. Routed(req[r], adapter, address, known, blurred)
      BY <2>1 DEF Routed
    <2> QED BY <2>1, <2>3, <2>4
  <1> QED BY <1>1, <1>2 DEF OpInv

LEMMA OperationsStep == OpInv /\ [OpNext]_opVars => OpInv'
  <1> SUFFICES ASSUME OpInv, [OpNext]_opVars PROVE OpInv'
    OBVIOUS
  <1>1. CASE \E r \in Requests : Continue(r)
    BY <1>1, ReadyStep, ChannelStep, UnsupportedStep, GroupStep, FindStep, MediaStep, ReadsStep, ActsStep, ResolveStep,
       LookupStep, SendStep, SameStep, RecoverStep DEF Continue
  <1>2. CASE TearsDown \/ Reconnects \/ Detaches \/ Migrates
    BY <1>2, EngineStep, MigratesStep
  <1>3. CASE UNCHANGED opVars
    BY <1>3 DEF OpInv, opVars, Plan
  <1> QED BY <1>1, <1>2, <1>3 DEF OpNext

LEMMA OperationsHold == OpInv => OperationIsTrue
  <1> SUFFICES ASSUME OpInv PROVE OperationIsTrue
    OBVIOUS
  <1>1. SendsHeal
    BY DEF OpInv, Routed, SendsHeal
  <1>2. ASSUME NEW r \in Requests
        PROVE  /\ acts[r] <= 1
               /\ req[r].answer = "done" /\ HasEffect(r) => acts[r] = 1
               /\ req[r].answer \in {"empty", "notReady", "notSupported", "notFound", "noLid"} => acts[r] = 0
               /\ IF req[r].op \in NotAvailable[adapter]
                  THEN acts[r] = 0 /\ req[r].answer # "done"
                  ELSE req[r].answer = "notSupported" => req[r].target = "channel"
    <2>1. acts[r] \in {0, 1} /\ Counted(req[r], acts[r], adapter)
      BY DEF OpInv
    <2>2. HasEffect(r) => ~ActsNever(Plans[adapter][req[r].op])
      <3>1. ASSUME HasEffect(r) PROVE ~ActsNever(Plan(r))
        <4>1. PICK i \in DOMAIN Plan(r) : Plan(r)[i] \in {"act", "send"}
          BY <3>1 DEF HasEffect
        <4> QED BY <4>1 DEF ActsNever, Effects
      <3> QED BY <3>1 DEF Plan
    <2> QED BY <2>1, <2>2 DEF Counted, Effectless
  <1> QED BY <1>1, <1>2 DEF OperationIsTrue

\* The connection of the adapter.
Gates == status \in {"ready", "down"} /\ client \in BOOLEAN /\ detached \in BOOLEAN

LEMMA InitGates == OpInit => Gates
  BY DEF OpInit, Gates

LEMMA GatesStep == Gates /\ [OpNext]_opVars => Gates'
  <1> SUFFICES ASSUME Gates, [OpNext]_opVars PROVE Gates'
    OBVIOUS
  <1>1. ASSUME NEW r \in Requests, Continue(r) PROVE Gates'
    <2>1. CASE EnsureReady(r) \/ CheckChannel(r) \/ Unsupported(r) \/ CheckGroup(r) \/ FindMessage(r) \/ LastMessage(r)
      BY <2>1 DEF EnsureReady, CheckChannel, Unsupported, CheckGroup, FindMessage, LastMessage, Still, engineVars, Gates
    <2>2. CASE LoadMedia(r) \/ Reads(r) \/ SameAgain(r) \/ RecoverId(r) \/ Acts(r)
      BY <2>2 DEF LoadMedia, Reads, SameAgain, RecoverId, Acts, Still, engineVars, Gates
    <2>3. CASE ResolveSendId(r) \/ LookupAnswered(r) \/ SendResolved(r)
      BY <2>3 DEF ResolveSendId, LookupAnswered, SendResolved, engineVars, Gates
    <2>4. CASE ReadsPage(r)
      BY <2>4 DEF ReadsPage, Gates
    <2> QED BY <1>1, <2>1, <2>2, <2>3, <2>4 DEF Continue
  <1>2. CASE TearsDown \/ Reconnects \/ Detaches \/ Migrates
    BY <1>2 DEF TearsDown, Reconnects, Detaches, Migrates, Gates
  <1>3. CASE UNCHANGED opVars
    BY <1>3 DEF opVars, Gates
  <1> QED BY <1>1, <1>2, <1>3 DEF OpNext

LEMMA OperationsTyped == OpInv /\ Gates => OpTypeOK
  <1> SUFFICES ASSUME OpInv, Gates PROVE OpTypeOK
    OBVIOUS
  <1>1. DOMAIN Plans["baileys"] = Operations
    BY PlansAreSound DEF SoundTable, Adapters
  <1>2. Plans.baileys = Plans["baileys"]
    OBVIOUS
  <1>3. ASSUME NEW r \in Requests
        PROVE  /\ req[r].pc \in 1 .. Len(Plan(r)) + 1
               /\ req[r].to \in {"none", "phone", "lid", "chat"}
               /\ req[r].answer \in {"none", "done", "empty", "false", "failed", "notReady", "notSupported", "notFound", "noLid"}
    <2>1. req[r] \in RequestSet /\ Counted(req[r], acts[r], adapter)
      BY DEF OpInv
    <2>2. req[r].pc \in 1 .. Len(Plan(r)) + 1
      BY <2>1 DEF Counted, Plan
    <2> QED BY <2>1, <2>2 DEF RequestSet, Ids, EngineAnswers
  <1> QED BY <1>1, <1>2, <1>3 DEF OpTypeOK, OpInv, Gates

-----------------------------------------------------------------------------
(* The instances of a plugin                                                *)

RowSet ==
    [scope : Scopes \cup {"all", "none"}, enabled : BOOLEAN, config : Secrets \cup {"empty"}, key : 0 .. MaxCalls]
BoundSet ==
    [base : Secrets \cup {"empty"}, own : [Scopes -> Secrets \cup {"empty"}], active : SUBSET (Scopes \cup {"all"})]
PastWriting == {"binding", "bound", "leaving", "retiring"}
CallSet ==
    [kind : {"create", "regenerate", "remove", "patch"}, of : Instances, number : 0 .. MaxCalls,
     at : {"resolving", "reading", "writing"} \cup PastWriting, copy : RowSet, from : Scopes \cup {"all", "none"},
     enable : {"on", "off", "same"}, scope : Scopes \cup {"all", "same"}, config : Secrets \cup {"empty", "masked", "same"},
     left : BOOLEAN]

\* A call is what one of the operations asks for, and is where it can be.
CallIs(q) ==
    /\ q.kind = "create" => q.config \notin {"masked", "same"} /\ q.scope # "same"
    /\ q.kind \in {"regenerate", "remove"} => q.config = "same"
    /\ q.kind = "regenerate" => q.at \notin PastWriting
    /\ q.at = "writing" /\ q.kind \in {"patch", "regenerate"} => q.copy.scope # "none"
    /\ q.at = "retiring" => q.kind # "remove" /\ ~q.copy.enabled /\ q.copy.scope = "all"
    /\ q.kind = "create" /\ q.at \in PastWriting => q.copy.enabled
    /\ ~q.copy.enabled \/ q.copy.scope # "none"
    /\ q.kind # "create" /\ q.at # "resolving" => q.from # "none"
    /\ q.kind = "patch" /\ q.at \in PastWriting => q.copy.scope # "none"
    /\ q.kind = "remove" /\ q.at \in PastWriting => ~q.copy.enabled

\* Nobody else has changed what this call works on.
Alone(q) == q.of \notin overlaid \/ ~doubtful \/ ~leaked

\* What a call knows of the row r of its instance.
Knows(q, r) ==
    /\ q.at \in {"reading", "writing"} => (r.scope # "none" <=> q.kind # "create")
    /\ q.at \in {"reading", "writing"} /\ q.kind # "create" => q.from = r.scope
    /\ q.at = "writing" /\ q.kind \in {"patch", "regenerate"} => q.copy = r
    /\ q.at \in PastWriting => q.copy = r

\* A call nobody interferes with is the only one of its instance, and knows its row.
KnowsItsRow(q) == Knows(q, rows[q.of]) /\ \A p \in requests : p.of = q.of => p = q

\* One call at a time, and no scope bound twice.
InTurn ==
    ~doubtful \/ ~leaked => /\ \A p, q \in requests : p = q
                            /\ ~Mixed(rows)

\* The row r is bound in b as it says.
BoundAs(b, r) == IF r.scope = "all" THEN "all" \in b.active ELSE r.scope \in b.active /\ b.own[r.scope] = r.config

\* An enabled instance is bound, unless its own call is about to see to that; whether others need "all" is known.
EnabledAreBound ==
    ~doubtful =>
       /\ \A i \in Instances : Enabled(i) /\ (\A q \in requests : q.of = i => q.at \notin PastWriting) => BoundAs(bound, rows[i])
       /\ \A q \in requests : q.at \in {"leaving", "retiring"} =>
             (q.left <=> \E i \in Instances : Enabled(i) /\ rows[i].scope = "all")

\* The call will unbind the session.
Owes(q, s) ==
    \/ q.at = "binding" /\ LeavesScope(q) /\ q.from = s
    \/ q.at \in {"binding", "leaving", "bound"} /\ q.kind # "remove" /\ ~q.copy.enabled /\ q.copy.scope = s

InUse(b, s) == s \in b.active \/ b.own[s] # "empty"

\* A session is bound for an enabled instance, or until a call gets to unbinding it.
BoundOnlyIfAsked ==
    ~leaked => \A s \in Scopes : InUse(bound, s) =>
                  \/ \E i \in Instances : Enabled(i) /\ rows[i].scope = s
                  \/ \E q \in requests : Owes(q, s)

\* What was chosen and shown last is what is stored, unless calls overlapped.
RowsAreAsChosen == \A i \in Instances \ overlaid : rows[i].config = chosen[i] /\ rows[i].key = shownKey[i]

CallsKnow == \A q \in requests : Alone(q) => KnowsItsRow(q)

FreshIsBound == fresh => requests = {} /\ \A i \in Instances : Enabled(i) => Covers(i)

InstancesTyped ==
    /\ rows \in [Instances -> RowSet] /\ \A i \in Instances : rows[i].enabled => rows[i].scope # "none"
    /\ bound \in BoundSet /\ issued \in 0 .. MaxCalls
    /\ DOMAIN chosen = Instances /\ DOMAIN shownKey = Instances
    /\ requests \subseteq CallSet /\ \A q \in requests : CallIs(q)

InstancesInv ==
    InstancesTyped /\ CallsKnow /\ InTurn /\ EnabledAreBound /\ BoundOnlyIfAsked /\ RowsAreAsChosen /\ FreshIsBound

LEMMA ScopesApart == "all" \notin Scopes /\ "none" \notin Scopes /\ "same" \notin Scopes
  BY InstanceAssumption
LEMMA SecretsApart == "empty" \notin Secrets /\ "masked" \notin Secrets /\ "same" \notin Secrets
  BY InstanceAssumption
LEMMA CallsBounded == MaxCalls \in Nat
  BY InstanceAssumption
LEMMA NoInstanceTyped == NoInstance \in RowSet /\ NoInstance.scope = "none" /\ ~NoInstance.enabled /\ NoInstance.config = "empty" /\ NoInstance.key = 0
  BY CallsBounded DEF NoInstance, RowSet

LEMMA BindAll ==
    ASSUME NEW b \in BoundSet, NEW c \in Secrets \cup {"empty"}
    PROVE  Bind(b, "all", c) \in BoundSet /\ Bind(b, "all", c).own = b.own /\ Bind(b, "all", c).active = {"all"}
  <1>1. PICK base : base = IF c = "empty" THEN b.base ELSE c
    OBVIOUS
  <1>2. PICK b1 : b1 = [b EXCEPT !.base = base, !.active = {"all"}]
    OBVIOUS
  <1>3. base \in Secrets \cup {"empty"}
    BY <1>1 DEF BoundSet
  <1>4. b1 \in BoundSet /\ b1.own = b.own /\ b1.active = {"all"}
    BY <1>2, <1>3 DEF BoundSet
  <1>5. Bind(b, "all", c) = b1
    BY <1>1, <1>2 DEF Bind
  <1> QED BY <1>4, <1>5

LEMMA BindOne ==
    ASSUME NEW b \in BoundSet, NEW s \in Scopes, NEW c \in Secrets \cup {"empty"}
    PROVE  /\ Bind(b, s, c) \in BoundSet
           /\ Bind(b, s, c).own = [b.own EXCEPT ![s] = c]
           /\ Bind(b, s, c).active = (b.active \ {"all"}) \cup {s}
  <1>1. PICK own : own = [b.own EXCEPT ![s] = c]
    OBVIOUS
  <1>2. PICK active : active = (b.active \ {"all"}) \cup {s}
    OBVIOUS
  <1>3. PICK b1 : b1 = [b EXCEPT !.own = own, !.active = active]
    OBVIOUS
  <1>4. own \in [Scopes -> Secrets \cup {"empty"}] /\ active \in SUBSET (Scopes \cup {"all"})
    BY <1>1, <1>2 DEF BoundSet
  <1>5. b1 \in BoundSet /\ b1.own = own /\ b1.active = active
    BY <1>3, <1>4 DEF BoundSet
  <1>6. Bind(b, s, c) = b1
    BY <1>1, <1>2, <1>3, ScopesApart DEF Bind
  <1> QED BY <1>1, <1>2, <1>5, <1>6

LEMMA UnbindOne ==
    ASSUME NEW b \in BoundSet, NEW s \in Scopes
    PROVE  /\ Unbind(b, s) \in BoundSet
           /\ Unbind(b, s).own = [b.own EXCEPT ![s] = "empty"]
           /\ Unbind(b, s).active = b.active \ {"all", s}
  <1>1. PICK own : own = [b.own EXCEPT ![s] = "empty"]
    OBVIOUS
  <1>2. PICK active : active = b.active \ {"all", s}
    OBVIOUS
  <1>3. PICK b1 : b1 = [b EXCEPT !.own = own, !.active = active]
    OBVIOUS
  <1>4. own \in [Scopes -> Secrets \cup {"empty"}] /\ active \in SUBSET (Scopes \cup {"all"})
    BY <1>1, <1>2 DEF BoundSet
  <1>5. b1 \in BoundSet /\ b1.own = own /\ b1.active = active
    BY <1>3, <1>4 DEF BoundSet
  <1>6. Unbind(b, s) = b1
    BY <1>1, <1>2, <1>3 DEF Unbind
  <1> QED BY <1>1, <1>2, <1>5, <1>6

LEMMA AllRetired ==
    ASSUME NEW b \in BoundSet
    PROVE  RetireAll(b) \in BoundSet /\ RetireAll(b).own = b.own /\ RetireAll(b).active = b.active \ {"all"}
  BY DEF RetireAll, BoundSet

\* What a boot makes of a binding: every enabled instance has its own, and nothing is added beside.
LEMMA AtBoot ==
    ASSUME NEW b \in BoundSet, NEW r \in [Instances -> RowSet], \A i \in Instances : r[i].enabled => r[i].scope # "none",
           NEW b1 \in BoundAtBoot(b, r)
    PROVE  /\ b1 \in BoundSet
           /\ \A i \in Instances : r[i].enabled =>
                 IF r[i].scope = "all" THEN "all" \in b1.active
                 ELSE {"all", r[i].scope} \cap b1.active # {} /\ Wins(r, r[i].scope, b1.own[r[i].scope])
           /\ ~Mixed(r) => \A i \in Instances : r[i].enabled => BoundAs(b1, r[i])
           /\ \A s \in Scopes : InUse(b1, s) => InUse(b, s) \/ \E i \in Instances : r[i].enabled /\ r[i].scope = s
  <1>1. PICK own \in [Scopes -> Secrets \cup {"empty"}] :
            /\ \A s \in Scopes : IF s \in EnabledScopes(r) THEN Wins(r, s, own[s]) ELSE own[s] = "empty"
            /\ \E base \in Secrets \cup {"empty"} : b1 = Rebind(b, r, own, base)
    BY DEF BoundAtBoot
  <1>2. PICK base \in Secrets \cup {"empty"} : b1 = Rebind(b, r, own, base)
    BY <1>1
  <1>3. PICK sessions : sessions = EnabledScopes(r) \ {"all"}
    OBVIOUS
  <1>4. PICK owns : owns = [s \in Scopes |-> IF s \in sessions THEN own[s] ELSE b.own[s]]
    OBVIOUS
  <1>5. PICK active : active = IF sessions = {} THEN b.active ELSE (b.active \ {"all"}) \cup sessions
    OBVIOUS
  <1>6. PICK one : one = [base |-> b.base, own |-> owns, active |-> active]
    OBVIOUS
  <1>7. b1 = IF "all" \in EnabledScopes(r) THEN Bind(one, "all", base) ELSE one
    BY <1>2, <1>3, <1>4, <1>5, <1>6 DEF Rebind
  <1>8. sessions \subseteq Scopes
    BY <1>3 DEF EnabledScopes, RowSet
  <1>9. one \in BoundSet /\ one.own = owns /\ one.active = active
    <2>1. owns \in [Scopes -> Secrets \cup {"empty"}]
      BY <1>4 DEF BoundSet
    <2>2. active \in SUBSET (Scopes \cup {"all"})
      BY <1>5, <1>8 DEF BoundSet
    <2>3. b.base \in Secrets \cup {"empty"}
      BY DEF BoundSet
    <2> QED BY <1>6, <2>1, <2>2, <2>3 DEF BoundSet
  <1>10. b1 \in BoundSet /\ b1.own = owns /\ b1.active = IF "all" \in EnabledScopes(r) THEN {"all"} ELSE active
    BY <1>7, <1>9, BindAll
  <1>11. \A i \in Instances : r[i].enabled => r[i].scope \in EnabledScopes(r)
    BY DEF EnabledScopes
  <1>12. ASSUME NEW i \in Instances, r[i].enabled, r[i].scope # "all"
         PROVE  r[i].scope \in sessions /\ r[i].scope \in Scopes /\ b1.own[r[i].scope] = own[r[i].scope] /\ Wins(r, r[i].scope, own[r[i].scope])
    <2>1. r[i].scope \in sessions
      BY <1>3, <1>11, <1>12
    <2>2. r[i].scope \in Scopes /\ r[i].scope \in EnabledScopes(r)
      BY <1>8, <1>11, <1>12, <2>1
    <2> QED BY <1>1, <1>4, <1>10, <2>1, <2>2
  <1>13. ASSUME NEW i \in Instances, r[i].enabled
         PROVE  IF r[i].scope = "all" THEN "all" \in b1.active
                ELSE {"all", r[i].scope} \cap b1.active # {} /\ Wins(r, r[i].scope, b1.own[r[i].scope])
    <2>1. CASE r[i].scope = "all"
      BY <1>10, <1>11, <1>13, <2>1
    <2>2. CASE r[i].scope # "all"
      <3>1. r[i].scope \in sessions /\ b1.own[r[i].scope] = own[r[i].scope] /\ Wins(r, r[i].scope, own[r[i].scope])
        BY <1>12, <1>13, <2>2
      <3>2. "all" \in b1.active \/ r[i].scope \in b1.active
        BY <1>5, <1>10, <3>1
      <3> QED BY <2>2, <3>1, <3>2
    <2> QED BY <2>1, <2>2
  <1>14. ASSUME ~Mixed(r), NEW i \in Instances, r[i].enabled PROVE BoundAs(b1, r[i])
    <2>1. CASE r[i].scope = "all"
      BY <1>13, <1>14, <2>1 DEF BoundAs
    <2>2. CASE r[i].scope # "all"
      <3>1. r[i].scope \in sessions /\ b1.own[r[i].scope] = own[r[i].scope] /\ Wins(r, r[i].scope, own[r[i].scope])
        BY <1>12, <1>14, <2>2
      <3>2. "all" \notin EnabledScopes(r)
        <4>1. ASSUME NEW j \in Instances, r[j].enabled, r[j].scope = "all" PROVE FALSE
          <5>1. i # j
            BY <2>2, <4>1
          <5> QED BY <1>14, <4>1, <5>1 DEF Mixed
        <4> QED BY <4>1 DEF EnabledScopes
      <3>3. r[i].scope \in b1.active
        BY <1>5, <1>10, <3>1, <3>2
      <3>4. own[r[i].scope] = r[i].config
        <4>1. PICK j \in Instances : r[j].enabled /\ r[j].scope = r[i].scope /\ r[j].config = own[r[i].scope]
          BY <3>1 DEF Wins
        <4>2. i = j
          BY <1>14, <4>1 DEF Mixed
        <4> QED BY <4>1, <4>2
      <3> QED BY <2>2, <3>1, <3>3, <3>4 DEF BoundAs
    <2> QED BY <2>1, <2>2
  <1>15. ASSUME NEW s \in Scopes, InUse(b1, s) PROVE InUse(b, s) \/ \E i \in Instances : r[i].enabled /\ r[i].scope = s
    <2>1. CASE s \in sessions
      BY <1>3, <2>1 DEF EnabledScopes
    <2>2. CASE s \notin sessions
      <3>1. b1.own[s] = b.own[s]
        BY <1>4, <1>10, <2>2
      <3>2. s \in b1.active => s \in b.active
        BY <1>5, <1>10, <2>2, ScopesApart
      <3> QED BY <1>15, <3>1, <3>2 DEF InUse
    <2> QED BY <2>1, <2>2
  <1> QED BY <1>10, <1>13, <1>14, <1>15

\* A call goes on, or ends; nobody else's row changes.
LEMMA CallMoves ==
    ASSUME InstancesInv, NEW q \in requests, NEW next \in SUBSET CallSet,
           \A p, p1 \in next : p = p1, \A p \in next : p.of = q.of /\ CallIs(p),
           CallBecomes(q, next), UNCHANGED overlaid, doubtful => doubtful', leaked => leaked',
           \A i \in Instances : i # q.of => rows'[i] = rows[i],
           \A p \in next : Alone(q) => Knows(p, rows'[q.of])
    PROVE  /\ requests' \subseteq CallSet /\ \A p \in requests' : CallIs(p)
           /\ CallsKnow'
           /\ ~doubtful' \/ ~leaked' => \A p, p1 \in requests' : p = p1
  <1>1. requests' = (requests \ {q}) \cup next
    BY DEF CallBecomes
  <1>2. requests' \subseteq CallSet /\ \A p \in requests' : CallIs(p)
    BY <1>1 DEF InstancesInv, InstancesTyped
  <1>3. ASSUME NEW p \in requests', Alone(p)' PROVE KnowsItsRow(p)'
    <2>1. p.of \notin overlaid \/ ~doubtful \/ ~leaked
      BY <1>3 DEF Alone
    <2>2. CASE p \in next
      <3>1. p.of = q.of /\ Alone(q)
        BY <2>1, <2>2 DEF Alone
      <3>2. KnowsItsRow(q)
        BY <3>1 DEF InstancesInv, CallsKnow
      <3>3. Knows(p, rows'[p.of])
        BY <2>2, <3>1
      <3>4. ASSUME NEW p1 \in requests', p1.of = p.of PROVE p1 = p
        <4>1. p1 \in requests => p1 = q
          BY <3>1, <3>2, <3>4 DEF KnowsItsRow
        <4> QED BY <1>1, <2>2, <4>1
      <3> QED BY <3>3, <3>4 DEF KnowsItsRow
    <2>3. CASE p \notin next
      <3>1. p \in requests /\ p # q /\ Alone(p)
        BY <1>1, <2>1, <2>3 DEF Alone
      <3>2. KnowsItsRow(p)
        BY <3>1 DEF InstancesInv, CallsKnow
      <3>3. p.of # q.of /\ p.of \in Instances
        <4>1. p.of \in Instances
          BY <3>1 DEF InstancesInv, InstancesTyped, CallSet
        <4> QED BY <3>1, <3>2, <4>1 DEF KnowsItsRow
      <3>4. rows'[p.of] = rows[p.of]
        BY <3>3
      <3>5. Knows(p, rows'[p.of])
        BY <3>2, <3>4 DEF KnowsItsRow
      <3>6. ASSUME NEW p1 \in requests', p1.of = p.of PROVE p1 = p
        <4>1. p1 \notin next
          BY <3>3, <3>6
        <4> QED BY <1>1, <3>2, <3>6, <4>1 DEF KnowsItsRow
      <3> QED BY <3>5, <3>6 DEF KnowsItsRow
    <2> QED BY <2>2, <2>3
  <1>4. ASSUME ~doubtful' \/ ~leaked', NEW p \in requests', NEW p1 \in requests' PROVE p = p1
    <2>1. \A p2, p3 \in requests : p2 = p3
      BY <1>4 DEF InstancesInv, InTurn
    <2> QED BY <1>1, <2>1
  <1> QED BY <1>2, <1>3, <1>4 DEF CallsKnow

LEMMA AsksStep ==
    ASSUME InstancesInv, NEW q \in CallSet, q.at = "resolving", CallIs(q), Asks(q)
    PROVE  InstancesInv'
  <1>1. /\ requests' = requests \cup {q}
        /\ overlaid' = overlaid \cup {p.of : p \in {p \in requests : p.of = q.of}}
        /\ doubtful' = (doubtful \/ requests # {}) /\ leaked' = (leaked \/ requests # {})
        /\ fresh' = FALSE /\ issued' = issued + 1 /\ issued < MaxCalls
        /\ UNCHANGED <<rows, bound, loaded, chosen, shownKey>>
    BY DEF Asks
  <1>2. InstancesTyped'
    BY <1>1, CallsBounded DEF InstancesInv, InstancesTyped
  <1>3. ~doubtful' \/ ~leaked' => requests = {} /\ requests' = {q}
    BY <1>1
  <1>4. ASSUME NEW p \in requests, p.of = q.of PROVE q.of \in overlaid'
    <2>1. p.of \in {p1.of : p1 \in {p1 \in requests : p1.of = q.of}}
      BY <1>4
    <2> QED BY <1>1, <1>4, <2>1
  <1>5. CallsKnow'
    <2>1. ASSUME NEW p \in requests', Alone(p)' PROVE KnowsItsRow(p)'
      <3>1. CASE p = q
        <4>1. Knows(q, rows'[q.of])
          BY DEF Knows, PastWriting
        <4>2. ASSUME NEW p1 \in requests', p1.of = q.of PROVE p1 = q
          BY <1>1, <1>3, <1>4, <2>1, <3>1, <4>2 DEF Alone
        <4> QED BY <3>1, <4>1, <4>2 DEF KnowsItsRow
      <3>2. CASE p # q
        <4>1. p \in requests /\ p.of \notin overlaid'
          BY <1>1, <1>3, <2>1, <3>2 DEF Alone
        <4>2. p.of # q.of /\ p.of \notin overlaid
          BY <1>1, <1>4, <4>1
        <4>3. KnowsItsRow(p)
          BY <4>1, <4>2 DEF InstancesInv, CallsKnow, Alone
        <4> QED BY <1>1, <4>2, <4>3 DEF KnowsItsRow
      <3> QED BY <3>1, <3>2
    <2> QED BY <2>1 DEF CallsKnow
  <1>6. InTurn'
    <2>1. Mixed(rows)' <=> Mixed(rows)
      BY <1>1 DEF Mixed
    <2> QED BY <1>1, <1>3, <2>1 DEF InstancesInv, InTurn
  <1>7. EnabledAreBound'
    BY <1>1, <1>3 DEF InstancesInv, EnabledAreBound, Enabled, Exists, PastWriting, BoundAs
  <1>8. BoundOnlyIfAsked'
    <2>1. ASSUME ~leaked', NEW s \in Scopes, InUse(bound, s)'
          PROVE  \/ \E i \in Instances : Enabled(i)' /\ rows'[i].scope = s
                 \/ \E p \in requests' : Owes(p, s)
      <3>1. InUse(bound, s)
        BY <1>1, <2>1 DEF InUse
      <3>2. \E i \in Instances : Enabled(i) /\ rows[i].scope = s
        BY <1>1, <1>3, <2>1, <3>1 DEF InstancesInv, BoundOnlyIfAsked
      <3> QED BY <1>1, <3>2 DEF Enabled, Exists
    <2> QED BY <2>1 DEF BoundOnlyIfAsked, Owes, LeavesScope
  <1>9. RowsAreAsChosen'
    BY <1>1 DEF InstancesInv, RowsAreAsChosen
  <1>10. FreshIsBound'
    BY <1>1 DEF FreshIsBound
  <1> QED BY <1>2, <1>5, <1>6, <1>7, <1>8, <1>9, <1>10 DEF InstancesInv

LEMMA NewCallTyped ==
    ASSUME InstancesInv, NEW k \in {"create", "regenerate", "remove", "patch"}, NEW i \in Instances, issued < MaxCalls
    PROVE  /\ NewCall(k, i) \in CallSet
           /\ NewCall(k, i).kind = k /\ NewCall(k, i).at = "resolving" /\ NewCall(k, i).copy = NoInstance
           /\ NewCall(k, i).config = "same" /\ NewCall(k, i).scope = "same"
  <1>1. issued + 1 \in 0 .. MaxCalls
    BY CallsBounded DEF InstancesInv, InstancesTyped
  <1> QED BY <1>1, NoInstanceTyped DEF NewCall, CallSet

LEMMA NewCallsStep ==
    ASSUME InstancesInv, NEW i \in Instances, Create(i) \/ Regenerate(i) \/ RemoveInstance(i) \/ Patch(i)
    PROVE  InstancesInv'
  <1>4. issued < MaxCalls
    BY DEF Create, Regenerate, RemoveInstance, Patch, Asks
  <1>1. CASE Create(i)
    <2>1. PICK s \in Scopes \cup {"all"} : \E c \in Secrets \cup {"empty"} : Asks([NewCall("create", i) EXCEPT !.scope = s, !.config = c])
      BY <1>1 DEF Create
    <2>2. PICK c \in Secrets \cup {"empty"} : Asks([NewCall("create", i) EXCEPT !.scope = s, !.config = c])
      BY <2>1
    <2>3. PICK n : n = NewCall("create", i)
      OBVIOUS
    <2>4. PICK q : q = [n EXCEPT !.scope = s, !.config = c]
      OBVIOUS
    <2>5. n \in CallSet /\ n.kind = "create" /\ n.at = "resolving" /\ n.copy = NoInstance
      BY <2>3, <1>4, NewCallTyped
    <2>6. q \in CallSet /\ q.kind = "create" /\ q.at = "resolving" /\ q.copy = NoInstance /\ q.scope = s /\ q.config = c
      BY <2>4, <2>5 DEF CallSet
    <2>7. CallIs(q)
      BY <2>6, NoInstanceTyped, ScopesApart, SecretsApart DEF CallIs, PastWriting
    <2> QED BY <2>2, <2>3, <2>4, <2>6, <2>7, AsksStep
  <1>2. CASE Regenerate(i) \/ RemoveInstance(i)
    <2>1. PICK k \in {"regenerate", "remove"} : Asks(NewCall(k, i))
      BY <1>2 DEF Regenerate, RemoveInstance
    <2>2. PICK q : q = NewCall(k, i)
      OBVIOUS
    <2>3. q \in CallSet /\ q.kind = k /\ q.at = "resolving" /\ q.copy = NoInstance /\ q.config = "same"
      BY <2>2, <1>4, NewCallTyped
    <2>4. CallIs(q)
      BY <2>3, NoInstanceTyped DEF CallIs, PastWriting
    <2> QED BY <2>1, <2>2, <2>3, <2>4, AsksStep
  <1>3. CASE Patch(i)
    <2>1. PICK n : n = NewCall("patch", i)
      OBVIOUS
    <2>2. n \in CallSet /\ n.kind = "patch" /\ n.at = "resolving" /\ n.copy = NoInstance
      BY <2>1, <1>4, NewCallTyped
    <2>3. ASSUME NEW e \in {"on", "off"}, Asks([n EXCEPT !.enable = e]) PROVE InstancesInv'
      <3>1. PICK q : q = [n EXCEPT !.enable = e]
        OBVIOUS
      <3>2. q \in CallSet /\ q.kind = "patch" /\ q.at = "resolving" /\ q.copy = NoInstance
        BY <2>2, <3>1 DEF CallSet
      <3>3. CallIs(q)
        BY <3>2, NoInstanceTyped DEF CallIs, PastWriting
      <3> QED BY <2>3, <3>1, <3>2, <3>3, AsksStep
    <2>4. ASSUME NEW s \in Scopes \cup {"same", "all"}, NEW c \in Secrets \cup {"masked"}, Asks([n EXCEPT !.scope = s, !.config = c])
          PROVE  InstancesInv'
      <3>1. PICK q : q = [n EXCEPT !.scope = s, !.config = c]
        OBVIOUS
      <3>2. q \in CallSet /\ q.kind = "patch" /\ q.at = "resolving" /\ q.copy = NoInstance
        BY <2>2, <3>1 DEF CallSet
      <3>3. CallIs(q)
        BY <3>2, NoInstanceTyped DEF CallIs, PastWriting
      <3> QED BY <2>4, <3>1, <3>2, <3>3, AsksStep
    <2> QED BY <1>3, <2>1, <2>3, <2>4 DEF Patch
  <1> QED BY <1>1, <1>2, <1>3

\* A call that has not written yet goes on without one, or ends.
LEMMA ReadsOn ==
    ASSUME InstancesInv, NEW q \in requests, q.at \in {"resolving", "reading"}, NEW next \in SUBSET CallSet,
           \A p, p1 \in next : p = p1, \A p \in next : p.of = q.of /\ CallIs(p) /\ p.at \in {"reading", "writing"},
           CallBecomes(q, next), CallRests(<<rows, bound, doubtful, leaked, chosen, shownKey>>),
           \A p \in next : Alone(q) => Knows(p, rows[q.of])
    PROVE  InstancesInv'
  <1>1. UNCHANGED <<rows, bound, doubtful, leaked, chosen, shownKey, loaded, issued, fresh, overlaid>> /\ requests' = (requests \ {q}) \cup next
    BY DEF CallRests, CallBecomes
  <1>2. /\ requests' \subseteq CallSet /\ \A p \in requests' : CallIs(p)
        /\ CallsKnow'
        /\ ~doubtful' \/ ~leaked' => \A p, p1 \in requests' : p = p1
    BY <1>1, CallMoves
  <1>3. InstancesTyped'
    BY <1>1, <1>2 DEF InstancesInv, InstancesTyped
  <1>4. InTurn'
    <2>1. Mixed(rows)' <=> Mixed(rows)
      BY <1>1 DEF Mixed
    <2> QED BY <1>1, <1>2, <2>1 DEF InstancesInv, InTurn
  <1>5. EnabledAreBound'
    <2>1. \A i \in Instances : (Enabled(i)' <=> Enabled(i)) /\ (BoundAs(bound, rows[i])' <=> BoundAs(bound, rows[i]))
      BY <1>1 DEF Enabled, Exists, BoundAs
    <2>2. \A p \in requests' : p \in requests \/ p.at \notin PastWriting
      BY <1>1 DEF PastWriting
    <2>3. ASSUME NEW i \in Instances, \A p \in requests' : p.of = i => p.at \notin PastWriting
          PROVE  \A p \in requests : p.of = i => p.at \notin PastWriting
      BY <1>1, <2>3 DEF PastWriting
    <2> QED BY <1>1, <2>1, <2>2, <2>3 DEF InstancesInv, EnabledAreBound, PastWriting
  <1>6. BoundOnlyIfAsked'
    <2>1. \A i \in Instances : Enabled(i)' <=> Enabled(i)
      BY <1>1 DEF Enabled, Exists
    <2>2. ASSUME NEW s, NEW p \in requests, Owes(p, s) PROVE p \in requests'
      BY <1>1, <2>2 DEF Owes
    <2> QED BY <1>1, <2>1, <2>2 DEF InstancesInv, BoundOnlyIfAsked, InUse, Owes, LeavesScope
  <1>7. RowsAreAsChosen'
    BY <1>1 DEF InstancesInv, RowsAreAsChosen
  <1>8. FreshIsBound'
    BY <1>1 DEF InstancesInv, FreshIsBound
  <1> QED BY <1>2, <1>3, <1>4, <1>5, <1>6, <1>7, <1>8 DEF InstancesInv

LEMMA ResolvesCall == ASSUME InstancesInv, NEW q \in requests, Resolve(q) PROVE InstancesInv'
  <1>1. q.at = "resolving" /\ CallRests(<<rows, bound, doubtful, leaked, chosen, shownKey>>)
    BY DEF Resolve
  <1>2. q \in CallSet /\ CallIs(q) /\ rows[q.of] \in RowSet /\ (rows[q.of].enabled => rows[q.of].scope # "none")
    BY DEF InstancesInv, InstancesTyped, CallSet
  <1>3. CASE CallBecomes(q, {})
    BY <1>1, <1>3, ReadsOn
  <1>4. CASE /\ ~(Exists(q.of) <=> q.kind = "create")
             /\ CallBecomes(q, {[q EXCEPT !.from = rows[q.of].scope, !.copy = rows[q.of],
                                          !.at = IF q.kind \in {"create", "remove"} THEN "writing" ELSE "reading"]})
    <2>1. PICK at : at = IF q.kind \in {"create", "remove"} THEN "writing" ELSE "reading"
      OBVIOUS
    <2>2. PICK r : r = rows[q.of]
      OBVIOUS
    <2>3. PICK q1 : q1 = [q EXCEPT !.from = r.scope, !.copy = r, !.at = at]
      OBVIOUS
    <2>4. /\ q1 \in CallSet /\ q1.of = q.of /\ q1.kind = q.kind /\ q1.at = at /\ q1.from = r.scope /\ q1.copy = r
          /\ q1.config = q.config /\ q1.scope = q.scope
      <3>1. r.scope \in Scopes \cup {"all", "none"} /\ r \in RowSet
        BY <1>2, <2>2 DEF RowSet
      <3> QED BY <1>2, <2>1, <2>3, <3>1 DEF CallSet
    <2>5. at \in {"reading", "writing"} /\ (at = "writing" => q.kind \in {"create", "remove"})
      BY <2>1
    <2>6. CallIs(q1)
      BY <1>2, <1>4, <2>2, <2>4, <2>5 DEF CallIs, PastWriting, Exists
    <2>7. Knows(q1, rows[q.of])
      BY <1>4, <2>2, <2>4, <2>5 DEF Knows, PastWriting, Exists
    <2>8. CallBecomes(q, {q1})
      BY <1>4, <2>1, <2>2, <2>3
    <2> QED BY <1>1, <2>4, <2>5, <2>6, <2>7, <2>8, ReadsOn
  <1>5. q.kind \in {"create", "regenerate", "remove", "patch"}
    BY <1>2 DEF CallSet
  <1> QED BY <1>3, <1>4 DEF Resolve, Exists

LEMMA RereadStep == ASSUME InstancesInv, NEW q \in requests, Reread(q) PROVE InstancesInv'
  <1>1. q.at = "reading" /\ CallRests(<<rows, bound, doubtful, leaked, chosen, shownKey>>)
    BY DEF Reread
  <1>2. q \in CallSet /\ CallIs(q) /\ rows[q.of] \in RowSet /\ (rows[q.of].enabled => rows[q.of].scope # "none")
    BY DEF InstancesInv, InstancesTyped, CallSet
  <1>3. CASE CallBecomes(q, {})
    BY <1>1, <1>3, ReadsOn
  <1>4. CASE Exists(q.of) /\ CallBecomes(q, {[q EXCEPT !.copy = rows[q.of], !.at = "writing"]})
    <2>1. PICK r : r = rows[q.of]
      OBVIOUS
    <2>2. PICK q1 : q1 = [q EXCEPT !.copy = r, !.at = "writing"]
      OBVIOUS
    <2>3. /\ q1 \in CallSet /\ q1.of = q.of /\ q1.kind = q.kind /\ q1.at = "writing" /\ q1.from = q.from /\ q1.copy = r
          /\ q1.config = q.config /\ q1.scope = q.scope
      BY <1>2, <2>1, <2>2 DEF CallSet
    <2>4. CallIs(q1)
      BY <1>1, <1>2, <1>4, <2>1, <2>3 DEF CallIs, PastWriting, Exists
    <2>5. ASSUME Alone(q) PROVE Knows(q1, rows[q.of])
      <3>1. Knows(q, rows[q.of])
        BY <2>5 DEF InstancesInv, CallsKnow, KnowsItsRow
      <3> QED BY <1>1, <2>1, <2>3, <3>1 DEF Knows, PastWriting
    <2>6. CallBecomes(q, {q1})
      BY <1>4, <2>1, <2>2
    <2> QED BY <1>1, <2>3, <2>4, <2>5, <2>6, ReadsOn
  <1> QED BY <1>3, <1>4 DEF Reread

\* What a call makes of a row.
LEMMA ChangedTyped ==
    ASSUME InstancesInv, NEW q \in requests, q.at = "writing", NEW r, r = Changed(q)
    PROVE  /\ r \in RowSet /\ (r.enabled => r.scope # "none")
           /\ q.kind = "create" => r.enabled /\ r.scope # "none" /\ r.config = q.config /\ r.key = q.number
           /\ q.kind = "remove" => r = NoInstance
           /\ q.kind = "regenerate" => r.scope = q.copy.scope /\ r.enabled = q.copy.enabled /\ r.config = q.copy.config /\ r.key = q.number
           /\ q.kind = "patch" => /\ r.key = q.copy.key /\ r.scope # "none"
                                  /\ r.config = IF q.config \in {"same", "masked"} THEN q.copy.config ELSE q.config
  <1>1. q \in CallSet /\ CallIs(q) /\ q.copy \in RowSet
    BY DEF InstancesInv, InstancesTyped, CallSet
  <1>2. CASE q.kind = "create"
    <2>1. r = [scope |-> q.scope, enabled |-> TRUE, config |-> q.config, key |-> q.number]
      BY <1>2 DEF Changed
    <2>2. q.scope \in Scopes \cup {"all"} /\ q.config \in Secrets \cup {"empty"} /\ q.number \in 0 .. MaxCalls
      BY <1>1, <1>2 DEF CallSet, CallIs
    <2> QED BY <1>2, <2>1, <2>2, ScopesApart DEF RowSet
  <1>3. CASE q.kind = "remove"
    BY <1>3, NoInstanceTyped DEF Changed
  <1>4. CASE q.kind = "regenerate"
    <2>1. r = [q.copy EXCEPT !.key = q.number]
      BY <1>4 DEF Changed
    <2>2. q.number \in 0 .. MaxCalls /\ q.copy.scope # "none"
      BY <1>1, <1>4 DEF CallSet, CallIs
    <2> QED BY <1>1, <1>4, <2>1, <2>2 DEF RowSet
  <1>5. CASE q.kind = "patch"
    <2>1. PICK enabled : enabled = IF q.enable = "same" THEN q.copy.enabled ELSE q.enable = "on"
      OBVIOUS
    <2>2. PICK scope : scope = IF q.scope = "same" THEN q.copy.scope ELSE q.scope
      OBVIOUS
    <2>3. PICK config : config = IF q.config = "same" THEN q.copy.config ELSE Restore(q.config, q.copy.config)
      OBVIOUS
    <2>4. q.copy.scope # "none"
      BY <1>1, <1>5 DEF CallIs
    <2>5. enabled \in BOOLEAN
      BY <1>1, <2>1 DEF RowSet
    <2>6. scope \in Scopes \cup {"all", "none"} /\ scope # "none"
      BY <1>1, <2>2, <2>4, ScopesApart DEF RowSet, CallSet
    <2>7. config \in Secrets \cup {"empty"} /\ config = IF q.config \in {"same", "masked"} THEN q.copy.config ELSE q.config
      BY <1>1, <2>3 DEF RowSet, CallSet, Restore
    <2>8. r = [q.copy EXCEPT !.enabled = enabled, !.scope = scope, !.config = config]
      BY <1>5, <2>1, <2>2, <2>3 DEF Changed
    <2>9. r \in RowSet /\ r.enabled = enabled /\ r.scope = scope /\ r.config = config /\ r.key = q.copy.key
      BY <1>1, <2>5, <2>6, <2>7, <2>8 DEF RowSet
    <2> QED BY <1>5, <2>6, <2>7, <2>9
  <1>6. q.kind \in {"create", "regenerate", "remove", "patch"}
    BY <1>1 DEF CallSet
  <1> QED BY <1>2, <1>3, <1>4, <1>5, <1>6

LEMMA WriteStep == ASSUME InstancesInv, NEW q \in requests, Write(q) PROVE InstancesInv'
  <1>1. PICK r1 : r1 = Changed(q)
    OBVIOUS
  <1>2. PICK i : i = q.of
    OBVIOUS
  <1>3. PICK next : next = IF q.kind = "regenerate" THEN {} ELSE {[q EXCEPT !.copy = r1, !.at = "binding"]}
    OBVIOUS
  <1>4. PICK c : c = IF q.kind = "remove" THEN "empty" ELSE IF q.config \in {"same", "masked"} THEN chosen[i] ELSE q.config
    OBVIOUS
  <1>5. PICK k : k = IF q.kind = "remove" THEN 0 ELSE IF q.kind \in {"create", "regenerate"} THEN q.number ELSE shownKey[i]
    OBVIOUS
  <1>6. /\ q.at = "writing"
        /\ rows' = [rows EXCEPT ![i] = r1] /\ CallBecomes(q, next) /\ requests' = (requests \ {q}) \cup next
        /\ chosen' = [chosen EXCEPT ![i] = c] /\ shownKey' = [shownKey EXCEPT ![i] = k]
        /\ UNCHANGED <<bound, loaded, issued, fresh, overlaid>>
    BY <1>1, <1>2, <1>3, <1>4, <1>5 DEF Write, CallRests, CallBecomes
  <1>7. /\ doubtful => doubtful'
        /\ leaked => leaked'
        /\ Mixed(rows)' => doubtful' /\ leaked'
    BY DEF Write, Doubts, Leaks, Mixed
  <1>8. q \in CallSet /\ CallIs(q) /\ i \in Instances /\ rows \in [Instances -> RowSet] /\ DOMAIN chosen = Instances /\ DOMAIN shownKey = Instances
    BY <1>2 DEF InstancesInv, InstancesTyped, CallSet
  <1>9. /\ r1 \in RowSet /\ (r1.enabled => r1.scope # "none")
        /\ q.kind = "create" => r1.enabled /\ r1.scope # "none" /\ r1.config = q.config /\ r1.key = q.number
        /\ q.kind = "remove" => r1 = NoInstance
        /\ q.kind = "regenerate" => r1.scope = q.copy.scope /\ r1.enabled = q.copy.enabled /\ r1.config = q.copy.config /\ r1.key = q.number
        /\ q.kind = "patch" => /\ r1.key = q.copy.key /\ r1.scope # "none"
                               /\ r1.config = IF q.config \in {"same", "masked"} THEN q.copy.config ELSE q.config
    BY <1>1, <1>6, ChangedTyped
  <1>10. rows' \in [Instances -> RowSet] /\ rows'[i] = r1 /\ \A j \in Instances : j # i => rows'[j] = rows[j]
    BY <1>6, <1>8, <1>9
  <1>11. q.kind \in {"create", "regenerate", "remove", "patch"}
    BY <1>8 DEF CallSet
  <1>12. ASSUME NEW p \in next
         PROVE  /\ p \in CallSet /\ q.kind # "regenerate" /\ CallIs(p)
                /\ p.of = i /\ p.kind = q.kind /\ p.copy = r1 /\ p.at = "binding" /\ p.from = q.from
    <2>1. p = [q EXCEPT !.copy = r1, !.at = "binding"] /\ q.kind # "regenerate"
      BY <1>3
    <2>2. p \in CallSet /\ p.of = i /\ p.kind = q.kind /\ p.copy = r1 /\ p.at = "binding" /\ p.from = q.from /\ p.config = q.config /\ p.scope = q.scope
      BY <1>2, <1>8, <1>9, <2>1 DEF CallSet, PastWriting
    <2>3. CallIs(p)
      BY <1>6, <1>8, <1>9, <2>1, <2>2, NoInstanceTyped DEF CallIs, PastWriting
    <2> QED BY <2>1, <2>2, <2>3
  <1>13. /\ requests' \subseteq CallSet /\ \A p \in requests' : CallIs(p)
         /\ CallsKnow'
         /\ ~doubtful' \/ ~leaked' => \A p, p1 \in requests' : p = p1
    <2>1. \A p \in next : Knows(p, rows'[q.of])
      BY <1>2, <1>10, <1>12 DEF Knows, PastWriting
    <2>2. next \in SUBSET CallSet /\ \A p, p1 \in next : p = p1
      BY <1>3, <1>12
    <2> QED BY <1>2, <1>6, <1>7, <1>10, <1>12, <2>1, <2>2, CallMoves
  <1>14. InstancesTyped'
    <2>1. \A j \in Instances : rows'[j].enabled => rows'[j].scope # "none"
      BY <1>9, <1>10 DEF InstancesInv, InstancesTyped
    <2>2. DOMAIN chosen' = Instances /\ DOMAIN shownKey' = Instances
      BY <1>6, <1>8
    <2> QED BY <1>6, <1>10, <1>13, <2>1, <2>2 DEF InstancesInv, InstancesTyped
  <1>15. InTurn'
    <2>1. ~doubtful' \/ ~leaked' => ~Mixed(rows)'
      BY <1>7
    <2> QED BY <1>13, <2>1 DEF InTurn
  <1>16. Alone(q) => Knows(q, rows[i])
    BY <1>2 DEF InstancesInv, CallsKnow, KnowsItsRow
  <1>17. ~doubtful \/ ~leaked => Alone(q) /\ \A p \in requests : p = q
    BY DEF InstancesInv, InTurn, Alone
  <1>18. EnabledAreBound'
    <2>1. ASSUME ~doubtful', NEW j \in Instances, Enabled(j)', \A p \in requests' : p.of = j => p.at \notin PastWriting
          PROVE  BoundAs(bound', rows'[j])
      <3>1. ~doubtful /\ Alone(q) /\ \A p \in requests : p = q
        BY <1>7, <1>17, <2>1
      <3>2. \A p \in requests : p.at \notin PastWriting
        BY <1>6, <3>1 DEF PastWriting
      <3>3. Enabled(j) => BoundAs(bound, rows[j])
        BY <3>1, <3>2 DEF InstancesInv, EnabledAreBound
      <3>4. CASE j # i
        <4>1. rows'[j] = rows[j] /\ Enabled(j)
          BY <1>10, <2>1, <3>4 DEF Enabled, Exists
        <4> QED BY <1>6, <3>3, <4>1
      <3>5. CASE j = i
        <4>1. next = {}
          <5>1. \A p \in next : p \in requests' /\ p.of = j /\ p.at \in PastWriting
            BY <1>6, <1>12, <3>5 DEF PastWriting
          <5> QED BY <2>1, <5>1
        <4>2. q.kind = "regenerate"
          BY <1>3, <4>1
        <4>3. q.copy = rows[i]
          BY <1>6, <1>16, <3>1, <4>2 DEF Knows
        <4>4. r1.scope = rows[i].scope /\ r1.enabled = rows[i].enabled /\ r1.config = rows[i].config
          BY <1>9, <4>2, <4>3
        <4>5. Enabled(i)
          BY <1>10, <2>1, <3>5, <4>4 DEF Enabled, Exists
        <4>6. BoundAs(bound, rows[i])
          BY <3>3, <3>5, <4>5
        <4> QED BY <1>6, <1>10, <3>5, <4>4, <4>6 DEF BoundAs
      <3> QED BY <3>4, <3>5
    <2>2. ASSUME ~doubtful', NEW p \in requests' PROVE p.at \notin {"leaving", "retiring"}
      <3>1. \A p1 \in requests : p1 = q
        BY <1>7, <1>17, <2>2
      <3> QED BY <1>6, <1>12, <3>1
    <2> QED BY <2>1, <2>2 DEF EnabledAreBound
  <1>19. BoundOnlyIfAsked'
    <2>1. ASSUME ~leaked', NEW s \in Scopes, InUse(bound', s)
          PROVE  \/ \E j \in Instances : Enabled(j)' /\ rows'[j].scope = s
                 \/ \E p \in requests' : Owes(p, s)
      <3>1. ~leaked /\ Alone(q) /\ \A p \in requests : p = q
        BY <1>7, <1>17, <2>1
      <3>2. ~Owes(q, s)
        BY <1>6 DEF Owes
      <3>3. PICK j \in Instances : Enabled(j) /\ rows[j].scope = s
        BY <1>6, <2>1, <3>1, <3>2 DEF InstancesInv, BoundOnlyIfAsked
      <3>4. CASE j # i
        BY <1>10, <3>3, <3>4 DEF Enabled, Exists
      <3>5. CASE j = i
        <4>1. s # "none" /\ rows[i].scope = s /\ rows[i].enabled
          BY <3>3, <3>5, ScopesApart DEF Enabled
        <4>2. q.kind # "create" /\ q.from = s
          BY <1>6, <1>16, <3>1, <4>1 DEF Knows
        <4>3. CASE q.kind = "regenerate"
          <5>1. q.copy = rows[i]
            BY <1>6, <1>16, <3>1, <4>3 DEF Knows
          <5>2. rows'[i].scope = s /\ rows'[i].enabled
            BY <1>9, <1>10, <4>1, <4>3, <5>1
          <5> QED BY <1>8, <4>1, <5>2 DEF Enabled, Exists
        <4>4. CASE q.kind # "regenerate"
          <5>1. PICK p \in next : TRUE
            BY <1>3, <4>4
          <5>2. p \in requests' /\ p.at = "binding" /\ p.copy = r1 /\ p.kind = q.kind /\ p.from = s
            BY <1>6, <1>12, <4>2
          <5>3. CASE r1.scope # s
            BY <4>2, <5>2, <5>3 DEF Owes, LeavesScope
          <5>4. CASE r1.scope = s /\ ~r1.enabled
            <6>1. q.kind # "remove"
              BY <1>9, <4>1, <5>4, NoInstanceTyped
            <6> QED BY <5>2, <5>4, <6>1 DEF Owes
          <5>5. CASE r1.scope = s /\ r1.enabled
            BY <1>8, <1>10, <4>1, <5>5 DEF Enabled, Exists
          <5> QED BY <5>3, <5>4, <5>5
        <4> QED BY <4>3, <4>4
      <3> QED BY <3>4, <3>5
    <2> QED BY <2>1 DEF BoundOnlyIfAsked, InUse, Owes, LeavesScope
  <1>20. RowsAreAsChosen'
    <2>1. ASSUME NEW j \in Instances, j \notin overlaid' PROVE rows'[j].config = chosen'[j] /\ rows'[j].key = shownKey'[j]
      <3>1. j \notin overlaid /\ rows[j].config = chosen[j] /\ rows[j].key = shownKey[j]
        BY <1>6, <2>1 DEF InstancesInv, RowsAreAsChosen
      <3>2. CASE j # i
        BY <1>6, <1>8, <1>10, <3>1, <3>2
      <3>3. CASE j = i
        <4>1. chosen'[j] = c /\ shownKey'[j] = k /\ rows'[j] = r1
          BY <1>6, <1>8, <1>10, <3>3
        <4>2. Knows(q, rows[i])
          BY <1>2, <1>16, <3>1, <3>3 DEF Alone
        <4>3. CASE q.kind = "create"
          BY <1>4, <1>5, <1>8, <1>9, <4>1, <4>3 DEF CallIs
        <4>4. CASE q.kind = "remove"
          BY <1>4, <1>5, <1>9, <4>1, <4>4, NoInstanceTyped
        <4>5. CASE q.kind = "regenerate"
          <5>1. q.copy = rows[i] /\ q.config = "same"
            BY <1>6, <1>8, <4>2, <4>5 DEF Knows, CallIs
          <5> QED BY <1>4, <1>5, <1>9, <3>1, <3>3, <4>1, <4>5, <5>1
        <4>6. CASE q.kind = "patch"
          <5>1. q.copy = rows[i]
            BY <1>6, <4>2, <4>6 DEF Knows
          <5> QED BY <1>4, <1>5, <1>9, <3>1, <3>3, <4>1, <4>6, <5>1
        <4> QED BY <1>11, <4>3, <4>4, <4>5, <4>6
      <3> QED BY <3>2, <3>3
    <2> QED BY <2>1 DEF RowsAreAsChosen
  <1>21. FreshIsBound'
    BY <1>6 DEF InstancesInv, FreshIsBound
  <1> QED BY <1>13, <1>14, <1>15, <1>18, <1>19, <1>20, <1>21 DEF InstancesInv

\* An unbinding takes nothing from a row that is bound elsewhere, and leaves nothing in use.
LEMMA UnbindKeeps ==
    ASSUME NEW b \in BoundSet, NEW s \in Scopes, NEW b1, b1 = Unbind(b, s)
    PROVE  /\ b1 \in BoundSet
           /\ \A t \in Scopes : InUse(b1, t) => t # s /\ InUse(b, t)
           /\ \A r \in RowSet : r.scope \notin {s, "all", "none"} /\ BoundAs(b, r) => BoundAs(b1, r)
  <1>1. b1 \in BoundSet /\ b1.own = [b.own EXCEPT ![s] = "empty"] /\ b1.active = b.active \ {"all", s}
    BY UnbindOne
  <1>2. b.own \in [Scopes -> Secrets \cup {"empty"}]
    BY DEF BoundSet
  <1>3. ASSUME NEW t \in Scopes, InUse(b1, t) PROVE t # s /\ InUse(b, t)
    BY <1>1, <1>2, <1>3 DEF InUse
  <1>4. ASSUME NEW r \in RowSet, r.scope \notin {s, "all", "none"}, BoundAs(b, r) PROVE BoundAs(b1, r)
    <2>1. r.scope \in Scopes
      BY <1>4 DEF RowSet
    <2> QED BY <1>1, <1>2, <1>4, <2>1 DEF BoundAs
  <1> QED BY <1>1, <1>3, <1>4

\* The row r is out of the way of the sessions the call q unbinds.
Spared(q, r) == Left(q) # {} => r.scope \notin Left(q) \cup {"all"}

\* What becomes of the binding when a call leaves the scope it came from ...
LEMMA LeavingKeeps ==
    ASSUME InstancesInv, NEW q \in requests, q.at \in PastWriting, NEW b1, b1 = AfterLeaving(q, bound)
    PROVE  /\ b1 \in BoundSet
           /\ \A s \in Scopes : InUse(b1, s) => InUse(bound, s) /\ ~(LeavesScope(q) /\ q.from = s)
           /\ \A r \in RowSet : r.scope # "none" /\ Spared(q, r) /\ BoundAs(bound, r) => BoundAs(b1, r)
  <1>1. bound \in BoundSet /\ q \in CallSet /\ CallIs(q)
    BY DEF InstancesInv, InstancesTyped
  <1>2. CASE LeavesScope(q) /\ q.from # "all"
    <2>1. q.from \in Scopes
      <3>1. q.from # "none"
        BY <1>1, <1>2 DEF CallIs, LeavesScope, PastWriting
      <3> QED BY <1>1, <1>2, <3>1 DEF CallSet
    <2>2. b1 = Unbind(bound, q.from)
      BY <1>2 DEF AfterLeaving
    <2>3. q.from \in Left(q)
      BY <1>2, <2>1 DEF Left
    <2>4. \A r : Spared(q, r) => r.scope \notin {q.from, "all"}
      BY <2>3 DEF Spared
    <2> QED BY <1>1, <2>1, <2>2, <2>4, UnbindKeeps
  <1>3. CASE ~(LeavesScope(q) /\ q.from # "all")
    <2>1. b1 = bound
      BY <1>3 DEF AfterLeaving
    <2> QED BY <1>1, <1>3, <2>1, ScopesApart
  <1> QED BY <1>2, <1>3

\* ... and when it binds the one it is in now, or lets go of it.
LEMMA BindingKeeps ==
    ASSUME InstancesInv, NEW q \in requests, q.at \in PastWriting, ~MustList(q), NEW b \in BoundSet, NEW b1, b1 = AfterBinding(q, b)
    PROVE  /\ b1 \in BoundSet
           /\ \A s \in Scopes : InUse(b1, s) => \/ StaysEnabled(q) /\ q.copy.scope = s
                                                \/ InUse(b, s) /\ ~(q.kind # "remove" /\ ~q.copy.enabled /\ q.copy.scope = s)
           /\ StaysEnabled(q) => BoundAs(b1, q.copy)
           /\ \A r \in RowSet : /\ r.scope # "none" /\ Spared(q, r) /\ BoundAs(b, r)
                                /\ StaysEnabled(q) => r.scope # q.copy.scope /\ "all" \notin {r.scope, q.copy.scope}
                                => BoundAs(b1, r)
  <1>1. q \in CallSet /\ CallIs(q) /\ q.copy \in RowSet /\ q.copy.config \in Secrets \cup {"empty"} /\ q.copy.scope \in Scopes \cup {"all", "none"}
    BY DEF InstancesInv, InstancesTyped, CallSet, RowSet
  <1>2. CASE q.kind = "remove"
    <2>1. b1 = b /\ ~StaysEnabled(q)
      BY <1>2 DEF AfterBinding, StaysEnabled
    <2> QED BY <1>2, <2>1
  <1>3. CASE StaysEnabled(q)
    <2>1. q.kind # "remove" /\ q.copy.enabled /\ q.copy.scope # "none"
      BY <1>1, <1>3 DEF StaysEnabled, CallIs
    <2>2. PICK s : s = q.copy.scope
      OBVIOUS
    <2>3. PICK c : c = q.copy.config
      OBVIOUS
    <2>4. b1 = Bind(b, s, c)
      BY <1>3, <2>1, <2>2, <2>3 DEF AfterBinding
    <2>5. CASE s = "all"
      <3>1. b1 \in BoundSet /\ b1.own = b.own /\ b1.active = {"all"}
        BY <1>1, <2>3, <2>4, <2>5, BindAll
      <3>2. \A t \in Scopes : InUse(b1, t) => InUse(b, t)
        BY <3>1, ScopesApart DEF InUse
      <3>3. BoundAs(b1, q.copy)
        BY <2>2, <2>5, <3>1 DEF BoundAs
      <3> QED BY <1>3, <2>1, <2>2, <2>5, <3>1, <3>2, <3>3
    <2>6. CASE s # "all"
      <3>1. s \in Scopes
        BY <1>1, <2>1, <2>2, <2>6
      <3>2. b1 \in BoundSet /\ b1.own = [b.own EXCEPT ![s] = c] /\ b1.active = (b.active \ {"all"}) \cup {s}
        BY <1>1, <2>3, <2>4, <3>1, BindOne
      <3>3. b.own \in [Scopes -> Secrets \cup {"empty"}]
        BY DEF BoundSet
      <3>4. \A t \in Scopes : InUse(b1, t) => t = s \/ InUse(b, t)
        BY <3>2, <3>3 DEF InUse
      <3>5. BoundAs(b1, q.copy)
        BY <2>2, <2>3, <2>6, <3>1, <3>2, <3>3 DEF BoundAs
      <3>6. ASSUME NEW r \in RowSet, r.scope # "none", r.scope # "all", r.scope # s, BoundAs(b, r) PROVE BoundAs(b1, r)
        <4>1. r.scope \in Scopes
          BY <3>6 DEF RowSet
        <4> QED BY <3>2, <3>3, <3>6, <4>1 DEF BoundAs
      <3> QED BY <1>3, <2>1, <2>2, <3>2, <3>4, <3>5, <3>6
    <2> QED BY <2>5, <2>6
  <1>4. CASE q.kind # "remove" /\ ~StaysEnabled(q)
    <2>1. ~q.copy.enabled /\ q.copy.scope # "all"
      BY <1>4 DEF StaysEnabled, MustList
    <2>2. q.copy.scope # "none"
      BY <1>1, <1>4, <2>1 DEF CallIs, CallSet, PastWriting
    <2>3. PICK s : s = q.copy.scope
      OBVIOUS
    <2>4. s \in Scopes /\ s \in Left(q)
      BY <1>1, <1>4, <2>1, <2>2, <2>3 DEF Left
    <2>5. b1 = Unbind(b, s)
      BY <1>4, <2>1, <2>3 DEF AfterBinding
    <2>6. \A r : Spared(q, r) => r.scope \notin {s, "all"}
      BY <2>4 DEF Spared
    <2>7. /\ b1 \in BoundSet
          /\ \A t \in Scopes : InUse(b1, t) => t # s /\ InUse(b, t)
          /\ \A r \in RowSet : r.scope \notin {s, "all", "none"} /\ BoundAs(b, r) => BoundAs(b1, r)
      BY <2>4, <2>5, UnbindKeeps
    <2> QED BY <1>4, <2>3, <2>6, <2>7
  <1> QED BY <1>2, <1>3, <1>4

\* A step that leaves the rows alone leaves them chosen, shown and enabled as they were.
LEMMA RowsRest ==
    ASSUME InstancesInv, UNCHANGED <<rows, chosen, shownKey, overlaid>>
    PROVE  /\ RowsAreAsChosen'
           /\ \A i \in Instances : Enabled(i)' <=> Enabled(i)
           /\ Mixed(rows)' <=> Mixed(rows)
  BY DEF InstancesInv, RowsAreAsChosen, Enabled, Exists, Mixed

\* The row of the only call, when nobody doubts what is bound.
LEMMA OnlyCall ==
    ASSUME InstancesInv, NEW q \in requests, ~doubtful \/ ~leaked
    PROVE  /\ \A p \in requests : p = q
           /\ Knows(q, rows[q.of]) /\ Alone(q) /\ ~Mixed(rows)
           /\ q.of \in Instances /\ q \in CallSet /\ CallIs(q)
           /\ \A i \in Instances : rows[i] \in RowSet
  BY DEF InstancesInv, InTurn, CallsKnow, KnowsItsRow, Alone, InstancesTyped, CallSet

LEMMA ApplyStep == ASSUME InstancesInv, NEW q \in requests, Apply(q) PROVE InstancesInv'
  <1>1. /\ q.at \in PastWriting /\ ~MustList(q) /\ q.at \in {"binding", "bound"}
        /\ bound' = IF loaded THEN AfterBinding(q, AfterLeaving(q, bound)) ELSE bound
        /\ CallBecomes(q, {}) /\ requests' = requests \ {q}
        /\ UNCHANGED <<rows, chosen, shownKey, loaded, issued, fresh, overlaid>>
    BY DEF Apply, CallRests, CallBecomes, PastWriting
  <1>2. /\ doubtful => doubtful'
        /\ ~doubtful' => loaded /\ ~Robs(q)
        /\ leaked => leaked'
        /\ ~leaked' => loaded \/ ~Unbinds(q)
    BY DEF Apply
  <1>3. PICK b : b = AfterLeaving(q, bound)
    OBVIOUS
  <1>4. PICK b1 : b1 = AfterBinding(q, b)
    OBVIOUS
  <1>5. /\ b \in BoundSet
        /\ \A s \in Scopes : InUse(b, s) => InUse(bound, s) /\ ~(LeavesScope(q) /\ q.from = s)
        /\ \A r \in RowSet : r.scope # "none" /\ Spared(q, r) /\ BoundAs(bound, r) => BoundAs(b, r)
    BY <1>1, <1>3, LeavingKeeps
  <1>6. /\ b1 \in BoundSet
        /\ \A s \in Scopes : InUse(b1, s) => \/ StaysEnabled(q) /\ q.copy.scope = s
                                             \/ InUse(b, s) /\ ~(q.kind # "remove" /\ ~q.copy.enabled /\ q.copy.scope = s)
        /\ StaysEnabled(q) => BoundAs(b1, q.copy)
        /\ \A r \in RowSet : /\ r.scope # "none" /\ Spared(q, r) /\ BoundAs(b, r)
                             /\ StaysEnabled(q) => r.scope # q.copy.scope /\ "all" \notin {r.scope, q.copy.scope}
                             => BoundAs(b1, r)
    BY <1>1, <1>4, <1>5, BindingKeeps
  <1>7. bound' = IF loaded THEN b1 ELSE bound
    BY <1>1, <1>3, <1>4
  <1>8. /\ requests' \subseteq CallSet /\ \A p \in requests' : CallIs(p)
        /\ CallsKnow'
        /\ ~doubtful' \/ ~leaked' => \A p, p1 \in requests' : p = p1
    BY <1>1, <1>2, CallMoves
  <1>9. /\ RowsAreAsChosen'
        /\ \A i \in Instances : Enabled(i)' <=> Enabled(i)
        /\ Mixed(rows)' <=> Mixed(rows)
    BY <1>1, RowsRest
  <1>10. InstancesTyped'
    <2>1. bound' \in BoundSet
      BY <1>6, <1>7 DEF InstancesInv, InstancesTyped
    <2> QED BY <1>1, <1>8, <2>1 DEF InstancesInv, InstancesTyped
  <1>11. InTurn'
    BY <1>2, <1>8, <1>9 DEF InstancesInv, InTurn
  <1>12. EnabledAreBound'
    <2>1. ASSUME ~doubtful', NEW j \in Instances, Enabled(j)' PROVE BoundAs(bound, rows[j])'
      <3>1. bound' = b1 /\ Enabled(j) /\ rows'[j] = rows[j] /\ ~Robs(q)
        BY <1>1, <1>2, <1>7, <1>9, <2>1
      <3>2. /\ \A p \in requests : p = q
            /\ Knows(q, rows[q.of]) /\ ~Mixed(rows) /\ CallIs(q)
            /\ q.of \in Instances /\ rows[j] \in RowSet
        BY <1>2, <2>1, OnlyCall
      <3>3. q.copy = rows[q.of]
        BY <1>1, <3>2 DEF Knows
      <3>4. CASE j = q.of
        <4>1. StaysEnabled(q)
          BY <1>1, <3>1, <3>2, <3>3, <3>4 DEF StaysEnabled, Enabled, CallIs
        <4> QED BY <1>6, <3>1, <3>3, <3>4, <4>1 DEF BoundAs
      <3>5. CASE j # q.of
        <4>1. BoundAs(bound, rows[j])
          BY <1>2, <2>1, <3>1, <3>2, <3>5 DEF InstancesInv, EnabledAreBound
        <4>2. rows[j].scope # "none" /\ rows[j].enabled
          BY <3>1 DEF Enabled, Exists
        <4>3. Spared(q, rows[j])
          BY <3>1, <3>5 DEF Robs, Spared
        <4>4. BoundAs(b, rows[j])
          BY <1>5, <3>2, <4>1, <4>2, <4>3
        <4>5. StaysEnabled(q) => rows[j].scope # q.copy.scope /\ "all" \notin {rows[j].scope, q.copy.scope}
          BY <3>2, <3>3, <3>5, <4>2 DEF Mixed, StaysEnabled
        <4>6. BoundAs(b1, rows[j])
          BY <1>6, <3>2, <4>2, <4>3, <4>4, <4>5
        <4> QED BY <3>1, <4>6 DEF BoundAs
      <3> QED BY <3>4, <3>5
    <2>2. ASSUME ~doubtful', NEW p \in requests' PROVE FALSE
      BY <1>1, <1>2, <2>2, OnlyCall
    <2> QED BY <2>1, <2>2 DEF EnabledAreBound
  <1>13. BoundOnlyIfAsked'
    <2>1. ASSUME ~leaked', NEW s \in Scopes, InUse(bound', s) PROVE \E i \in Instances : Enabled(i)' /\ rows'[i].scope = s
      <3>1. /\ \A p \in requests : p = q
            /\ Knows(q, rows[q.of]) /\ q.of \in Instances /\ ~leaked
        BY <1>2, <2>1, OnlyCall
      <3>2. q.copy = rows[q.of]
        BY <1>1, <3>1 DEF Knows
      <3>3. CASE StaysEnabled(q) /\ q.copy.scope = s /\ loaded
        <4>1. Enabled(q.of) /\ rows[q.of].scope = s
          BY <3>2, <3>3, ScopesApart DEF StaysEnabled, Enabled, Exists
        <4> QED BY <1>1, <1>9, <3>1, <4>1
      <3>4. CASE ~(StaysEnabled(q) /\ q.copy.scope = s /\ loaded)
        <4>1. InUse(bound, s) /\ ~Owes(q, s)
          <5>1. CASE loaded
            <6>1. InUse(b, s) /\ ~(q.kind # "remove" /\ ~q.copy.enabled /\ q.copy.scope = s)
              BY <1>6, <1>7, <2>1, <3>4, <5>1
            <6>2. InUse(bound, s) /\ ~(LeavesScope(q) /\ q.from = s)
              BY <1>5, <6>1
            <6> QED BY <6>1, <6>2 DEF Owes
          <5>2. CASE ~loaded
            BY <1>2, <1>7, <2>1, <5>2 DEF Owes, Unbinds, StaysEnabled
          <5> QED BY <5>1, <5>2
        <4>2. \E i \in Instances : Enabled(i) /\ rows[i].scope = s
          BY <3>1, <4>1 DEF InstancesInv, BoundOnlyIfAsked
        <4> QED BY <1>1, <1>9, <4>2
      <3> QED BY <3>3, <3>4
    <2> QED BY <2>1 DEF BoundOnlyIfAsked, InUse
  <1>14. FreshIsBound'
    BY <1>1 DEF InstancesInv, FreshIsBound
  <1> QED BY <1>8, <1>9, <1>10, <1>11, <1>12, <1>13, <1>14 DEF InstancesInv

LEMMA ListStep == ASSUME InstancesInv, NEW q \in requests, List(q) PROVE InstancesInv'
  <1>1. PICK at : at = IF LeavesScope(q) /\ q.from = "all" /\ q.at = "binding" THEN "leaving" ELSE "retiring"
    OBVIOUS
  <1>2. PICK left : left = (\E i \in Instances : Enabled(i) /\ rows[i].scope = "all")
    OBVIOUS
  <1>3. PICK q1 : q1 = [q EXCEPT !.at = at, !.left = left]
    OBVIOUS
  <1>4. PICK b : b = AfterLeaving(q, bound)
    OBVIOUS
  <1>5. /\ q.at \in {"binding", "bound"} /\ q.at \in PastWriting /\ MustList(q)
        /\ CallBecomes(q, {q1}) /\ requests' = (requests \ {q}) \cup {q1}
        /\ bound' = IF loaded THEN b ELSE bound
        /\ UNCHANGED <<rows, chosen, shownKey, loaded, issued, fresh, overlaid>>
    BY <1>1, <1>2, <1>3, <1>4 DEF List, CallRests, CallBecomes, PastWriting
  <1>6. /\ doubtful => doubtful'
        /\ ~doubtful' => ~Robs(q)
        /\ leaked => leaked'
        /\ ~leaked' => loaded
    BY DEF List
  <1>7. /\ b \in BoundSet
        /\ \A s \in Scopes : InUse(b, s) => InUse(bound, s) /\ ~(LeavesScope(q) /\ q.from = s)
        /\ \A r \in RowSet : r.scope # "none" /\ Spared(q, r) /\ BoundAs(bound, r) => BoundAs(b, r)
    BY <1>4, <1>5, LeavingKeeps
  <1>8. q \in CallSet /\ CallIs(q)
    BY DEF InstancesInv, InstancesTyped
  <1>9. /\ q1 \in CallSet /\ q1.at = at /\ q1.left = left /\ q1.of = q.of /\ q1.kind = q.kind /\ q1.copy = q.copy
        /\ q1.from = q.from /\ q1.config = q.config /\ q1.scope = q.scope
    <2>1. left \in BOOLEAN /\ at \in PastWriting
      BY <1>1, <1>2 DEF PastWriting
    <2> QED BY <1>3, <1>8, <2>1 DEF CallSet
  <1>10. at = "retiring" => q.kind # "remove" /\ ~q.copy.enabled /\ q.copy.scope = "all"
    BY <1>1, <1>5 DEF MustList
  <1>11. CallIs(q1) /\ at \in {"leaving", "retiring"} /\ at \in PastWriting
    <2>1. at \in {"leaving", "retiring"} /\ at \in PastWriting
      BY <1>1 DEF PastWriting
    <2> QED BY <1>5, <1>8, <1>9, <1>10, <2>1 DEF CallIs, PastWriting
  <1>12. /\ requests' \subseteq CallSet /\ \A p \in requests' : CallIs(p)
         /\ CallsKnow'
         /\ ~doubtful' \/ ~leaked' => \A p, p1 \in requests' : p = p1
    <2>1. Alone(q) => Knows(q1, rows'[q.of])
      <3>1. Alone(q) => q.copy = rows[q.of]
        BY <1>5 DEF InstancesInv, CallsKnow, KnowsItsRow, Knows
      <3> QED BY <1>5, <1>9, <1>11, <3>1 DEF Knows, PastWriting
    <2>2. {q1} \in SUBSET CallSet
      BY <1>9
    <2>3. \A i \in Instances : i # q.of => rows'[i] = rows[i]
      BY <1>5
    <2> QED BY <1>5, <1>6, <1>9, <1>11, <2>1, <2>2, <2>3, CallMoves
  <1>13. /\ RowsAreAsChosen'
         /\ \A i \in Instances : Enabled(i)' <=> Enabled(i)
         /\ Mixed(rows)' <=> Mixed(rows)
    BY <1>5, RowsRest
  <1>14. InstancesTyped'
    <2>1. bound' \in BoundSet
      BY <1>5, <1>7 DEF InstancesInv, InstancesTyped
    <2> QED BY <1>5, <1>12, <2>1 DEF InstancesInv, InstancesTyped
  <1>15. InTurn'
    BY <1>6, <1>12, <1>13 DEF InstancesInv, InTurn
  <1>16. EnabledAreBound'
    <2>1. ASSUME ~doubtful', NEW j \in Instances, Enabled(j)', \A p \in requests' : p.of = j => p.at \notin PastWriting
          PROVE  BoundAs(bound, rows[j])'
      <3>1. Enabled(j) /\ rows'[j] = rows[j] /\ ~Robs(q) /\ j # q.of
        BY <1>5, <1>6, <1>9, <1>11, <1>13, <2>1
      <3>2. (\A p \in requests : p = q) /\ rows[j] \in RowSet
        BY <1>6, <2>1, OnlyCall
      <3>3. BoundAs(bound, rows[j])
        BY <1>6, <2>1, <3>1, <3>2 DEF InstancesInv, EnabledAreBound
      <3>4. Spared(q, rows[j]) /\ rows[j].scope # "none"
        BY <3>1 DEF Robs, Spared, Enabled, Exists
      <3>5. BoundAs(b, rows[j])
        BY <1>7, <3>2, <3>3, <3>4
      <3> QED BY <1>5, <3>1, <3>3, <3>5 DEF BoundAs
    <2>2. ASSUME ~doubtful', NEW p \in requests' PROVE p.left <=> \E i \in Instances : Enabled(i)' /\ rows'[i].scope = "all"
      <3>1. p = q1
        BY <1>5, <1>6, <2>2, OnlyCall
      <3> QED BY <1>2, <1>5, <1>9, <1>13, <3>1
    <2> QED BY <2>1, <2>2 DEF EnabledAreBound
  <1>17. BoundOnlyIfAsked'
    <2>1. ASSUME ~leaked', NEW s \in Scopes, InUse(bound', s)
          PROVE  \/ \E i \in Instances : Enabled(i)' /\ rows'[i].scope = s
                 \/ \E p \in requests' : Owes(p, s)
      <3>1. InUse(b, s)
        BY <1>5, <1>6, <2>1
      <3>2. InUse(bound, s) /\ ~(LeavesScope(q) /\ q.from = s)
        BY <1>7, <3>1
      <3>3. CASE \E i \in Instances : Enabled(i) /\ rows[i].scope = s
        BY <1>5, <1>13, <3>3
      <3>4. CASE ~\E i \in Instances : Enabled(i) /\ rows[i].scope = s
        <4>1. Owes(q, s)
          BY <1>6, <2>1, <3>2, <3>4, OnlyCall DEF InstancesInv, BoundOnlyIfAsked
        <4>2. q.kind # "remove" /\ ~q.copy.enabled /\ q.copy.scope = s
          BY <3>2, <4>1 DEF Owes
        <4>3. at = "leaving"
          BY <1>10, <1>11, <4>2, ScopesApart
        <4>4. Owes(q1, s)
          BY <1>9, <4>2, <4>3 DEF Owes
        <4> QED BY <1>5, <4>4
      <3> QED BY <3>3, <3>4
    <2> QED BY <2>1 DEF BoundOnlyIfAsked, InUse, Owes, LeavesScope
  <1>18. FreshIsBound'
    BY <1>5 DEF InstancesInv, FreshIsBound
  <1> QED BY <1>12, <1>13, <1>14, <1>15, <1>16, <1>17, <1>18 DEF InstancesInv

LEMMA DropsStep == ASSUME InstancesInv, NEW q \in requests, Drop(q) PROVE InstancesInv'
  <1>1. PICK next : next = IF q.at = "leaving" /\ q.kind # "remove" THEN {[q EXCEPT !.at = "bound"]} ELSE {}
    OBVIOUS
  <1>2. /\ q.at \in {"leaving", "retiring"} /\ q.at \in PastWriting
        /\ CallBecomes(q, next) /\ requests' = (requests \ {q}) \cup next
        /\ bound' = IF loaded /\ ~q.left THEN RetireAll(bound) ELSE bound
        /\ UNCHANGED <<rows, doubtful, chosen, shownKey, loaded, issued, fresh, overlaid>>
        /\ leaked => leaked'
    BY <1>1 DEF Drop, CallRests, CallBecomes, PastWriting
  <1>3. q \in CallSet /\ CallIs(q) /\ bound \in BoundSet
    BY DEF InstancesInv, InstancesTyped
  <1>4. /\ bound' \in BoundSet /\ bound'.own = bound.own
        /\ bound'.active = IF loaded /\ ~q.left THEN bound.active \ {"all"} ELSE bound.active
    BY <1>2, <1>3, AllRetired
  <1>5. ASSUME NEW p \in next
        PROVE  /\ p \in CallSet /\ CallIs(p) /\ p.of = q.of /\ p.kind = q.kind /\ p.copy = q.copy /\ p.at = "bound"
               /\ q.at = "leaving" /\ q.kind # "remove"
    <2>1. p = [q EXCEPT !.at = "bound"] /\ q.at = "leaving" /\ q.kind # "remove"
      BY <1>1
    <2>2. /\ p \in CallSet /\ p.of = q.of /\ p.kind = q.kind /\ p.copy = q.copy /\ p.at = "bound"
          /\ p.from = q.from /\ p.config = q.config /\ p.scope = q.scope
      BY <1>3, <2>1 DEF CallSet, PastWriting
    <2>3. CallIs(p)
      BY <1>2, <1>3, <2>1, <2>2 DEF CallIs, PastWriting
    <2> QED BY <2>1, <2>2, <2>3
  <1>6. /\ requests' \subseteq CallSet /\ \A p \in requests' : CallIs(p)
        /\ CallsKnow'
        /\ ~doubtful' \/ ~leaked' => \A p, p1 \in requests' : p = p1
    <2>1. ASSUME NEW p \in next, Alone(q) PROVE Knows(p, rows'[q.of])
      <3>1. q.copy = rows[q.of]
        BY <1>2, <2>1 DEF InstancesInv, CallsKnow, KnowsItsRow, Knows
      <3> QED BY <1>2, <1>5, <3>1 DEF Knows, PastWriting
    <2>2. next \in SUBSET CallSet /\ \A p, p1 \in next : p = p1
      BY <1>1, <1>5
    <2>3. \A i \in Instances : i # q.of => rows'[i] = rows[i]
      BY <1>2
    <2>4. UNCHANGED overlaid /\ (doubtful => doubtful')
      BY <1>2
    <2> QED BY <1>2, <1>5, <2>1, <2>2, <2>3, <2>4, CallMoves
  <1>7. /\ RowsAreAsChosen'
        /\ \A i \in Instances : Enabled(i)' <=> Enabled(i)
        /\ Mixed(rows)' <=> Mixed(rows)
    BY <1>2, RowsRest
  <1>8. InstancesTyped'
    BY <1>2, <1>4, <1>6 DEF InstancesInv, InstancesTyped
  <1>9. InTurn'
    BY <1>2, <1>6, <1>7 DEF InstancesInv, InTurn
  <1>10. EnabledAreBound'
    <2>1. ASSUME ~doubtful', NEW j \in Instances, Enabled(j)', \A p \in requests' : p.of = j => p.at \notin PastWriting
          PROVE  BoundAs(bound, rows[j])'
      <3>1. Enabled(j) /\ rows'[j] = rows[j] /\ ~doubtful
        BY <1>2, <1>7, <2>1
      <3>2. (\A p \in requests : p = q) /\ Knows(q, rows[q.of])
        BY <3>1, OnlyCall
      <3>3. j # q.of
        <4>1. ASSUME j = q.of PROVE FALSE
          <5>1. next = {}
            <6>1. \A p \in next : p \in requests' /\ p.of = j /\ p.at \in PastWriting
              BY <1>2, <1>5, <4>1 DEF PastWriting
            <6> QED BY <2>1, <6>1
          <5>2. q.at = "retiring" \/ q.kind = "remove"
            BY <1>1, <1>2, <5>1
          <5>3. ~q.copy.enabled
            BY <1>2, <1>3, <5>2 DEF CallIs
          <5>4. q.copy = rows[j]
            BY <1>2, <3>2, <4>1 DEF Knows
          <5> QED BY <3>1, <5>3, <5>4 DEF Enabled
        <4> QED BY <4>1
      <3>4. BoundAs(bound, rows[j])
        BY <3>1, <3>2, <3>3 DEF InstancesInv, EnabledAreBound
      <3>5. q.left <=> \E i \in Instances : Enabled(i) /\ rows[i].scope = "all"
        BY <1>2, <3>1 DEF InstancesInv, EnabledAreBound
      <3>6. CASE rows[j].scope = "all"
        BY <1>4, <3>1, <3>4, <3>5, <3>6 DEF BoundAs
      <3>7. CASE rows[j].scope # "all"
        BY <1>4, <3>1, <3>4, <3>7 DEF BoundAs
      <3> QED BY <3>6, <3>7
    <2>2. ASSUME ~doubtful', NEW p \in requests' PROVE p.at \notin {"leaving", "retiring"}
      <3>1. \A p1 \in requests : p1 = q
        BY <1>2, <2>2, OnlyCall
      <3> QED BY <1>2, <1>5, <3>1
    <2> QED BY <2>1, <2>2 DEF EnabledAreBound
  <1>11. BoundOnlyIfAsked'
    <2>1. ASSUME ~leaked', NEW s \in Scopes, InUse(bound', s)
          PROVE  \/ \E i \in Instances : Enabled(i)' /\ rows'[i].scope = s
                 \/ \E p \in requests' : Owes(p, s)
      <3>1. InUse(bound, s) /\ ~leaked
        BY <1>2, <1>4, <2>1 DEF InUse
      <3>2. CASE \E i \in Instances : Enabled(i) /\ rows[i].scope = s
        BY <1>2, <1>7, <3>2
      <3>3. CASE ~\E i \in Instances : Enabled(i) /\ rows[i].scope = s
        <4>1. Owes(q, s)
          BY <3>1, <3>3, OnlyCall DEF InstancesInv, BoundOnlyIfAsked
        <4>2. q.at = "leaving" /\ q.kind # "remove" /\ ~q.copy.enabled /\ q.copy.scope = s
          BY <1>2, <4>1 DEF Owes
        <4>3. PICK p \in next : TRUE
          BY <1>1, <4>2
        <4>4. p \in requests' /\ Owes(p, s)
          BY <1>2, <1>5, <4>2, <4>3 DEF Owes
        <4> QED BY <4>4
      <3> QED BY <3>2, <3>3
    <2> QED BY <2>1 DEF BoundOnlyIfAsked, InUse, Owes, LeavesScope
  <1>12. FreshIsBound'
    BY <1>2 DEF InstancesInv, FreshIsBound
  <1> QED BY <1>6, <1>7, <1>8, <1>9, <1>10, <1>11, <1>12 DEF InstancesInv

LEMMA SetsStep ==
    ASSUME InstancesInv, NEW b \in BoundSet, Set(b)
    PROVE  InstancesInv'
  <1>1. /\ bound' = b /\ doubtful' = TRUE /\ leaked' = TRUE /\ fresh' = FALSE /\ issued' = issued + 1 /\ issued < MaxCalls
        /\ UNCHANGED <<rows, loaded, requests, starts, overlaid, chosen, shownKey>>
    BY DEF Set
  <1>2. InstancesTyped'
    BY <1>1, CallsBounded DEF InstancesInv, InstancesTyped
  <1>3. CallsKnow'
    BY <1>1 DEF InstancesInv, CallsKnow, Alone, KnowsItsRow
  <1>4. RowsAreAsChosen'
    BY <1>1, RowsRest
  <1>5. InTurn' /\ EnabledAreBound' /\ BoundOnlyIfAsked' /\ FreshIsBound'
    BY <1>1 DEF InTurn, EnabledAreBound, BoundOnlyIfAsked, FreshIsBound
  <1> QED BY <1>2, <1>3, <1>4, <1>5 DEF InstancesInv

LEMMA SettingsStep ==
    ASSUME InstancesInv, ChooseSessions \/ SaveBase \/ SaveOverride
    PROVE  InstancesInv'
  <1>1. bound \in BoundSet
    BY DEF InstancesInv, InstancesTyped
  <1>2. CASE ChooseSessions
    <2>1. PICK a \in (SUBSET Scopes) \cup {{"all"}} : Set([bound EXCEPT !.active = a])
      BY <1>2 DEF ChooseSessions
    <2>2. PICK b : b = [bound EXCEPT !.active = a]
      OBVIOUS
    <2>3. a \in SUBSET (Scopes \cup {"all"})
      BY <2>1
    <2>4. b \in BoundSet
      BY <1>1, <2>2, <2>3 DEF BoundSet
    <2> QED BY <2>1, <2>2, <2>4, SetsStep
  <1>3. CASE SaveBase
    <2>1. PICK c \in Secrets \cup {"masked"} : Set([bound EXCEPT !.base = Restore(c, @)])
      BY <1>3 DEF SaveBase
    <2>2. PICK k : k = Restore(c, bound.base)
      OBVIOUS
    <2>3. k \in Secrets \cup {"empty"}
      BY <1>1, <2>1, <2>2 DEF Restore, BoundSet
    <2>4. PICK b : b = [bound EXCEPT !.base = k]
      OBVIOUS
    <2>5. b \in BoundSet
      BY <1>1, <2>3, <2>4 DEF BoundSet
    <2>6. Set(b)
      BY <2>1, <2>2, <2>4
    <2> QED BY <2>5, <2>6, SetsStep
  <1>4. CASE SaveOverride
    <2>1. PICK s \in Scopes : \E c \in Secrets \cup {"masked", "empty"} : Set([bound EXCEPT !.own[s] = Restore(c, @)])
      BY <1>4 DEF SaveOverride
    <2>2. PICK c \in Secrets \cup {"masked", "empty"} : Set([bound EXCEPT !.own[s] = Restore(c, @)])
      BY <2>1
    <2>3. PICK k : k = Restore(c, bound.own[s])
      OBVIOUS
    <2>4. k \in Secrets \cup {"empty"}
      BY <1>1, <2>1, <2>2, <2>3 DEF Restore, BoundSet
    <2>5. PICK own : own = [bound.own EXCEPT ![s] = k]
      OBVIOUS
    <2>6. own \in [Scopes -> Secrets \cup {"empty"}]
      BY <1>1, <2>4, <2>5 DEF BoundSet
    <2>7. PICK b : b = [bound EXCEPT !.own = own]
      OBVIOUS
    <2>8. b \in BoundSet
      BY <1>1, <2>6, <2>7 DEF BoundSet
    <2>9. Set(b)
      BY <2>2, <2>3, <2>5, <2>7
    <2> QED BY <2>8, <2>9, SetsStep
  <1> QED BY <1>2, <1>3, <1>4

LEMMA UnloadStep == ASSUME InstancesInv, Unload PROVE InstancesInv'
  <1>1. UNCHANGED <<rows, bound, requests, issued, starts, fresh, overlaid, doubtful, leaked, chosen, shownKey>>
    BY DEF Unload
  <1>2. /\ RowsAreAsChosen'
        /\ \A i \in Instances : Enabled(i)' <=> Enabled(i)
        /\ Mixed(rows)' <=> Mixed(rows)
    BY <1>1, RowsRest
  <1>3. InstancesTyped' /\ InTurn'
    BY <1>1, <1>2 DEF InstancesInv, InstancesTyped, InTurn
  <1>4. CallsKnow'
    BY <1>1 DEF InstancesInv, CallsKnow, Alone, KnowsItsRow
  <1>5. EnabledAreBound' /\ BoundOnlyIfAsked'
    BY <1>1, <1>2 DEF InstancesInv, EnabledAreBound, BoundOnlyIfAsked, BoundAs, InUse, Owes, LeavesScope
  <1>6. FreshIsBound'
    <2>1. \A i \in Instances : Covers(i)' <=> Covers(i)
      BY <1>1 DEF Covers, Wins
    <2> QED BY <1>1, <1>2, <2>1 DEF InstancesInv, FreshIsBound
  <1> QED BY <1>2, <1>3, <1>4, <1>5, <1>6 DEF InstancesInv

LEMMA StartUpStep == ASSUME InstancesInv, StartUp PROVE InstancesInv'
  <1>1. /\ requests' = {}
        /\ bound' \in IF loaded THEN BoundAtBoot(bound, rows) ELSE {bound}
        /\ fresh' = loaded /\ doubtful' = (~loaded \/ Mixed(rows)) /\ leaked' = (leaked \/ requests # {})
        /\ UNCHANGED <<rows, loaded, issued, overlaid, chosen, shownKey>>
    BY DEF StartUp
  <1>2. bound \in BoundSet /\ rows \in [Instances -> RowSet] /\ \A i \in Instances : rows[i].enabled => rows[i].scope # "none"
    BY DEF InstancesInv, InstancesTyped
  <1>3. PICK b : b = bound'
    OBVIOUS
  <1>4. ASSUME loaded
        PROVE  /\ b \in BoundSet
               /\ \A i \in Instances : rows[i].enabled =>
                     IF rows[i].scope = "all" THEN "all" \in b.active
                     ELSE {"all", rows[i].scope} \cap b.active # {} /\ Wins(rows, rows[i].scope, b.own[rows[i].scope])
               /\ ~Mixed(rows) => \A i \in Instances : rows[i].enabled => BoundAs(b, rows[i])
               /\ \A s \in Scopes : InUse(b, s) => InUse(bound, s) \/ \E i \in Instances : rows[i].enabled /\ rows[i].scope = s
    <2>1. b \in BoundAtBoot(bound, rows)
      BY <1>1, <1>3, <1>4
    <2>2. PICK r \in [Instances -> RowSet] : r = rows
      BY <1>2
    <2>3. PICK b0 \in BoundSet : b0 = bound
      BY <1>2
    <2> QED BY <1>2, <2>1, <2>2, <2>3, AtBoot
  <1>5. /\ RowsAreAsChosen'
        /\ \A i \in Instances : Enabled(i)' <=> Enabled(i)
        /\ Mixed(rows)' <=> Mixed(rows)
    BY <1>1, RowsRest
  <1>6. InstancesTyped'
    <2>1. bound' \in BoundSet
      BY <1>1, <1>2, <1>3, <1>4
    <2> QED BY <1>1, <2>1 DEF InstancesInv, InstancesTyped
  <1>7. CallsKnow' /\ InTurn'
    <2>1. ~leaked' => ~Mixed(rows)
      BY <1>1 DEF InstancesInv, InTurn
    <2> QED BY <1>1, <1>5, <2>1 DEF CallsKnow, InTurn
  <1>8. EnabledAreBound'
    <2>1. ASSUME ~doubtful', NEW i \in Instances, Enabled(i)' PROVE BoundAs(bound, rows[i])'
      <3>1. loaded /\ ~Mixed(rows) /\ rows[i].enabled
        BY <1>1, <1>5, <2>1 DEF Enabled
      <3>2. BoundAs(b, rows[i])
        BY <1>4, <3>1
      <3> QED BY <1>1, <1>3, <3>2 DEF BoundAs
    <2> QED BY <1>1, <2>1 DEF EnabledAreBound
  <1>9. BoundOnlyIfAsked'
    <2>1. ASSUME ~leaked', NEW s \in Scopes, InUse(bound', s) PROVE \E i \in Instances : Enabled(i)' /\ rows'[i].scope = s
      <3>1. ~leaked /\ requests = {}
        BY <1>1, <2>1
      <3>2. InUse(bound, s) \/ \E i \in Instances : rows[i].enabled /\ rows[i].scope = s
        BY <1>1, <1>3, <1>4, <2>1
      <3>3. \E i \in Instances : rows[i].enabled /\ rows[i].scope = s
        BY <3>1, <3>2 DEF InstancesInv, BoundOnlyIfAsked, Enabled
      <3> QED BY <1>1, <1>5, <3>3, ScopesApart DEF Enabled, Exists
    <2> QED BY <2>1 DEF BoundOnlyIfAsked, InUse
  <1>10. FreshIsBound'
    <2>1. ASSUME fresh', NEW i \in Instances, Enabled(i)' PROVE Covers(i)'
      <3>1. loaded /\ rows[i].enabled
        BY <1>1, <1>5, <2>1 DEF Enabled
      <3>2. IF rows[i].scope = "all" THEN "all" \in b.active
            ELSE {"all", rows[i].scope} \cap b.active # {} /\ Wins(rows, rows[i].scope, b.own[rows[i].scope])
        BY <1>4, <3>1
      <3> QED BY <1>1, <1>3, <3>2 DEF Covers, Wins
    <2> QED BY <1>1, <2>1 DEF FreshIsBound
  <1> QED BY <1>5, <1>6, <1>7, <1>8, <1>9, <1>10 DEF InstancesInv

LEMMA InitInstances == InstancesInit => InstancesInv
  <1> SUFFICES ASSUME InstancesInit PROVE InstancesInv
    OBVIOUS
  <1>1. /\ rows \in [Instances -> {NoInstance} \cup [scope : Scopes \cup {"all"}, enabled : BOOLEAN, config : Secrets, key : {0}]]
        /\ bound \in BoundAtBoot(Unbound, rows)
        /\ requests = {} /\ issued = 0 /\ overlaid = {} /\ doubtful = Mixed(rows) /\ leaked = Mixed(rows)
        /\ chosen = [i \in Instances |-> rows[i].config] /\ shownKey = [i \in Instances |-> 0]
    BY DEF InstancesInit
  <1>2. ASSUME NEW i \in Instances PROVE rows[i] \in RowSet /\ (rows[i].enabled => rows[i].scope # "none") /\ rows[i].key = 0
    <2>1. CASE rows[i] = NoInstance
      BY <2>1, NoInstanceTyped
    <2>2. CASE rows[i] \in [scope : Scopes \cup {"all"}, enabled : BOOLEAN, config : Secrets, key : {0}]
      BY <2>2, ScopesApart, CallsBounded DEF RowSet
    <2> QED BY <1>1, <2>1, <2>2
  <1>3. rows \in [Instances -> RowSet]
    BY <1>1, <1>2
  <1>4. Unbound \in BoundSet /\ \A s \in Scopes : ~InUse(Unbound, s)
    BY ScopesApart DEF Unbound, BoundSet, InUse
  <1>5. /\ bound \in BoundSet
        /\ \A i \in Instances : rows[i].enabled =>
              IF rows[i].scope = "all" THEN "all" \in bound.active
              ELSE {"all", rows[i].scope} \cap bound.active # {} /\ Wins(rows, rows[i].scope, bound.own[rows[i].scope])
        /\ ~Mixed(rows) => \A i \in Instances : rows[i].enabled => BoundAs(bound, rows[i])
        /\ \A s \in Scopes : InUse(bound, s) => InUse(Unbound, s) \/ \E i \in Instances : rows[i].enabled /\ rows[i].scope = s
    <2>1. PICK r \in [Instances -> RowSet] : r = rows
      BY <1>3
    <2>2. PICK b0 \in BoundSet : b0 = Unbound
      BY <1>4
    <2>3. PICK b1 \in BoundAtBoot(b0, r) : b1 = bound
      BY <1>1, <2>1, <2>2
    <2>4. \A i \in Instances : r[i].enabled => r[i].scope # "none"
      BY <1>2, <2>1
    <2> HIDE <2>1, <2>2, <2>3
    <2>5. /\ b1 \in BoundSet
          /\ \A i \in Instances : r[i].enabled =>
                IF r[i].scope = "all" THEN "all" \in b1.active
                ELSE {"all", r[i].scope} \cap b1.active # {} /\ Wins(r, r[i].scope, b1.own[r[i].scope])
          /\ ~Mixed(r) => \A i \in Instances : r[i].enabled => BoundAs(b1, r[i])
          /\ \A s \in Scopes : InUse(b1, s) => InUse(b0, s) \/ \E i \in Instances : r[i].enabled /\ r[i].scope = s
      BY <2>4, AtBoot
    <2> QED BY <2>1, <2>2, <2>3, <2>5
  <1>6. InstancesTyped
    BY CallsBounded, <1>1, <1>2, <1>3, <1>5 DEF InstancesTyped
  <1>7. CallsKnow /\ InTurn /\ RowsAreAsChosen
    BY <1>1, <1>2 DEF CallsKnow, InTurn, RowsAreAsChosen
  <1>8. EnabledAreBound /\ BoundOnlyIfAsked
    BY <1>1, <1>4, <1>5, ScopesApart DEF EnabledAreBound, BoundOnlyIfAsked, Enabled, Exists
  <1>9. FreshIsBound
    BY <1>1, <1>5 DEF FreshIsBound, Covers, Enabled
  <1> QED BY <1>6, <1>7, <1>8, <1>9 DEF InstancesInv

LEMMA InstancesStep == InstancesInv /\ [InstancesNext]_instanceVars => InstancesInv'
  <1> SUFFICES ASSUME InstancesInv, [InstancesNext]_instanceVars PROVE InstancesInv'
    OBVIOUS
  <1>1. CASE \E i \in Instances : Create(i) \/ Regenerate(i) \/ RemoveInstance(i) \/ Patch(i)
    BY <1>1, NewCallsStep
  <1>2. CASE \E q \in requests : CallStep(q)
    BY <1>2, ResolvesCall, RereadStep, WriteStep, ApplyStep, ListStep, DropsStep DEF CallStep
  <1>3. CASE ChooseSessions \/ SaveBase \/ SaveOverride
    BY <1>3, SettingsStep
  <1>4. CASE Unload
    BY <1>4, UnloadStep
  <1>5. CASE StartUp
    BY <1>5, StartUpStep
  <1>6. CASE UNCHANGED instanceVars
    <2>1. UNCHANGED <<rows, bound, loaded, requests, issued, starts, fresh, overlaid, doubtful, leaked, chosen, shownKey>>
      BY <1>6 DEF instanceVars
    <2>2. /\ RowsAreAsChosen'
          /\ \A i \in Instances : Enabled(i)' <=> Enabled(i)
          /\ Mixed(rows)' <=> Mixed(rows)
      BY <2>1, RowsRest
    <2>3. InstancesTyped' /\ InTurn'
      BY <2>1, <2>2 DEF InstancesInv, InstancesTyped, InTurn
    <2>4. CallsKnow'
      BY <2>1 DEF InstancesInv, CallsKnow, Alone, KnowsItsRow
    <2>5. EnabledAreBound' /\ BoundOnlyIfAsked'
      BY <2>1, <2>2 DEF InstancesInv, EnabledAreBound, BoundOnlyIfAsked, BoundAs, InUse, Owes, LeavesScope
    <2>6. FreshIsBound'
      <3>1. \A i \in Instances : Covers(i)' <=> Covers(i)
        BY <2>1 DEF Covers, Wins
      <3> QED BY <2>1, <2>2, <3>1 DEF InstancesInv, FreshIsBound
    <2> QED BY <2>2, <2>3, <2>4, <2>5, <2>6 DEF InstancesInv
  <1> QED BY <1>1, <1>2, <1>3, <1>4, <1>5, <1>6 DEF InstancesNext

LEMMA InstancesHold == InstancesInv => InstancesAreSound
  <1> SUFFICES ASSUME InstancesInv PROVE InstancesAreSound
    OBVIOUS
  <1>1. bound \in BoundSet /\ rows \in [Instances -> RowSet]
    BY DEF InstancesInv, InstancesTyped
  <1>2. EnabledIsBound
    <2>1. ASSUME requests = {}, ~doubtful, NEW i \in Instances, Enabled(i) PROVE Covers(i)
      <3>1. BoundAs(bound, rows[i])
        BY <2>1 DEF InstancesInv, EnabledAreBound
      <3>2. CASE rows[i].scope = "all"
        BY <3>1, <3>2 DEF BoundAs, Covers
      <3>3. CASE rows[i].scope # "all"
        <4>1. rows[i].scope \in bound.active /\ bound.own[rows[i].scope] = rows[i].config
          BY <3>1, <3>3 DEF BoundAs
        <4>2. Wins(rows, rows[i].scope, bound.own[rows[i].scope])
          BY <2>1, <4>1 DEF Wins, Enabled
        <4> QED BY <3>3, <4>1, <4>2 DEF Covers
      <3> QED BY <3>2, <3>3
    <2> QED BY <2>1 DEF EnabledIsBound
  <1>3. BootRestores
    BY DEF InstancesInv, FreshIsBound, BootRestores
  <1>4. NothingElseIsBound
    BY DEF InstancesInv, BoundOnlyIfAsked, NothingElseIsBound, InUse
  <1>5. SecretsAreKept
    <2>1. \A i \in Instances : rows[i].config # "masked"
      BY <1>1, SecretsApart DEF RowSet
    <2>2. bound.base # "masked" /\ \A s \in Scopes : bound.own[s] # "masked"
      BY <1>1, SecretsApart DEF BoundSet
    <2>3. \A i \in Instances \ overlaid : rows[i].config = chosen[i]
      BY DEF InstancesInv, RowsAreAsChosen
    <2> QED BY <2>1, <2>2, <2>3 DEF SecretsAreKept
  <1>6. ShownIsInForce
    BY DEF InstancesInv, RowsAreAsChosen, ShownIsInForce
  <1> QED BY <1>2, <1>3, <1>4, <1>5, <1>6 DEF InstancesAreSound

LEMMA InstancesTypeHolds == InstancesInv => InstancesTypeOK
  <1> SUFFICES ASSUME InstancesInv PROVE InstancesTypeOK
    OBVIOUS
  <1>1. rows \in [Instances -> RowSet] /\ bound \in BoundSet /\ requests \subseteq CallSet
    BY DEF InstancesInv, InstancesTyped
  <1>2. RowSet \subseteq [scope : Scopes \cup {"all", "none"}, enabled : BOOLEAN, config : Secrets \cup {"empty", "masked"}, key : 0..MaxCalls]
    BY DEF RowSet
  <1>3. bound.active \subseteq Scopes \cup {"all"}
    BY <1>1 DEF BoundSet
  <1>4. \A q \in CallSet : q.of \in Instances /\ q.at \in {"resolving", "reading", "writing", "binding", "bound", "leaving", "retiring"}
    BY DEF CallSet, PastWriting
  <1> QED BY <1>1, <1>2, <1>3, <1>4 DEF InstancesTypeOK

-----------------------------------------------------------------------------
(* The hooks                                                                *)

LEMMA RegIs == \A r \in Registrations : r.id \in Nat /\ r.id >= 1 /\ r.priority \in Nat
  <1>1. ASSUME NEW r \in Registrations PROVE r.id \in Nat /\ r.id >= 1 /\ r.priority \in Nat
    <2>1. r.id \in 1 .. MaxRegistrations /\ r.priority \in Priorities
      BY DEF Registrations
    <2>2. \A n \in Priorities : n \in Nat
      BY HookAssumption
    <2>3. \A n \in 1 .. MaxRegistrations : n \in Nat /\ n >= 1
      BY HookAssumption
    <2> QED BY <2>1, <2>2, <2>3
  <1> QED BY <1>1

\* Registrations in the order they are called, none of them twice.
IsList(l) ==
    l \in Seq(Registrations) /\ \A i, j \in 1 .. Len(l) : i < j => l[i].priority <= l[j].priority /\ l[i].id # l[j].id

LEMMA PickedList ==
    ASSUME NEW l, IsList(l), NEW I \in SUBSET (1 .. Len(l)), NEW p, p = Picked(l, I)
    PROVE  /\ IsList(p) /\ Len(p) \in Nat
           /\ \A n \in 1 .. Len(p) : \E i \in I : p[n] = l[i]
  <1>1. l \in Seq(Registrations)
    BY DEF IsList
  <1>2. p \in Seq(Registrations) /\ Len(p) \in Nat
    BY <1>1, PickedIs
  <1>3. PICK f \in [1 .. Len(p) -> I] :
            /\ \A n \in 1 .. Len(p) : p[n] = l[f[n]]
            /\ \A m, n \in 1 .. Len(p) : m < n => f[m] < f[n]
    BY <1>1, PickedIs
  <1>4. ASSUME NEW i \in 1 .. Len(p), NEW j \in 1 .. Len(p), i < j PROVE p[i].priority <= p[j].priority /\ p[i].id # p[j].id
    <2>1. f[i] \in 1 .. Len(l) /\ f[j] \in 1 .. Len(l) /\ f[i] < f[j] /\ p[i] = l[f[i]] /\ p[j] = l[f[j]]
      BY <1>3, <1>4
    <2> QED BY <2>1 DEF IsList
  <1>5. \A n \in 1 .. Len(p) : \E i \in I : p[n] = l[i]
    BY <1>3
  <1> QED BY <1>2, <1>4, <1>5 DEF IsList

LEMMA InsertList ==
    ASSUME NEW l, IsList(l), NEW n \in Nat, \A i \in 1 .. Len(l) : l[i].id <= n,
           NEW r \in Registrations, r.id = n + 1, NEW q, q = Insert(l, r)
    PROVE  IsList(q) /\ \A i \in 1 .. Len(q) : q[i].id <= n + 1
  <1>1. l \in Seq(Registrations) /\ DOMAIN l = 1 .. Len(l) /\ Len(l) \in Nat
    BY DEF IsList
  <1>2. PICK I : I = {i \in 1 .. Len(l) : l[i].priority <= r.priority}
    OBVIOUS
  <1>3. PICK J : J = {i \in 1 .. Len(l) : l[i].priority > r.priority}
    OBVIOUS
  <1>4. PICK a : a = Picked(l, I)
    OBVIOUS
  <1>5. PICK b : b = Picked(l, J)
    OBVIOUS
  <1>6. PICK m : m = <<r>>
    OBVIOUS
  <1>7. q = (a \o m) \o b
    BY <1>1, <1>2, <1>3, <1>4, <1>5, <1>6 DEF Insert
  <1>8. IsList(a) /\ Len(a) \in Nat /\ a \in Seq(Registrations) /\ \A k \in 1 .. Len(a) : \E i \in I : a[k] = l[i]
    <2>1. I \in SUBSET (1 .. Len(l))
      BY <1>2
    <2>2. IsList(a) /\ Len(a) \in Nat /\ \A k \in 1 .. Len(a) : \E i \in I : a[k] = l[i]
      BY <1>4, <2>1, PickedList
    <2> QED BY <2>2 DEF IsList
  <1>9. IsList(b) /\ Len(b) \in Nat /\ b \in Seq(Registrations) /\ \A k \in 1 .. Len(b) : \E i \in J : b[k] = l[i]
    <2>1. J \in SUBSET (1 .. Len(l))
      BY <1>3
    <2>2. IsList(b) /\ Len(b) \in Nat /\ \A k \in 1 .. Len(b) : \E i \in J : b[k] = l[i]
      BY <1>5, <2>1, PickedList
    <2> QED BY <2>2 DEF IsList
  <1>10. m \in Seq(Registrations) /\ Len(m) = 1 /\ m[1] = r
    BY <1>6
  <1>11. PICK c : c = a \o m
    OBVIOUS
  <1>12. /\ c \in Seq(Registrations) /\ Len(c) = Len(a) + 1
         /\ \A k \in 1 .. Len(a) + 1 : c[k] = IF k <= Len(a) THEN a[k] ELSE m[k - Len(a)]
    <2>1. a \in Seq(Registrations) /\ m \in Seq(Registrations)
      BY <1>8, <1>10
    <2>2. /\ a \o m \in Seq(Registrations) /\ Len(a \o m) = Len(a) + Len(m)
          /\ \A k \in 1 .. Len(a) + Len(m) : (a \o m)[k] = IF k <= Len(a) THEN a[k] ELSE m[k - Len(a)]
      BY ONLY <2>1, ConcatProperties
    <2> QED BY <1>10, <1>11, <2>2
  <1>13. /\ q \in Seq(Registrations) /\ Len(q) = Len(c) + Len(b)
         /\ \A k \in 1 .. Len(c) + Len(b) : q[k] = IF k <= Len(c) THEN c[k] ELSE b[k - Len(c)]
    <2>1. b \in Seq(Registrations) /\ c \in Seq(Registrations)
      BY <1>9, <1>12
    <2>2. /\ c \o b \in Seq(Registrations) /\ Len(c \o b) = Len(c) + Len(b)
          /\ \A k \in 1 .. Len(c) + Len(b) : (c \o b)[k] = IF k <= Len(c) THEN c[k] ELSE b[k - Len(c)]
      BY ONLY <2>1, ConcatProperties
    <2> QED BY <1>7, <1>11, <2>2
  <1>14. ASSUME NEW k \in 1 .. Len(q)
         PROVE  \/ k <= Len(a) /\ q[k] = a[k]
                \/ k = Len(a) + 1 /\ q[k] = r
                \/ k > Len(a) + 1 /\ k - (Len(a) + 1) \in 1 .. Len(b) /\ q[k] = b[k - (Len(a) + 1)]
    BY <1>8, <1>9, <1>10, <1>12, <1>13
  <1>15. ASSUME NEW k \in 1 .. Len(a) PROVE a[k].priority <= r.priority /\ a[k].id <= n /\ a[k] \in Registrations
    <2>1. PICK i \in I : a[k] = l[i]
      BY <1>8
    <2> QED BY <1>1, <1>2, <2>1
  <1>16. ASSUME NEW k \in 1 .. Len(b) PROVE b[k].priority > r.priority /\ b[k].id <= n /\ b[k] \in Registrations
    <2>1. PICK i \in J : b[k] = l[i]
      BY <1>9
    <2> QED BY <1>1, <1>3, <2>1
  <1>17. ASSUME NEW k \in 1 .. Len(a), NEW k1 \in 1 .. Len(b) PROVE a[k].id # b[k1].id
    <2>1. PICK i \in I : a[k] = l[i]
      BY <1>8
    <2>2. PICK j \in J : b[k1] = l[j]
      BY <1>9
    <2>3. i \in 1 .. Len(l) /\ j \in 1 .. Len(l) /\ l[i].priority <= r.priority /\ l[j].priority > r.priority
      BY <1>2, <1>3
    <2>4. l[i] \in Registrations /\ l[j] \in Registrations
      BY <1>1, <2>3
    <2>5. l[i].priority \in Nat /\ l[j].priority \in Nat /\ r.priority \in Nat
      BY <2>4, RegIs
    <2>6. i # j
      BY <2>3, <2>5
    <2>7. i < j \/ j < i
      BY <1>1, <2>3, <2>6
    <2> QED BY <2>1, <2>2, <2>3, <2>7 DEF IsList
  <1>18. ASSUME NEW i \in 1 .. Len(q), NEW j \in 1 .. Len(q), i < j PROVE q[i].priority <= q[j].priority /\ q[i].id # q[j].id
    <2>0. i \in Nat /\ j \in Nat /\ r.priority \in Nat /\ r.id = n + 1
      BY <1>8, <1>9, <1>12, <1>13, RegIs
    <2>1. CASE j <= Len(a)
      <3>1. q[i] = a[i] /\ q[j] = a[j] /\ i \in 1 .. Len(a) /\ j \in 1 .. Len(a)
        BY <1>8, <1>14, <1>18, <2>0, <2>1
      <3> QED BY <1>8, <1>18, <3>1 DEF IsList
    <2>2. CASE j = Len(a) + 1
      <3>1. q[i] = a[i] /\ q[j] = r /\ i \in 1 .. Len(a)
        BY <1>8, <1>14, <1>18, <2>0, <2>2
      <3>2. a[i].priority <= r.priority /\ a[i].id <= n /\ a[i].id \in Nat
        BY <1>15, <3>1, RegIs
      <3> QED BY <2>0, <3>1, <3>2
    <2>3. CASE j > Len(a) + 1
      <3>0. j - (Len(a) + 1) \in 1 .. Len(b) /\ q[j] = b[j - (Len(a) + 1)]
        <4>1. ~(j <= Len(a)) /\ j # Len(a) + 1
          BY <1>8, <2>0, <2>3
        <4> QED BY <1>14, <4>1
      <3>1. PICK k \in 1 .. Len(b) : k = j - (Len(a) + 1) /\ q[j] = b[k]
        BY <3>0
      <3>2. b[k].priority > r.priority /\ b[k].id <= n /\ b[k].id \in Nat /\ b[k].priority \in Nat
        BY <1>16, RegIs
      <3>3. CASE i <= Len(a)
        <4>1. q[i] = a[i] /\ i \in 1 .. Len(a)
          BY <1>8, <1>14, <2>0, <3>3
        <4>2. a[i].priority <= r.priority /\ a[i].priority \in Nat /\ a[i].id # b[k].id
          BY <1>15, <1>17, <4>1, RegIs
        <4>3. PICK x \in Nat, y \in Nat, z \in Nat : x = a[i].priority /\ y = b[k].priority /\ z = r.priority
          BY <2>0, <3>2, <4>2
        <4>4. x <= z /\ y > z
          BY <3>2, <4>2, <4>3
        <4>5. x <= y
          BY ONLY <4>3, <4>4
        <4>6. q[i].priority <= q[j].priority
          BY <3>1, <4>1, <4>3, <4>5
        <4>7. q[i].id # q[j].id
          BY <3>1, <4>1, <4>2
        <4> QED BY <4>6, <4>7
      <3>4. CASE i = Len(a) + 1
        <4>1. q[i] = r
          BY <1>8, <1>14, <2>0, <3>4
        <4> QED BY <2>0, <3>1, <3>2, <4>1
      <3>5. CASE i > Len(a) + 1
        <4>0. i - (Len(a) + 1) \in 1 .. Len(b) /\ q[i] = b[i - (Len(a) + 1)]
          <5>1. ~(i <= Len(a)) /\ i # Len(a) + 1
            BY <1>8, <2>0, <3>5
          <5> QED BY <1>14, <5>1
        <4>1. PICK k1 \in 1 .. Len(b) : k1 = i - (Len(a) + 1) /\ q[i] = b[k1]
          BY <4>0
        <4>2. k1 < k
          BY <1>8, <1>9, <1>18, <2>0, <3>1, <4>1
        <4> QED BY <1>9, <3>1, <4>1, <4>2 DEF IsList
      <3>6. i <= Len(a) \/ i = Len(a) + 1 \/ i > Len(a) + 1
        <4>1. i \in Nat /\ Len(a) \in Nat
          BY <1>8, <2>0
        <4> QED BY ONLY <4>1
      <3> QED BY ONLY <3>3, <3>4, <3>5, <3>6
    <2> QED BY <1>8, <2>0, <2>1, <2>2, <2>3
  <1>19. ASSUME NEW i \in 1 .. Len(q) PROVE q[i].id <= n + 1
    <2>1. CASE i \in 1 .. Len(a) /\ q[i] = a[i]
      BY <1>15, <2>1, RegIs
    <2>2. CASE q[i] = r
      BY <2>2
    <2>3. CASE i - (Len(a) + 1) \in 1 .. Len(b) /\ q[i] = b[i - (Len(a) + 1)]
      <3>1. PICK k \in 1 .. Len(b) : q[i] = b[k]
        BY <2>3
      <3> QED BY <1>16, <3>1, RegIs
    <2> QED BY <1>8, <1>14, <2>1, <2>2, <2>3
  <1> QED BY <1>13, <1>18, <1>19 DEF IsList

LEMMA RemoveList ==
    ASSUME NEW l, IsList(l), NEW i \in 1 .. Len(l), NEW q, q = RemoveAt(l, i)
    PROVE  IsList(q) /\ \A n \in 1 .. Len(q) : \E k \in 1 .. Len(l) : q[n] = l[k]
  <1>1. l \in Seq(Registrations) /\ Len(l) \in Nat /\ i \in Nat /\ i >= 1 /\ i <= Len(l)
    BY DEF IsList
  <1>2. PICK a : a = SubSeq(l, 1, i - 1)
    OBVIOUS
  <1>3. PICK b : b = SubSeq(l, i + 1, Len(l))
    OBVIOUS
  <1>4. q = a \o b
    BY <1>2, <1>3 DEF RemoveAt
  <1>5. a \in Seq(Registrations) /\ Len(a) = i - 1 /\ \A k \in 1 .. i - 1 : a[k] = l[k]
    <2>1. \A k \in 1 .. i - 1 : l[k] \in Registrations
      BY <1>1
    <2> QED BY <1>1, <1>2, <2>1, SubSeqProperties
  <1>6. b \in Seq(Registrations) /\ Len(b) = Len(l) - i /\ \A k \in 1 .. Len(l) - i : b[k] = l[k + i]
    <2>1. \A k \in i + 1 .. Len(l) : l[k] \in Registrations
      BY <1>1
    <2> QED BY <1>1, <1>3, <2>1, SubSeqProperties
  <1>7. /\ q \in Seq(Registrations) /\ Len(q) = Len(a) + Len(b)
        /\ \A k \in 1 .. Len(a) + Len(b) : q[k] = IF k <= Len(a) THEN a[k] ELSE b[k - Len(a)]
    <2>1. a \in Seq(Registrations) /\ b \in Seq(Registrations)
      BY <1>5, <1>6
    <2>2. /\ a \o b \in Seq(Registrations) /\ Len(a \o b) = Len(a) + Len(b)
          /\ \A k \in 1 .. Len(a) + Len(b) : (a \o b)[k] = IF k <= Len(a) THEN a[k] ELSE b[k - Len(a)]
      BY ONLY <2>1, ConcatProperties
    <2> QED BY <1>4, <2>2
  <1>8. ASSUME NEW k \in 1 .. Len(q)
        PROVE  /\ k < i => k \in 1 .. Len(l) /\ q[k] = l[k]
               /\ k >= i => k + 1 \in 1 .. Len(l) /\ q[k] = l[k + 1]
    <2>1. CASE k < i
      BY <1>1, <1>5, <1>6, <1>7, <2>1
    <2>2. CASE k >= i
      <3>1. k - (i - 1) \in 1 .. Len(l) - i /\ q[k] = b[k - (i - 1)]
        BY <1>1, <1>5, <1>6, <1>7, <2>2
      <3>2. b[k - (i - 1)] = l[(k - (i - 1)) + i]
        BY <1>6, <3>1
      <3>3. (k - (i - 1)) + i = k + 1
        BY <1>1, <1>7
      <3>4. q[k] = l[k + 1]
        BY <3>1, <3>2, <3>3
      <3>5. k + 1 \in 1 .. Len(l)
        BY <1>1, <1>5, <1>6, <1>7, <2>2
      <3> QED BY <1>1, <1>7, <2>2, <3>4, <3>5
    <2> QED BY <1>1, <1>5, <1>6, <1>7, <2>1, <2>2
  <1>9. ASSUME NEW n \in 1 .. Len(q) PROVE \E k \in 1 .. Len(l) : q[n] = l[k]
    BY <1>1, <1>5, <1>6, <1>7, <1>8
  <1>10. ASSUME NEW m \in 1 .. Len(q), NEW n \in 1 .. Len(q), m < n PROVE q[m].priority <= q[n].priority /\ q[m].id # q[n].id
    <2>1. m \in Nat /\ n \in Nat
      BY <1>1, <1>5, <1>6, <1>7
    <2>2. PICK m1 \in 1 .. Len(l) : m1 = (IF m < i THEN m ELSE m + 1) /\ q[m] = l[m1]
      BY <1>1, <1>8, <2>1
    <2>3. PICK n1 \in 1 .. Len(l) : n1 = (IF n < i THEN n ELSE n + 1) /\ q[n] = l[n1]
      BY <1>1, <1>8, <2>1
    <2>4. m1 < n1
      BY <1>1, <1>10, <2>1, <2>2, <2>3
    <2> QED BY <2>2, <2>3, <2>4 DEF IsList
  <1> QED BY <1>7, <1>9, <1>10 DEF IsList

ChainSet ==
    [state : {"idle", "running", "stopped", "over"}, event : HookEvents \cup {"none"}, inFlight : SUBSET HookEvents,
     list : Seq(Registrations), live : BOOLEAN, at : Nat, on : Registrations \cup {<<>>}, line : Seq(HookEvents),
     seen : Seq(Registrations), present : SUBSET Registrations, edited : BOOLEAN]

\* The events a chain comes from are in flight, and each came once.
Marked(k) ==
    \A i \in 1 .. Len(k.line) : k.line[i] \in k.inFlight /\ \A j \in 1 .. Len(k.line) : i # j => k.line[i] # k.line[j]

\* A chain nobody edited stands somewhere in its list l, and has called what is before.
RunsAs(k, l) ==
    IsList(l) /\ (~k.edited => /\ k.at \in 1 .. Len(l) /\ k.on = l[k.at] /\ k.present = Range(l)
                               /\ Len(k.seen) = k.at - 1 /\ \A i \in 1 .. k.at - 1 : k.seen[i] = l[i])

EndedAs(k) ==
    ~k.edited => /\ \A i, j \in 1 .. Len(k.seen) : i # j => k.seen[i].id # k.seen[j].id
                 /\ k.state = "over" => Range(k.seen) = k.present

ChainIs(k, l) ==
    /\ Marked(k)
    /\ k.state = "running" => /\ k.event \in HookEvents /\ k.event \in k.inFlight /\ k.on \in Registrations
                             /\ RunsAs(k, l)
    /\ k.state \in {"over", "stopped"} => EndedAs(k)

HookInv ==
    /\ hooks \in [HookEvents -> Seq(Registrations)] /\ chain \in [Chains -> ChainSet] /\ regs \in 0 .. MaxRegistrations
    /\ \A e \in HookEvents : IsList(hooks[e]) /\ \A i \in 1 .. Len(hooks[e]) : hooks[e][i].id <= regs
    /\ \A c \in Chains : ChainIs(chain[c], ListOf(c))

LEMMA IdleIs ==
    /\ IdleChain \in ChainSet /\ IdleChain.state = "idle" /\ IdleChain.line = <<>> /\ IdleChain.seen = <<>>
    /\ IdleChain.live = TRUE /\ IdleChain.edited = FALSE
    /\ \A l : ChainIs(IdleChain, l)
  <1>1. IdleChain \in ChainSet
    BY DEF IdleChain, ChainSet
  <1>2. /\ IdleChain.state = "idle" /\ IdleChain.line = <<>> /\ IdleChain.seen = <<>>
        /\ IdleChain.live = TRUE /\ IdleChain.edited = FALSE
    BY DEF IdleChain
  <1>3. Marked(IdleChain)
    <2>1. Len(IdleChain.line) = 0
      BY <1>2
    <2> QED BY <2>1 DEF Marked
  <1> QED BY <1>1, <1>2, <1>3 DEF ChainIs

LEMMA InitHooks == HookInit => HookInv
  <1> SUFFICES ASSUME HookInit PROVE HookInv
    OBVIOUS
  <1>1. hooks = [e \in HookEvents |-> <<>>] /\ chain = [c \in Chains |-> IdleChain] /\ regs = 0
    BY DEF HookInit
  <1>2. \A e \in HookEvents : hooks[e] = <<>> /\ Len(hooks[e]) = 0 /\ hooks[e] \in Seq(Registrations)
    BY <1>1
  <1>3. hooks \in [HookEvents -> Seq(Registrations)]
    BY <1>1, <1>2
  <1>4. \A e \in HookEvents : IsList(hooks[e]) /\ \A i \in 1 .. Len(hooks[e]) : hooks[e][i].id <= regs
    BY <1>2 DEF IsList
  <1>5. chain \in [Chains -> ChainSet] /\ \A c \in Chains : ChainIs(chain[c], ListOf(c))
    BY <1>1, IdleIs
  <1>6. regs \in 0 .. MaxRegistrations
    BY <1>1, HookAssumption
  <1> QED BY <1>1, <1>3, <1>4, <1>5, <1>6 DEF HookInv

\* A step of one chain.
LEMMA OneChain ==
    ASSUME HookInv, NEW c \in Chains, NEW k \in ChainSet, chain' = [chain EXCEPT ![c] = k], UNCHANGED <<hooks, regs>>,
           ChainIs(k, IF k.live THEN hooks[k.event] ELSE k.list)
    PROVE  HookInv'
  <1>1. chain' \in [Chains -> ChainSet] /\ chain'[c] = k /\ \A d \in Chains : d # c => chain'[d] = chain[d]
    BY DEF HookInv
  <1>2. ASSUME NEW d \in Chains PROVE ChainIs(chain[d], ListOf(d))'
    <2>1. CASE d = c
      <3>1. ListOf(d)' = IF k.live THEN hooks[k.event] ELSE k.list
        BY <1>1, <2>1 DEF ListOf
      <3> QED BY <1>1, <2>1, <3>1
    <2>2. CASE d # c
      <3>1. ListOf(d)' = ListOf(d) /\ chain'[d] = chain[d]
        BY <1>1, <2>2 DEF ListOf
      <3> QED BY <3>1 DEF HookInv
    <2> QED BY <2>1, <2>2
  <1> QED BY <1>1, <1>2 DEF HookInv

\* The array of one event changes in place.
LEMMA OneArray ==
    ASSUME HookInv, NEW e \in HookEvents, NEW l, IsList(l), regs' \in 0 .. MaxRegistrations, regs <= regs',
           \A i \in 1 .. Len(l) : l[i].id <= regs',
           hooks' = [hooks EXCEPT ![e] = l], chain' = Touch(e)
    PROVE  HookInv'
  <1>1. hooks' \in [HookEvents -> Seq(Registrations)] /\ hooks'[e] = l /\ \A f \in HookEvents : f # e => hooks'[f] = hooks[f]
    BY DEF HookInv, IsList
  <1>2. ASSUME NEW f \in HookEvents PROVE IsList(hooks'[f]) /\ \A i \in 1 .. Len(hooks'[f]) : hooks'[f][i].id <= regs'
    <2>1. CASE f = e
      BY <1>1, <2>1
    <2>2. CASE f # e
      <3>1. hooks'[f] = hooks[f] /\ IsList(hooks[f]) /\ hooks[f] \in Seq(Registrations)
        BY <1>1, <2>2 DEF HookInv
      <3>2. ASSUME NEW i \in 1 .. Len(hooks[f]) PROVE hooks[f][i].id <= regs'
        <4>1. hooks[f][i].id <= regs /\ regs \in Nat /\ hooks[f][i] \in Registrations
          BY <3>1 DEF HookInv
        <4>2. hooks[f][i].id \in Nat
          BY <4>1, RegIs
        <4> QED BY <4>1, <4>2
      <3> QED BY <3>1, <3>2
    <2> QED BY <2>1, <2>2
  <1>3. ASSUME NEW c \in Chains PROVE chain'[c] \in ChainSet /\ ChainIs(chain[c], ListOf(c))'
    <2>1. chain[c] \in ChainSet /\ ChainIs(chain[c], ListOf(c))
      BY DEF HookInv
    <2>2. CASE Running(c) /\ chain[c].event = e /\ chain[c].live
      <3>1. PICK k : k = [chain[c] EXCEPT !.edited = TRUE, !.seen = <<>>, !.present = {}]
        OBVIOUS
      <3>2. chain'[c] = k
        BY <2>2, <3>1 DEF Touch
      <3>3. /\ k \in ChainSet /\ k.edited = TRUE /\ k.live = TRUE /\ k.event = e /\ k.line = chain[c].line /\ k.inFlight = chain[c].inFlight
            /\ k.state = "running"
        <4>1. PICK k0 \in ChainSet : k0 = chain[c]
          BY <2>1
        <4>2. <<>> \in Seq(Registrations) /\ {} \in SUBSET Registrations
          OBVIOUS
        <4>3. k = [k0 EXCEPT !.edited = TRUE, !.seen = <<>>, !.present = {}]
          BY <3>1, <4>1
        <4>4. PICK no \in Seq(Registrations) : no = <<>>
          BY <4>2
        <4>5. k = [k0 EXCEPT !.edited = TRUE, !.seen = no, !.present = {}]
          BY <4>3, <4>4
        <4> HIDE <4>1, <4>4
        <4>6. k \in ChainSet
          BY <4>5 DEF ChainSet
        <4> QED BY <2>2, <3>1, <4>6 DEF ChainSet, Running
      <3>4. ListOf(c)' = l
        BY <1>1, <3>2, <3>3 DEF ListOf
      <3>5. Marked(k)
        BY <2>1, <3>3 DEF ChainIs, Marked
      <3>6. ChainIs(k, l)
        <4>1. k.on = chain[c].on /\ k.event \in k.inFlight /\ k.on \in Registrations /\ k.event \in HookEvents
          BY <2>1, <2>2, <3>1, <3>3 DEF ChainIs, ChainSet, Running
        <4>2. RunsAs(k, l)
          BY <3>3 DEF RunsAs
        <4> QED BY <3>3, <3>5, <4>1, <4>2 DEF ChainIs
      <3> QED BY <3>2, <3>3, <3>4, <3>6
    <2>3. CASE ~(Running(c) /\ chain[c].event = e /\ chain[c].live)
      <3>1. chain'[c] = chain[c]
        BY <2>3 DEF Touch
      <3>2. CASE Running(c)
        <4>1. chain[c].event \in HookEvents /\ (chain[c].live => chain[c].event # e)
          BY <2>1, <2>3, <3>2 DEF ChainIs, Running
        <4>2. ListOf(c)' = ListOf(c)
          BY <1>1, <3>1, <4>1 DEF ListOf
        <4> QED BY <2>1, <3>1, <4>2
      <3>3. CASE ~Running(c)
        BY <2>1, <3>1, <3>3 DEF ChainIs, Running
      <3> QED BY <3>2, <3>3
    <2> QED BY <2>2, <2>3
  <1>4. chain' \in [Chains -> ChainSet]
    <2>1. chain' = [c \in Chains |-> chain'[c]]
      BY DEF Touch
    <2> QED BY <1>3, <2>1
  <1> QED BY <1>1, <1>2, <1>3, <1>4 DEF HookInv

LEMMA RegisterStep ==
    ASSUME HookInv, NEW p \in HookPlugins, NEW e \in HookEvents, NEW n \in Priorities, Register(p, e, n)
    PROVE  HookInv'
  <1>1. PICK r : r = [id |-> regs + 1, plugin |-> p, priority |-> n]
    OBVIOUS
  <1>2. PICK l : l = Insert(hooks[e], r)
    OBVIOUS
  <1>3. regs' = regs + 1 /\ hooks' = [hooks EXCEPT ![e] = l] /\ chain' = Touch(e)
    BY <1>1, <1>2 DEF Register
  <1>4. r \in Registrations /\ r.id = regs + 1 /\ regs \in Nat
    BY <1>1, HookAssumption DEF Registrations, HookInv, Register
  <1>5. IsList(hooks[e]) /\ \A i \in 1 .. Len(hooks[e]) : hooks[e][i].id <= regs
    BY DEF HookInv
  <1>6. IsList(l) /\ \A i \in 1 .. Len(l) : l[i].id <= regs + 1
    BY <1>2, <1>4, <1>5, InsertList
  <1>7. regs' \in 0 .. MaxRegistrations /\ regs <= regs'
    <2>1. regs < MaxRegistrations /\ MaxRegistrations \in Nat
      BY HookAssumption DEF Register
    <2> QED BY <1>3, <1>4, <2>1
  <1>8. IsList(l) /\ \A i \in 1 .. Len(l) : l[i].id <= regs'
    BY <1>3, <1>6
  <1>9. hooks' = [hooks EXCEPT ![e] = l] /\ chain' = Touch(e)
    BY <1>3
  <1>10. HookInv /\ e \in HookEvents
    OBVIOUS
  <1> QED BY ONLY <1>7, <1>8, <1>9, <1>10, OneArray

LEMMA UnregisterStep ==
    ASSUME HookInv, NEW e \in HookEvents, NEW i \in DOMAIN hooks[e], Unregister(e, i)
    PROVE  HookInv'
  <1>1. PICK l : l = RemoveAt(hooks[e], i)
    OBVIOUS
  <1>2. hooks' = [hooks EXCEPT ![e] = l] /\ chain' = Touch(e) /\ regs' = regs
    BY <1>1 DEF Unregister
  <1>3. IsList(hooks[e]) /\ i \in 1 .. Len(hooks[e]) /\ regs \in Nat /\ \A k \in 1 .. Len(hooks[e]) : hooks[e][k].id <= regs
    <2>1. IsList(hooks[e]) /\ regs \in Nat /\ \A k \in 1 .. Len(hooks[e]) : hooks[e][k].id <= regs
      BY DEF HookInv
    <2>2. DOMAIN hooks[e] = 1 .. Len(hooks[e])
      BY <2>1 DEF IsList
    <2> QED BY <2>1, <2>2
  <1>4. IsList(l) /\ \A n \in 1 .. Len(l) : \E k \in 1 .. Len(hooks[e]) : l[n] = hooks[e][k]
    BY <1>1, <1>3, RemoveList
  <1>5. \A n \in 1 .. Len(l) : l[n].id <= regs
    BY <1>3, <1>4
  <1>6. regs' \in 0 .. MaxRegistrations /\ regs <= regs'
    BY <1>2, <1>3 DEF HookInv
  <1>7. IsList(l) /\ \A n \in 1 .. Len(l) : l[n].id <= regs'
    BY <1>2, <1>4, <1>5
  <1>8. hooks' = [hooks EXCEPT ![e] = l] /\ chain' = Touch(e)
    BY <1>2
  <1>9. HookInv /\ e \in HookEvents
    OBVIOUS
  <1> QED BY ONLY <1>6, <1>7, <1>8, <1>9, OneArray

LEMMA UnregisterPluginStep == ASSUME HookInv, NEW p \in HookPlugins, UnregisterPlugin(p) PROVE HookInv'
  <1>1. /\ hooks' = [e \in HookEvents |-> Without(hooks[e], p)] /\ regs' = regs
        /\ chain' = [c \in Chains |-> IF Running(c) /\ chain[c].live
                                      THEN [chain[c] EXCEPT !.live = FALSE, !.list = hooks[chain[c].event]]
                                      ELSE chain[c]]
    BY DEF UnregisterPlugin
  <1>2. ASSUME NEW e \in HookEvents PROVE IsList(hooks'[e]) /\ \A i \in 1 .. Len(hooks'[e]) : hooks'[e][i].id <= regs
    <2>1. PICK l : l = hooks[e]
      OBVIOUS
    <2>2. IsList(l) /\ DOMAIN l = 1 .. Len(l) /\ \A k \in 1 .. Len(l) : l[k].id <= regs
      BY <2>1 DEF HookInv, IsList
    <2>3. PICK I : I = {i \in 1 .. Len(l) : l[i].plugin # p}
      OBVIOUS
    <2>4. PICK q : q = Picked(l, I)
      OBVIOUS
    <2>5. hooks'[e] = q
      BY <1>1, <2>1, <2>2, <2>3, <2>4 DEF Without
    <2>6. I \in SUBSET (1 .. Len(l))
      BY <2>3
    <2>7. IsList(q) /\ \A n \in 1 .. Len(q) : \E i \in I : q[n] = l[i]
      BY <2>2, <2>4, <2>6, PickedList
    <2>8. \A n \in 1 .. Len(q) : q[n].id <= regs
      BY <2>2, <2>6, <2>7
    <2> QED BY <2>5, <2>7, <2>8
  <1>3. hooks' \in [HookEvents -> Seq(Registrations)]
    <2>1. \A e \in HookEvents : hooks'[e] \in Seq(Registrations)
      BY <1>2 DEF IsList
    <2>2. hooks' = [e \in HookEvents |-> hooks'[e]]
      BY <1>1
    <2> QED BY <2>1, <2>2
  <1>4. ASSUME NEW c \in Chains PROVE chain'[c] \in ChainSet /\ ChainIs(chain[c], ListOf(c))'
    <2>1. chain[c] \in ChainSet /\ ChainIs(chain[c], ListOf(c))
      BY DEF HookInv
    <2>2. CASE Running(c) /\ chain[c].live
      <3>1. PICK l : l = hooks[chain[c].event]
        OBVIOUS
      <3>2. PICK k : k = [chain[c] EXCEPT !.live = FALSE, !.list = l]
        OBVIOUS
      <3>3. chain'[c] = k /\ ListOf(c) = l
        BY <1>1, <2>2, <3>1, <3>2 DEF ListOf
      <3>4. l \in Seq(Registrations)
        BY <2>1, <2>2, <3>3 DEF ChainIs, RunsAs, IsList, Running
      <3>5. /\ k \in ChainSet /\ k.live = FALSE /\ k.list = l /\ k.state = "running" /\ k.event = chain[c].event
            /\ k.edited = chain[c].edited /\ k.line = chain[c].line /\ k.inFlight = chain[c].inFlight
            /\ k.at = chain[c].at /\ k.on = chain[c].on /\ k.seen = chain[c].seen /\ k.present = chain[c].present
        BY <2>1, <2>2, <3>2, <3>4 DEF ChainSet, Running
      <3>6. ListOf(c)' = l
        BY <3>3, <3>5 DEF ListOf
      <3>7. ChainIs(k, l)
        <4>1. Marked(k)
          BY <2>1, <3>5 DEF ChainIs, Marked
        <4>2. /\ chain[c].event \in HookEvents /\ RunsAs(chain[c], l)
              /\ chain[c].event \in chain[c].inFlight /\ chain[c].on \in Registrations
          BY <2>1, <2>2, <3>3 DEF ChainIs, Running
        <4>3. RunsAs(k, l)
          BY <3>5, <4>2 DEF RunsAs
        <4> QED BY <3>5, <4>1, <4>2, <4>3 DEF ChainIs
      <3> QED BY <3>3, <3>5, <3>6, <3>7
    <2>3. CASE ~(Running(c) /\ chain[c].live)
      <3>1. chain'[c] = chain[c]
        BY <1>1, <2>3
      <3>2. CASE Running(c)
        <4>1. ListOf(c)' = ListOf(c)
          BY <2>3, <3>1, <3>2 DEF ListOf
        <4> QED BY <2>1, <3>1, <4>1
      <3>3. CASE ~Running(c)
        BY <2>1, <3>1, <3>3 DEF ChainIs, Running
      <3> QED BY <3>2, <3>3
    <2> QED BY <2>2, <2>3
  <1>5. chain' \in [Chains -> ChainSet]
    <2>1. chain' = [c \in Chains |-> chain'[c]]
      BY <1>1
    <2> QED BY <1>4, <2>1
  <1>6. regs' \in 0 .. MaxRegistrations
    BY <1>1 DEF HookInv
  <1> QED BY <1>1, <1>2, <1>3, <1>4, <1>5, <1>6 DEF HookInv

LEMMA StartStep ==
    ASSUME HookInv, NEW c \in Chains, NEW e \in HookEvents, NEW inFlight \in SUBSET HookEvents, NEW line \in Seq(HookEvents),
           \A i \in 1 .. Len(line) : /\ line[i] \in inFlight /\ line[i] # e
                                     /\ \A j \in 1 .. Len(line) : i # j => line[i] # line[j],
           Start(c, e, inFlight, line)
    PROVE  HookInv'
  <1>1. PICK l : l = hooks[e]
    OBVIOUS
  <1>2. IsList(l) /\ l \in Seq(Registrations) /\ Len(l) \in Nat /\ DOMAIN l = 1 .. Len(l)
    BY <1>1 DEF HookInv, IsList
  <1>3. /\ l # <<>> /\ UNCHANGED <<hooks, regs>>
        /\ chain' = [chain EXCEPT ![c] = [IdleChain EXCEPT
                        !.state = "running", !.event = e, !.inFlight = inFlight \cup {e}, !.line = Append(line, e),
                        !.at = 1, !.on = l[1], !.present = Range(l)]]
    BY <1>1 DEF Start
  <1>4. 1 \in 1 .. Len(l) /\ l[1] \in Registrations
    BY <1>2, <1>3
  <1>5. PICK line1 : line1 = Append(line, e)
    OBVIOUS
  <1>6. /\ line1 \in Seq(HookEvents) /\ Len(line1) = Len(line) + 1
        /\ \A i \in 1 .. Len(line) : line1[i] = line[i]
        /\ line1[Len(line) + 1] = e
    BY <1>5, AppendProperties
  <1>7. PICK flight : flight = inFlight \cup {e}
    OBVIOUS
  <1>8. PICK present : present = Range(l)
    OBVIOUS
  <1>9. present \in SUBSET Registrations
    BY <1>2, <1>8 DEF Range
  <1>10. PICK on : on = l[1]
    OBVIOUS
  <1>11. PICK k : k = [IdleChain EXCEPT !.state = "running", !.event = e, !.inFlight = flight, !.line = line1,
                                        !.at = 1, !.on = on, !.present = present]
    OBVIOUS
  <1>12. /\ k \in ChainSet /\ k.state = "running" /\ k.event = e /\ k.inFlight = flight /\ k.line = line1
         /\ k.at = 1 /\ k.on = on /\ k.present = present /\ k.live = TRUE /\ k.edited = FALSE /\ k.seen = <<>>
    <2>1. PICK i \in ChainSet : i = IdleChain
      BY IdleIs
    <2>2. i.live = TRUE /\ i.edited = FALSE /\ i.seen = <<>>
      BY <2>1, IdleIs
    <2>3. flight \in SUBSET HookEvents /\ on \in Registrations
      BY <1>4, <1>7, <1>10
    <2>4. k = [i EXCEPT !.state = "running", !.event = e, !.inFlight = flight, !.line = line1, !.at = 1, !.on = on, !.present = present]
      BY <1>11, <2>1
    <2>5. k \in ChainSet
      BY <1>6, <1>9, <2>3, <2>4 DEF ChainSet
    <2> QED BY <2>2, <2>4, <2>5 DEF ChainSet
  <1>13. Marked(k)
    <2>1. ASSUME NEW i \in 1 .. Len(line1) PROVE line1[i] \in flight /\ \A j \in 1 .. Len(line1) : i # j => line1[i] # line1[j]
      <3>1. \A j \in 1 .. Len(line1) : \/ j \in 1 .. Len(line) /\ line1[j] = line[j]
                                       \/ j = Len(line) + 1 /\ line1[j] = e
        BY <1>6
      <3> QED BY <1>7, <3>1
    <2> QED BY <1>12, <2>1 DEF Marked
  <1>14. RunsAs(k, l)
    <2>1. Len(k.seen) = 0
      BY <1>12
    <2> QED BY <1>2, <1>4, <1>8, <1>10, <1>12, <2>1 DEF RunsAs
  <1>15. ChainIs(k, IF k.live THEN hooks[k.event] ELSE k.list)
    <2>1. k.event \in k.inFlight /\ k.on \in Registrations
      BY <1>4, <1>7, <1>10, <1>12
    <2> QED BY <1>1, <1>12, <1>13, <1>14, <2>1 DEF ChainIs
  <1>16. chain' = [chain EXCEPT ![c] = k] /\ UNCHANGED <<hooks, regs>>
    BY <1>3, <1>5, <1>7, <1>8, <1>10, <1>11
  <1> QED BY <1>12, <1>15, <1>16, OneChain

LEMMA FireStep == ASSUME HookInv, NEW c \in Chains, NEW e \in HookEvents, Fire(c, e) PROVE HookInv'
  <1>1. PICK line : line = <<>>
    OBVIOUS
  <1>2. PICK flight \in SUBSET HookEvents : flight = {}
    OBVIOUS
  <1>3. line \in Seq(HookEvents)
    BY <1>1
  <1>4. \A i \in 1 .. Len(line) : /\ line[i] \in flight /\ line[i] # e
                                  /\ \A j \in 1 .. Len(line) : i # j => line[i] # line[j]
    <2>1. Len(line) = 0
      BY <1>1
    <2> QED BY <2>1
  <1>5. Start(c, e, flight, line)
    BY <1>1, <1>2 DEF Fire
  <1>6. HookInv
    OBVIOUS
  <1> QED BY ONLY <1>2, <1>3, <1>4, <1>5, <1>6, c \in Chains, e \in HookEvents, StartStep

LEMMA FireInsideStep ==
    ASSUME HookInv, NEW c \in Chains, NEW k \in Chains, NEW e \in HookEvents, FireInside(c, k, e)
    PROVE  HookInv'
  <1>1. e \notin chain[k].inFlight /\ Start(c, e, chain[k].inFlight, chain[k].line)
    BY DEF FireInside
  <1>2. chain[k] \in ChainSet /\ Marked(chain[k])
    BY DEF HookInv, ChainIs
  <1>3. PICK flight \in SUBSET HookEvents : flight = chain[k].inFlight
    BY <1>2 DEF ChainSet
  <1>4. PICK line \in Seq(HookEvents) : line = chain[k].line
    BY <1>2 DEF ChainSet
  <1>5. \A i \in 1 .. Len(line) : /\ line[i] \in flight /\ line[i] # e
                                  /\ \A j \in 1 .. Len(line) : i # j => line[i] # line[j]
    BY <1>1, <1>2, <1>3, <1>4 DEF Marked
  <1>6. Start(c, e, flight, line)
    BY <1>1, <1>3, <1>4
  <1> QED BY <1>5, <1>6, StartStep

LEMMA FireFromWorkerStep ==
    ASSUME HookInv, NEW c \in Chains, NEW p \in Sandboxed, NEW k \in Chains \cup {"none"}, NEW e \in HookEvents,
           FireFromWorker(c, p, k, e)
    PROVE  HookInv'
  <1>1. Start(c, e, Pending(p, k), <<>>)
    BY DEF FireFromWorker
  <1>2. PICK flight : flight = Pending(p, k)
    OBVIOUS
  <1>3. flight \in SUBSET HookEvents
    <2>1. \A d \in AwaitedBy(p) : chain[d].event \in HookEvents
      BY DEF AwaitedBy, Running, HookInv, ChainIs
    <2> QED BY <1>2, <2>1 DEF Pending
  <1>4. PICK line : line = <<>>
    OBVIOUS
  <1>5. line \in Seq(HookEvents)
    BY <1>4
  <1>6. \A i \in 1 .. Len(line) : /\ line[i] \in flight /\ line[i] # e
                                  /\ \A j \in 1 .. Len(line) : i # j => line[i] # line[j]
    <2>1. Len(line) = 0
      BY <1>4
    <2> QED BY <2>1
  <1>7. Start(c, e, flight, line)
    BY <1>1, <1>2, <1>4
  <1>8. HookInv
    OBVIOUS
  <1> QED BY ONLY <1>3, <1>5, <1>6, <1>7, <1>8, c \in Chains, e \in HookEvents, StartStep

LEMMA AnsweredStep == ASSUME HookInv, NEW c \in Chains, NEW a \in Answers, Answered(c, a) PROVE HookInv'
  <1>1. PICK l : l = ListOf(c)
    OBVIOUS
  <1>2. PICK k : k = chain[c]
    OBVIOUS
  <1>3. PICK next : next = (a.continue /\ k.at < Len(l))
    OBVIOUS
  <1>4. PICK st : st = IF next THEN "running" ELSE IF a.continue THEN "over" ELSE "stopped"
    OBVIOUS
  <1>5. PICK on : on = IF next THEN l[k.at + 1] ELSE k.on
    OBVIOUS
  <1>6. PICK seen : seen = IF k.edited THEN k.seen ELSE Append(k.seen, k.on)
    OBVIOUS
  <1>7. PICK at : at = k.at + 1
    OBVIOUS
  <1>8. PICK k1 : k1 = [k EXCEPT !.state = st, !.at = at, !.on = on, !.seen = seen]
    OBVIOUS
  <1>9. Running(c) /\ chain' = [chain EXCEPT ![c] = k1] /\ UNCHANGED <<hooks, regs>>
    <2>1. /\ Running(c) /\ UNCHANGED <<hooks, regs>>
          /\ chain' = [chain EXCEPT ![c] = [chain[c] EXCEPT
                          !.state = IF HasNext(c, a) THEN "running" ELSE IF a.continue THEN "over" ELSE "stopped",
                          !.at = chain[c].at + 1,
                          !.on = IF HasNext(c, a) THEN ListOf(c)[chain[c].at + 1] ELSE chain[c].on,
                          !.seen = IF chain[c].edited THEN chain[c].seen ELSE Append(chain[c].seen, chain[c].on)]]
      BY DEF Answered
    <2>2. HasNext(c, a) <=> next
      BY <1>1, <1>2, <1>3 DEF HasNext
    <2>3. st = IF HasNext(c, a) THEN "running" ELSE IF a.continue THEN "over" ELSE "stopped"
      BY <1>4, <2>2
    <2>4. on = IF HasNext(c, a) THEN ListOf(c)[chain[c].at + 1] ELSE chain[c].on
      BY <1>1, <1>2, <1>5, <2>2
    <2>5. seen = IF chain[c].edited THEN chain[c].seen ELSE Append(chain[c].seen, chain[c].on)
      BY <1>2, <1>6
    <2>6. at = chain[c].at + 1
      BY <1>2, <1>7
    <2>7. chain' = [chain EXCEPT ![c] = [chain[c] EXCEPT !.state = st, !.at = at, !.on = on, !.seen = seen]]
      BY ONLY <2>1, <2>3, <2>4, <2>5, <2>6
    <2> QED BY <1>2, <1>8, <2>1, <2>7
  <1>10. k \in ChainSet /\ ChainIs(k, l) /\ k.state = "running"
    BY <1>1, <1>2, <1>9 DEF HookInv, Running
  <1>11. /\ Marked(k) /\ k.event \in HookEvents /\ IsList(l) /\ l \in Seq(Registrations) /\ k.at \in Nat /\ Len(l) \in Nat
         /\ DOMAIN l = 1 .. Len(l)
         /\ ~k.edited => /\ k.at \in 1 .. Len(l) /\ k.on = l[k.at] /\ k.present = Range(l)
                         /\ Len(k.seen) = k.at - 1 /\ \A i \in 1 .. k.at - 1 : k.seen[i] = l[i]
    BY <1>10 DEF ChainIs, RunsAs, IsList, ChainSet
  <1>12. k.seen \in Seq(Registrations) /\ k.on \in Registrations \cup {<<>>}
    BY <1>10 DEF ChainSet
  <1>13. seen \in Seq(Registrations) /\ (~k.edited => Len(seen) = k.at /\ \A i \in 1 .. k.at : seen[i] = l[i])
    <2>1. CASE k.edited
      BY <1>6, <1>12, <2>1
    <2>2. CASE ~k.edited
      <3>1. PICK s \in Seq(Registrations) : s = k.seen
        BY <1>12
      <3>2. PICK x \in Registrations : x = k.on
        BY <1>11, <2>2
      <3>3. seen = Append(s, x)
        BY <1>6, <2>2, <3>1, <3>2
      <3>4. /\ seen \in Seq(Registrations) /\ Len(seen) = Len(s) + 1
            /\ \A i \in 1 .. Len(s) : seen[i] = s[i]
            /\ seen[Len(s) + 1] = x
        BY <3>3, AppendProperties
      <3>5. Len(s) = k.at - 1 /\ \A i \in 1 .. k.at - 1 : s[i] = l[i]
        BY <1>11, <2>2, <3>1
      <3>6. x = l[k.at]
        BY <1>11, <2>2, <3>2
      <3>7. PICK n \in Nat : n = k.at /\ n >= 1
        BY <1>11, <2>2
      <3>8. Len(s) = n - 1 /\ Len(seen) = n
        BY <3>4, <3>5, <3>7
      <3>9. ASSUME NEW i \in 1 .. n PROVE seen[i] = l[i]
        <4>1. CASE i = n
          BY <3>4, <3>6, <3>7, <3>8, <4>1
        <4>2. CASE i # n
          <5>1. i \in 1 .. n - 1
            BY <4>2
          <5> QED BY <3>4, <3>5, <3>7, <3>8, <5>1
        <4> QED BY <4>1, <4>2
      <3> QED BY <3>4, <3>7, <3>8, <3>9
    <2> QED BY <2>1, <2>2
  <1>14. next => k.at + 1 \in 1 .. Len(l) /\ l[k.at + 1] \in Registrations
    <2>1. ASSUME next PROVE k.at + 1 \in 1 .. Len(l)
      <3>1. k.at < Len(l)
        BY <1>3, <2>1, Zenon
      <3>2. k.at \in Nat /\ Len(l) \in Nat
        BY <1>11
      <3> QED BY ONLY <3>1, <3>2
    <2>2. \A i \in 1 .. Len(l) : l[i] \in Registrations
      BY <1>11
    <2> QED BY <2>1, <2>2
  <1>15. /\ k1 \in ChainSet /\ k1.state = st /\ k1.at = at /\ k1.on = on /\ k1.seen = seen
         /\ k1.event = k.event /\ k1.inFlight = k.inFlight /\ k1.list = k.list /\ k1.live = k.live
         /\ k1.line = k.line /\ k1.present = k.present /\ k1.edited = k.edited
    <2>1. st \in {"idle", "running", "stopped", "over"} /\ at \in Nat
      BY <1>4, <1>7, <1>11
    <2>2. on \in Registrations \cup {<<>>}
      BY <1>5, <1>12, <1>14
    <2>3. k1 \in ChainSet
      BY <1>8, <1>10, <1>13, <2>1, <2>2 DEF ChainSet
    <2> QED BY <1>8, <1>10, <2>3 DEF ChainSet
  <1>16. (IF k1.live THEN hooks[k1.event] ELSE k1.list) = l
    BY <1>1, <1>2, <1>15 DEF ListOf
  <1>17. Marked(k1)
    BY <1>11, <1>15 DEF Marked
  <1>18. st = "running" => RunsAs(k1, l)
    <2>1. ASSUME st = "running", ~k.edited
          PROVE  at \in 1 .. Len(l) /\ on = l[at] /\ k.present = Range(l) /\ Len(seen) = at - 1 /\ \A i \in 1 .. at - 1 : seen[i] = l[i]
      <3>1. next
        BY <1>4, <2>1
      <3>2. at - 1 = k.at
        BY <1>7, <1>11
      <3> QED BY <1>5, <1>7, <1>11, <1>13, <1>14, <2>1, <3>1, <3>2
    <2> QED BY <1>11, <1>15, <2>1 DEF RunsAs
  <1>19. EndedAs(k1) \/ st = "running"
    <2>1. ASSUME ~k.edited, NEW i \in 1 .. Len(seen), NEW j \in 1 .. Len(seen), i # j PROVE seen[i].id # seen[j].id
      <3>1. i \in 1 .. Len(l) /\ j \in 1 .. Len(l) /\ seen[i] = l[i] /\ seen[j] = l[j]
        BY <1>11, <1>13, <2>1
      <3>2. i < j \/ j < i
        BY <1>11, <2>1, <3>1
      <3> QED BY <1>11, <3>1, <3>2 DEF IsList
    <2>2. ASSUME ~k.edited, st = "over" PROVE Range(seen) = k.present
      <3>1. ~next /\ a.continue
        BY <1>4, <2>2
      <3>2. k.at = Len(l)
        <4>1. ~(k.at < Len(l))
          BY <1>3, <3>1, Zenon
        <4>2. k.at \in 1 .. Len(l) /\ Len(l) \in Nat
          BY <1>11, <2>2
        <4> QED BY ONLY <4>1, <4>2
      <3>3. DOMAIN seen = 1 .. Len(l) /\ \A i \in 1 .. Len(l) : seen[i] = l[i]
        BY <1>13, <2>2, <3>2
      <3>4. Range(seen) = {l[i] : i \in 1 .. Len(l)}
        BY <3>3 DEF Range
      <3>5. Range(l) = {l[i] : i \in 1 .. Len(l)}
        BY <1>11 DEF Range
      <3> QED BY <1>11, <2>2, <3>4, <3>5
    <2> QED BY <1>15, <2>1, <2>2 DEF EndedAs
  <1>20. ChainIs(k1, IF k1.live THEN hooks[k1.event] ELSE k1.list)
    <2>1. k1.event \in k1.inFlight /\ k1.event \in HookEvents
      BY <1>10, <1>15 DEF ChainIs
    <2>2. st = "running" => k1.on \in Registrations
      <3>1. st = "running" => next
        BY <1>4
      <3> QED BY <1>5, <1>14, <1>15, <3>1
    <2>3. k1.state = st /\ k1.state # "idle"
      BY <1>4, <1>15
    <2>4. ChainIs(k1, l)
      BY <1>17, <1>18, <1>19, <2>1, <2>2, <2>3 DEF ChainIs
    <2> QED BY <1>16, <2>4
  <1> QED BY <1>9, <1>15, <1>20, OneChain

LEMMA ReturnStep == ASSUME HookInv, NEW c \in Chains, Return(c) PROVE HookInv'
  <1>1. chain' = [chain EXCEPT ![c] = IdleChain] /\ UNCHANGED <<hooks, regs>>
    BY DEF Return
  <1>2. PICK k \in ChainSet : k = IdleChain
    BY IdleIs
  <1>3. ChainIs(k, IF k.live THEN hooks[k.event] ELSE k.list)
    BY <1>2, IdleIs
  <1> QED BY <1>1, <1>2, <1>3, OneChain

LEMMA HooksStep == HookInv /\ [HookNext]_hookVars => HookInv'
  <1> SUFFICES ASSUME HookInv, [HookNext]_hookVars PROVE HookInv'
    OBVIOUS
  <1>1. CASE \E p \in HookPlugins : UnregisterPlugin(p)
    BY <1>1, UnregisterPluginStep
  <1>2. CASE \E e \in HookEvents, p \in HookPlugins, n \in Priorities : Register(p, e, n)
    BY <1>2, RegisterStep
  <1>3. CASE \E e \in HookEvents : \E i \in DOMAIN hooks[e] : Unregister(e, i)
    BY <1>3, UnregisterStep
  <1>4. CASE \E e \in HookEvents, c \in Chains : Fire(c, e) \/ \E k \in Chains : FireInside(c, k, e)
    BY <1>4, FireStep, FireInsideStep
  <1>5. CASE \E e \in HookEvents, c \in Chains, p \in Sandboxed, k \in Chains \cup {"none"} : FireFromWorker(c, p, k, e)
    BY <1>5, FireFromWorkerStep
  <1>6. CASE \E c \in Chains : Return(c) \/ \E a \in Answers : Answered(c, a)
    BY <1>6, ReturnStep, AnsweredStep
  <1>7. CASE UNCHANGED hookVars
    <2>1. UNCHANGED <<hooks, chain, regs>>
      BY <1>7 DEF hookVars
    <2>2. \A c \in Chains : ListOf(c)' = ListOf(c)
      BY <2>1 DEF ListOf
    <2> QED BY <2>1, <2>2 DEF HookInv
  <1> QED BY <1>1, <1>2, <1>3, <1>4, <1>5, <1>6, <1>7 DEF HookNext

LEMMA HooksHold == HookInv => ChainsAreSound
  <1> SUFFICES ASSUME HookInv PROVE ChainsAreSound
    OBVIOUS
  <1>1. InOrder
    <2>1. \A e \in HookEvents : IsList(hooks[e]) /\ DOMAIN hooks[e] = 1 .. Len(hooks[e])
      BY DEF HookInv, IsList
    <2> QED BY <2>1 DEF InOrder, IsList
  <1>2. CalledOnce
    <2> DEFINE CalledIds(c) == [i \in DOMAIN chain[c].seen |-> chain[c].seen[i].id]
    <2>1. ASSUME NEW c \in Chains, chain[c].state \in {"over", "stopped"}, ~chain[c].edited
          PROVE  /\ \A i, j \in DOMAIN CalledIds(c) : i # j => CalledIds(c)[i] # CalledIds(c)[j]
                 /\ chain[c].state = "over" => Range(chain[c].seen) = chain[c].present
      <3>1. EndedAs(chain[c]) /\ chain[c] \in ChainSet
        BY <2>1 DEF HookInv, ChainIs
      <3>2. PICK s \in Seq(Registrations) : s = chain[c].seen
        BY <3>1 DEF ChainSet
      <3>3. DOMAIN CalledIds(c) = 1 .. Len(s) /\ \A i \in 1 .. Len(s) : CalledIds(c)[i] = s[i].id
        BY <3>2
      <3>4. \A i, j \in 1 .. Len(s) : i # j => s[i].id # s[j].id
        BY <2>1, <3>1, <3>2 DEF EndedAs
      <3>5. chain[c].state = "over" => Range(chain[c].seen) = chain[c].present
        BY <2>1, <3>1 DEF EndedAs
      <3> HIDE DEF CalledIds
      <3> QED BY <3>3, <3>4, <3>5
    <2> QED BY <2>1, Zenon DEF CalledOnce
  <1>3. NoReentry
    <2>1. ASSUME NEW c \in Chains, NEW i \in DOMAIN chain[c].line, NEW j \in DOMAIN chain[c].line, i # j
          PROVE  chain[c].line[i] # chain[c].line[j]
      <3>1. chain[c] \in ChainSet /\ Marked(chain[c])
        BY DEF HookInv, ChainIs
      <3>2. chain[c].line \in Seq(HookEvents)
        BY <3>1 DEF ChainSet
      <3>3. i \in 1 .. Len(chain[c].line) /\ j \in 1 .. Len(chain[c].line)
        BY <3>2
      <3> QED BY <2>1, <3>1, <3>3 DEF Marked
    <2> QED BY <2>1 DEF NoReentry
  <1> QED BY <1>1, <1>2, <1>3 DEF ChainsAreSound

LEMMA HooksTyped == HookInv => HookTypeOK
  <1> SUFFICES ASSUME HookInv PROVE HookTypeOK
    OBVIOUS
  <1>1. ASSUME NEW e \in HookEvents, NEW i \in DOMAIN hooks[e] PROVE hooks[e][i] \in Registrations
    <2>1. hooks[e] \in Seq(Registrations)
      BY DEF HookInv
    <2> QED BY <2>1
  <1>2. ASSUME NEW c \in Chains
        PROVE  /\ chain[c].state \in {"idle", "running", "stopped", "over"}
               /\ Running(c) => chain[c].event \in chain[c].inFlight /\ chain[c].on \in Registrations
    <2>1. chain[c] \in ChainSet /\ ChainIs(chain[c], ListOf(c))
      BY DEF HookInv
    <2> QED BY <2>1 DEF ChainSet, ChainIs, Running
  <1> QED BY <1>1, <1>2 DEF HookTypeOK, HookInv

-----------------------------------------------------------------------------
(* The restore                                                              *)

Closed(s) == \A r \in s : Owned(r) => SessionRow(r) \in s

\* A set of rows is an earlier one, but for what went and what came since.
Accounted(s, now, gone, new) == s \ gone \subseteq now /\ now \subseteq s \cup new

RestoreSet ==
    [stage : {"idle", "clearing", "inserting", "imported", "refused", "failed"}, todo : Seq(BackupTables),
     rows : SUBSET Rows, source : SUBSET Rows, warned : BOOLEAN, count : Nat]
ExportSet == [todo : Seq(BackupTables), rows : SUBSET Rows]

BackupTypes ==
    /\ database \in Databases
    /\ db \in SUBSET Rows /\ cleared \in SUBSET Rows /\ inserted \in SUBSET Rows /\ dump \in SUBSET Rows
    /\ restore \in RestoreSet /\ export \in ExportSet

\* What the transaction sees is closed as well; what is left of the tables to clear are rows of clients.
Halfway ==
    /\ restore.stage = "clearing" =>
          /\ restore.rows = restore.source /\ Len(restore.todo) >= 1
          /\ \A r \in Working \ saved : \E i \in 1 .. Len(restore.todo) : restore.todo[i] = r[1]
    /\ restore.stage = "inserting" =>
          /\ restore.rows \subseteq restore.source
          /\ Working \subseteq (restore.source \ restore.rows) \cup saved
          /\ ~restore.warned => (restore.source \ restore.rows) \ erased \subseteq Working

KeptRows ==
    /\ restore.stage \in {"clearing", "inserting", "refused", "failed"} => Accounted(start, db, erased, saved)
    /\ InTransaction /\ database = "sqlite" => db = start
    /\ restore.stage = "imported" => Accounted(restore.source, db, erased, saved)

BackupInv ==
    /\ BackupTypes
    /\ ~InTransaction => cleared = {} /\ inserted = {}
    /\ Closed(db) /\ Closed(Working)
    /\ Halfway /\ KeptRows

\* The part of a sequence that keeps its first element.
LEMMA PickedCovers ==
    ASSUME NEW S, NEW T, NEW s \in Seq(S), NEW I \in SUBSET (1 .. Len(s)), 1 \in I, \A i \in I : s[i] \in T,
           NEW p, p = Picked(s, I)
    PROVE  /\ p \in Seq(T) /\ Len(p) \in Nat /\ 1 \in 1 .. Len(p) /\ p[1] = s[1]
           /\ \A i \in I : \E n \in 1 .. Len(p) : p[n] = s[i]
  <1>1. p \in Seq(S) /\ Len(p) \in Nat /\ Len(p) = Cardinality(I)
    BY PickedIs
  <1>2. ASSUME NEW n \in 1 .. Len(p) PROVE p[n] \in T
    <2>1. PICK f \in [1 .. Len(p) -> I] : \A k \in 1 .. Len(p) : p[k] = s[f[k]]
      BY PickedIs
    <2> QED BY <2>1
  <1>3. p \in Seq(T)
    <2>1. p \in [1 .. Len(p) -> S]
      BY <1>1
    <2>2. p \in [1 .. Len(p) -> T]
      BY <1>2, <2>1
    <2> QED BY <1>1, <2>2
  <1>4. PICK m \in Nat : m = Len(s)
    OBVIOUS
  <1>5. ASSUME NEW i \in I PROVE Rank(I, i) \in 1 .. Len(p) /\ p[Rank(I, i)] = s[i]
    <2>1. I \in SUBSET (1 .. m)
      BY <1>4
    <2> QED BY <1>1, <2>1, PickedAt
  <1>6. Rank(I, 1) = 1
    <2>0. \A j \in I : j <= 1 <=> j = 1
      <3>1. \A j \in I : j \in 1 .. m
        BY <1>4
      <3> QED BY <3>1
    <2>1. {j \in I : j <= 1} = {1}
      BY <2>0
    <2> QED BY <2>1, FS_Singleton DEF Rank
  <1>7. 1 \in 1 .. Len(p) /\ p[1] = s[1]
    BY <1>5, <1>6
  <1>8. \A i \in I : \E n \in 1 .. Len(p) : p[n] = s[i]
    BY <1>5
  <1> QED BY <1>1, <1>3, <1>7, <1>8

\* Every table is read, and every table is cleared.
LEMMA OrdersCover ==
    /\ ReadOrder \in Seq(BackupTables) /\ ClearOrder \in Seq(BackupTables) /\ Len(ClearOrder) >= 1
    /\ \A t \in BackupTables : \E i \in 1 .. Len(ClearOrder) : ClearOrder[i] = t
  <1>1. PICK s : s = AllTables
    OBVIOUS
  <1>2. /\ s[1] = "sessions" /\ s[2] = "webhooks" /\ s[3] = "messages" /\ s[4] = "message_batches"
        /\ s[5] = "templates" /\ s[6] = "baileys_stored_messages" /\ s[7] = "lid_mappings"
        /\ s[8] = "plugin_instances" /\ s[9] = "conversation_mappings" /\ s[10] = "ingress_events"
        /\ s[11] = "webhook_delivery_failures" /\ s[12] = "integration_delivery_failures"
    BY <1>1 DEF AllTables
  <1>3. Len(s) = 12 /\ DOMAIN s = 1 .. 12
    BY <1>1 DEF AllTables
  <1>4. s \in Seq(Tables)
    <2>1. s \in [1 .. 12 -> Tables]
      BY <1>1 DEF AllTables, Tables, EntityColumns
    <2>2. \A T, n : n \in Nat /\ s \in [1 .. n -> T] => s \in Seq(T)
      OBVIOUS
    <2> QED BY <2>1, <2>2
  <1>5. Tables = {"sessions", "webhooks", "messages", "message_batches", "templates", "baileys_stored_messages",
                  "lid_mappings", "plugin_instances", "conversation_mappings", "ingress_events",
                  "webhook_delivery_failures", "integration_delivery_failures"}
    BY DEF Tables, EntityColumns
  <1>6. \A t \in Tables : \E i \in 1 .. 12 : s[i] = t
    BY <1>2, <1>5
  <1>7. PICK I \in SUBSET (1 .. Len(s)) : I = {i \in DOMAIN s : s[i] \in BackupTables}
    BY <1>3
  <1>8. 1 \in I /\ \A i \in I : s[i] \in BackupTables
    BY <1>2, <1>3, <1>7, BackupAssumption
  <1>9. PICK p : p = Picked(s, I)
    OBVIOUS
  <1>10. /\ p \in Seq(BackupTables) /\ Len(p) \in Nat /\ 1 \in 1 .. Len(p) /\ p[1] = s[1]
         /\ \A i \in I : \E n \in 1 .. Len(p) : p[n] = s[i]
    BY ONLY <1>4, <1>8, <1>9, PickedCovers
  <1>15. PICK r : r = Tail(p)
    OBVIOUS
  <1>16. r \in Seq(BackupTables) /\ Len(r) = Len(p) - 1 /\ \A i \in 1 .. Len(r) : r[i] = p[i + 1]
    BY <1>10, <1>15, HeadTailProperties, EmptySeq
  <1>17. PICK c : c = Append(r, "sessions")
    OBVIOUS
  <1>18. /\ c \in Seq(BackupTables) /\ Len(c) = Len(p) /\ \A i \in 1 .. Len(r) : c[i] = r[i]
         /\ c[Len(p)] = "sessions"
    BY <1>10, <1>16, <1>17, BackupAssumption, AppendProperties
  <1>19. ASSUME NEW t \in BackupTables PROVE \E i \in 1 .. Len(c) : c[i] = t
    <2>1. CASE t = "sessions"
      BY <1>10, <1>18, <2>1
    <2>2. CASE t # "sessions"
      <3>1. PICK i \in 1 .. 12 : s[i] = t
        BY <1>6, BackupAssumption
      <3>2. i \in I
        BY <1>3, <1>7, <3>1
      <3>3. PICK n \in 1 .. Len(p) : p[n] = s[i]
        BY <1>10, <3>2
      <3>4. p[n] = t
        BY <3>1, <3>3
      <3>5. n # 1
        BY <1>2, <1>10, <2>2, <3>4
      <3>6. n - 1 \in 1 .. Len(r) /\ n - 1 \in 1 .. Len(c) /\ (n - 1) + 1 = n
        BY <1>10, <1>16, <1>18, <3>5
      <3>7. c[n - 1] = t
        BY <1>16, <1>18, <3>4, <3>6
      <3> QED BY <3>6, <3>7
    <2> QED BY <2>1, <2>2
  <1>20. ReadOrder = p /\ ClearOrder = c
    BY <1>1, <1>7, <1>9, <1>15, <1>17 DEF ReadOrder, ClearOrder
  <1> QED BY <1>10, <1>18, <1>19, <1>20

LEMMA InitBackups == BackupInit => BackupInv
  <1> SUFFICES ASSUME BackupInit PROVE BackupInv
    OBVIOUS
  <1>1. /\ database \in Databases /\ db \in SUBSET Rows /\ Closed(db) /\ cleared = {} /\ inserted = {}
        /\ export = NoExport /\ dump = {} /\ restore = NoRestore
    BY DEF BackupInit, Closed
  <1>2. NoExport \in ExportSet
    BY EmptySeq DEF NoExport, ExportSet
  <1>3. NoRestore \in RestoreSet /\ NoRestore.stage = "idle"
    BY EmptySeq DEF NoRestore, RestoreSet
  <1>4. BackupTypes
    BY <1>1, <1>2, <1>3 DEF BackupTypes
  <1>5. Working = db /\ restore.stage = "idle" /\ ~InTransaction
    BY <1>1, <1>3 DEF Working, InTransaction
  <1> QED BY <1>1, <1>4, <1>5 DEF BackupInv, Halfway, KeptRows

\* What goes with its session leaves nothing behind.
LEMMA ClosedWithout ==
    ASSUME NEW s \in SUBSET Rows, NEW x, NEW y, y = s \ WithCascade(x), Closed(s)
    PROVE  Closed(y)
  <1>1. ASSUME NEW q \in y, Owned(q) PROVE SessionRow(q) \in y
    <2>1. q \in s /\ q \in Rows /\ q \notin WithCascade(x) /\ SessionRow(q) \in s
      BY <1>1 DEF Closed
    <2>2. SessionRow(q) \notin x
      BY <1>1, <2>1 DEF WithCascade
    <2>3. ~Owned(SessionRow(q))
      BY DEF Owned, SessionRow, OwnedTables
    <2>4. SessionRow(q) \notin WithCascade(x)
      BY <2>2, <2>3 DEF WithCascade
    <2> QED BY <2>1, <2>4
  <1> QED BY <1>1 DEF Closed

\* A row a client saves is there for the transaction as well.
LEMMA SaveWorks ==
    ASSUME BackupInv, NEW r \in Rows, ClientSaves(r)
    PROVE  /\ Working' = Working \cup {r} /\ (Owned(r) => SessionRow(r) \in Working)
           /\ saved' = saved \cup {r} /\ erased' = erased \ {r}
           /\ UNCHANGED <<database, export, dump, restore, start>>
           /\ cleared' = cleared /\ inserted' \in SUBSET Rows
           /\ \/ /\ db' = db \cup {r} /\ (Owned(r) => SessionRow(r) \in db) /\ inserted' = inserted
                 /\ ~(InTransaction /\ database = "sqlite")
              \/ db' = db /\ InTransaction /\ database = "sqlite"
  <1>1. /\ (Owned(r) => SessionRow(r) \in Visible) /\ r \notin Visible
        /\ ~Locked({r} \cup (IF Owned(r) THEN {SessionRow(r)} ELSE {}))
        /\ saved' = saved \cup {r} /\ erased' = erased \ {r} /\ UNCHANGED <<database, export, dump, restore, start>>
    BY DEF ClientSaves
  <1>2. database \in {"sqlite", "postgres"} /\ inserted \in SUBSET Rows
    BY BackupAssumption DEF BackupInv, BackupTypes
  <1>3. CASE database = "sqlite" /\ InTransaction
    <2>1. inserted' = inserted \cup {r} /\ UNCHANGED <<db, cleared>>
      BY <1>3 DEF ClientSaves
    <2> QED BY <1>1, <1>2, <1>3, <2>1 DEF Working, Visible
  <1>4. CASE ~(database = "sqlite" /\ InTransaction)
    <2>1. db' = db \cup {r} /\ UNCHANGED <<cleared, inserted>>
      BY <1>4 DEF ClientSaves
    <2>2. CASE InTransaction
      <3>1. r \notin cleared /\ (Owned(r) => SessionRow(r) \notin cleared)
        BY <1>1, <1>2, <1>4, <2>2 DEF Locked
      <3>2. Visible = db
        BY <1>4, <2>2 DEF Visible
      <3> QED BY <1>1, <1>2, <1>4, <2>1, <3>1, <3>2 DEF Working
    <2>3. CASE ~InTransaction
      <3>1. cleared = {} /\ inserted = {}
        BY <2>3 DEF BackupInv
      <3> QED BY <1>1, <1>2, <1>4, <2>1, <3>1 DEF Working, Visible
    <2> QED BY <2>2, <2>3
  <1> QED BY <1>3, <1>4

LEMMA RemoveWorks ==
    ASSUME BackupInv, NEW r \in Rows, ClientRemoves(r), NEW w, w = WithCascade({r})
    PROVE  /\ Working' = Working \ w
           /\ saved' = saved \ w /\ erased' = erased \cup w
           /\ UNCHANGED <<database, export, dump, restore, start>>
           /\ cleared' \in SUBSET Rows /\ inserted' \in SUBSET Rows
           /\ \/ db' = db \ w /\ cleared' = cleared /\ inserted' = inserted /\ ~(InTransaction /\ database = "sqlite")
              \/ db' = db /\ InTransaction /\ database = "sqlite"
  <1>1. /\ ~Locked(w) /\ saved' = saved \ w /\ erased' = erased \cup w
        /\ UNCHANGED <<database, export, dump, restore, start>>
    BY DEF ClientRemoves
  <1>2. database \in {"sqlite", "postgres"} /\ inserted \in SUBSET Rows /\ cleared \in SUBSET Rows /\ db \in SUBSET Rows
    BY BackupAssumption DEF BackupInv, BackupTypes
  <1>3. CASE database = "sqlite" /\ InTransaction
    <2>1. cleared' = cleared \cup (w \cap db) /\ inserted' = inserted \ w /\ UNCHANGED db
      BY <1>3 DEF ClientRemoves, Deletes
    <2> QED BY <1>1, <1>2, <1>3, <2>1 DEF Working
  <1>4. CASE ~(database = "sqlite" /\ InTransaction)
    <2>1. db' = db \ w /\ UNCHANGED <<cleared, inserted>>
      BY <1>4 DEF ClientRemoves
    <2>2. w \cap inserted = {}
      <3>1. CASE InTransaction
        BY <1>1, <1>2, <1>4, <3>1 DEF Locked
      <3>2. CASE ~InTransaction
        BY <3>2 DEF BackupInv
      <3> QED BY <3>1, <3>2
    <2> QED BY <1>1, <1>2, <1>4, <2>1, <2>2 DEF Working
  <1> QED BY <1>3, <1>4

LEMMA SavesStep == ASSUME BackupInv, NEW r \in Rows, ClientSaves(r) PROVE BackupInv'
  <1>1. /\ Working' = Working \cup {r} /\ (Owned(r) => SessionRow(r) \in Working)
        /\ saved' = saved \cup {r} /\ erased' = erased \ {r}
        /\ UNCHANGED <<database, export, dump, restore, start>>
        /\ cleared' = cleared /\ inserted' \in SUBSET Rows
        /\ \/ /\ db' = db \cup {r} /\ (Owned(r) => SessionRow(r) \in db) /\ inserted' = inserted
              /\ ~(InTransaction /\ database = "sqlite")
           \/ db' = db /\ InTransaction /\ database = "sqlite"
    BY SaveWorks
  <1>2. InTransaction' = InTransaction
    BY <1>1 DEF InTransaction
  <1>3. BackupTypes'
    BY <1>1 DEF BackupTypes, BackupInv
  <1>4. (~InTransaction => cleared = {} /\ inserted = {})'
    BY <1>1, <1>2 DEF BackupInv
  <1>5. Closed(db')
    BY <1>1 DEF BackupInv, Closed
  <1>6. Closed(Working')
    BY <1>1 DEF BackupInv, Closed
  <1>7. Halfway'
    BY <1>1 DEF BackupInv, Halfway
  <1>8. KeptRows'
    <2>1. KeptRows
      BY DEF BackupInv
    <2>2. CASE InTransaction /\ database = "sqlite"
      <3>1. db' = start /\ restore.stage # "imported" /\ start' = start
        BY <1>1, <2>1, <2>2 DEF KeptRows, InTransaction
      <3>2. Accounted(start', db', erased', saved')
        BY <3>1 DEF Accounted
      <3> QED BY <1>1, <3>1, <3>2 DEF KeptRows
    <2>3. CASE ~(InTransaction /\ database = "sqlite")
      <3>1. db' = db \cup {r}
        BY <1>1, <2>3
      <3>2. \A s : Accounted(s, db, erased, saved) => Accounted(s, db', erased', saved')
        BY <1>1, <3>1 DEF Accounted
      <3>3. ~(InTransaction' /\ database' = "sqlite")
        BY <1>1, <1>2, <2>3
      <3> QED BY <1>1, <2>1, <3>2, <3>3 DEF KeptRows
    <2> QED BY <2>2, <2>3
  <1> QED BY <1>3, <1>4, <1>5, <1>6, <1>7, <1>8 DEF BackupInv

LEMMA RemovesStep == ASSUME BackupInv, NEW r \in Rows, ClientRemoves(r) PROVE BackupInv'
  <1>0. PICK w : w = WithCascade({r})
    OBVIOUS
  <1>1. /\ Working' = Working \ w
        /\ saved' = saved \ w /\ erased' = erased \cup w
        /\ UNCHANGED <<database, export, dump, restore, start>>
        /\ cleared' \in SUBSET Rows /\ inserted' \in SUBSET Rows
        /\ \/ db' = db \ w /\ cleared' = cleared /\ inserted' = inserted /\ ~(InTransaction /\ database = "sqlite")
           \/ db' = db /\ InTransaction /\ database = "sqlite"
    BY <1>0, RemoveWorks
  <1>2. InTransaction' = InTransaction
    BY <1>1 DEF InTransaction
  <1>3. BackupTypes /\ Closed(db) /\ Closed(Working) /\ db \in SUBSET Rows /\ Working \in SUBSET Rows
    BY DEF BackupInv, BackupTypes, Working
  <1>4. BackupTypes'
    BY <1>1, <1>3 DEF BackupTypes
  <1>5. (~InTransaction => cleared = {} /\ inserted = {})'
    BY <1>1, <1>2 DEF BackupInv
  <1>6. Closed(db')
    <2>1. CASE db' = db
      BY <1>3, <2>1
    <2>2. CASE db' = db \ w
      <3>1. PICK y : y = db'
        OBVIOUS
      <3>2. PICK s \in SUBSET Rows : s = db
        BY <1>3
      <3>3. y = s \ WithCascade({r}) /\ Closed(s)
        BY <1>0, <1>3, <2>2, <3>1, <3>2
      <3>4. Closed(y)
        BY ONLY <3>3, ClosedWithout
      <3> QED BY <3>1, <3>4
    <2> QED BY <1>1, <2>1, <2>2
  <1>7. Closed(Working')
    <2>1. PICK y : y = Working'
      OBVIOUS
    <2>2. PICK s \in SUBSET Rows : s = Working
      BY <1>3
    <2>3. y = s \ WithCascade({r}) /\ Closed(s)
      BY <1>0, <1>1, <1>3, <2>1, <2>2
    <2>4. Closed(y)
      BY ONLY <2>3, ClosedWithout
    <2> QED BY <2>1, <2>4
  <1>8. Halfway'
    BY <1>1 DEF BackupInv, Halfway
  <1>9. KeptRows'
    <2>1. KeptRows
      BY DEF BackupInv
    <2>2. CASE InTransaction /\ database = "sqlite"
      <3>1. db' = start /\ restore.stage # "imported" /\ start' = start
        BY <1>1, <2>1, <2>2 DEF KeptRows, InTransaction
      <3>2. Accounted(start', db', erased', saved')
        BY <3>1 DEF Accounted
      <3> QED BY <1>1, <3>1, <3>2 DEF KeptRows
    <2>3. CASE ~(InTransaction /\ database = "sqlite")
      <3>1. db' = db \ w
        BY <1>1, <2>3
      <3>2. \A s : Accounted(s, db, erased, saved) => Accounted(s, db', erased', saved')
        BY <1>1, <3>1 DEF Accounted
      <3>3. ~(InTransaction' /\ database' = "sqlite")
        BY <1>1, <1>2, <2>3
      <3> QED BY <1>1, <2>1, <3>2, <3>3 DEF KeptRows
    <2> QED BY <2>2, <2>3
  <1> QED BY <1>4, <1>5, <1>6, <1>7, <1>8, <1>9 DEF BackupInv

LEMMA ExportsStep == ASSUME BackupInv, ExportBegins \/ ExportReads \/ ExportEnds PROVE BackupInv'
  <1>1. UNCHANGED <<database, db, cleared, inserted, restore, writes, start, saved, erased>>
    BY DEF ExportBegins, ExportReads, ExportEnds, history
  <1>2. Working \in SUBSET Rows /\ Working' = Working /\ InTransaction' = InTransaction
    BY <1>1 DEF Working, InTransaction, BackupInv, BackupTypes
  <1>3. NoExport \in ExportSet
    BY EmptySeq DEF NoExport, ExportSet
  <1>4. export \in ExportSet /\ dump \in SUBSET Rows
    BY DEF BackupInv, BackupTypes
  <1>5. export' \in ExportSet /\ dump' \in SUBSET Rows
    <2>1. CASE ExportBegins
      <3>1. PICK p \in Seq(BackupTables) : p = ReadOrder
        BY OrdersCover
      <3>2. export' = [NoExport EXCEPT !.todo = p] /\ dump' = dump
        BY <2>1, <3>1 DEF ExportBegins
      <3> QED BY <1>3, <1>4, <3>2 DEF ExportSet
    <2>2. CASE ExportReads
      <3>1. PICK l \in Seq(BackupTables), s \in SUBSET Rows : l = export.todo /\ s = export.rows
        BY <1>4 DEF ExportSet
      <3>2. l # << >> /\ dump' = dump
        BY <2>2, <3>1 DEF ExportReads
      <3>3. Tail(l) \in Seq(BackupTables)
        BY <3>2, HeadTailProperties
      <3>4. Visible \in SUBSET Rows
        BY <1>2 DEF Visible, BackupInv, BackupTypes
      <3>5. export' = NoExport \/ \E x \in SUBSET Rows : export' = [todo |-> Tail(l), rows |-> s \cup x]
        BY <2>2, <3>1, <3>4 DEF ExportReads
      <3>6. CASE export' = NoExport
        BY <1>3, <1>4, <3>2, <3>6
      <3>7. CASE \E x \in SUBSET Rows : export' = [todo |-> Tail(l), rows |-> s \cup x]
        <4>1. PICK x \in SUBSET Rows : export' = [todo |-> Tail(l), rows |-> s \cup x]
          BY <3>7
        <4>2. PICK m \in Seq(BackupTables) : m = Tail(l)
          BY <3>3
        <4>3. PICK y \in SUBSET Rows : y = s \cup x
          OBVIOUS
        <4>4. export' = [todo |-> m, rows |-> y]
          BY <4>1, <4>2, <4>3
        <4> QED BY <1>4, <3>2, <4>4 DEF ExportSet
      <3> QED BY <3>5, <3>6, <3>7
    <2>3. CASE ExportEnds
      <3>1. dump' = export.rows /\ export' = NoExport
        BY <2>3 DEF ExportEnds
      <3> QED BY <1>3, <1>4, <3>1 DEF ExportSet
    <2> QED BY <2>1, <2>2, <2>3
  <1>6. BackupTypes'
    BY <1>1, <1>5 DEF BackupInv, BackupTypes
  <1> QED BY <1>1, <1>2, <1>6 DEF BackupInv, Halfway, KeptRows, InTransaction

LEMMA ImportBeginsStep == ASSUME BackupInv, ImportBegins PROVE BackupInv'
  <1>1. PICK x \in {dump, {}} : restore' = [NoRestore EXCEPT !.stage = "clearing", !.todo = ClearOrder, !.rows = x, !.source = x]
    BY DEF ImportBegins
  <1>2. /\ start' = db /\ saved' = {} /\ erased' = {} /\ UNCHANGED <<database, db, cleared, inserted, export, dump>>
        /\ restore.stage = "idle"
    BY DEF ImportBegins
  <1>3. BackupTypes /\ x \in SUBSET Rows /\ db \in SUBSET Rows
    BY DEF BackupInv, BackupTypes
  <1>4. PICK c \in Seq(BackupTables) : c = ClearOrder
    BY OrdersCover
  <1>5. Len(c) >= 1 /\ \A t \in BackupTables : \E i \in 1 .. Len(c) : c[i] = t
    BY <1>4, OrdersCover
  <1>6. PICK n \in RestoreSet : n = NoRestore
    BY EmptySeq DEF NoRestore, RestoreSet
  <1>7. restore' = [n EXCEPT !.stage = "clearing", !.todo = c, !.rows = x, !.source = x]
    BY <1>1, <1>4, <1>6
  <1>8. /\ restore' \in RestoreSet /\ restore'.stage = "clearing" /\ restore'.todo = c
        /\ restore'.rows = x /\ restore'.source = x
    BY <1>3, <1>7 DEF RestoreSet
  <1>9. Working' = db /\ InTransaction' /\ cleared = {} /\ inserted = {}
    BY <1>2, <1>8 DEF Working, InTransaction, BackupInv
  <1>10. BackupTypes'
    BY <1>2, <1>3, <1>8 DEF BackupTypes
  <1>11. Halfway'
    <2>1. \A r \in db : r[1] \in BackupTables
      BY <1>3 DEF Rows
    <2> QED BY <1>5, <1>8, <1>9, <2>1 DEF Halfway
  <1>12. KeptRows'
    <2>1. Accounted(start', db', erased', saved')
      BY <1>2 DEF Accounted
    <2> QED BY <1>2, <1>8, <2>1 DEF KeptRows
  <1>13. Closed(db') /\ Closed(Working')
    BY <1>2, <1>9 DEF BackupInv
  <1> QED BY <1>9, <1>10, <1>11, <1>12, <1>13 DEF BackupInv

\* Everything is as before the transaction.
LEMMA RollBackStep ==
    ASSUME BackupInv, InTransaction, NEW stage \in {"refused", "failed"}, RollBack(stage),
           UNCHANGED <<database, dump, start, saved, erased>>, export' \in ExportSet
    PROVE  BackupInv'
  <1>1. cleared' = {} /\ inserted' = {} /\ restore' = [restore EXCEPT !.stage = stage] /\ db' = db
    BY DEF RollBack
  <1>2. restore \in RestoreSet /\ restore.stage \in {"clearing", "inserting"}
    BY DEF BackupInv, BackupTypes, InTransaction
  <1>3. restore' \in RestoreSet /\ restore'.stage = stage
    BY <1>1, <1>2 DEF RestoreSet
  <1>4. BackupTypes'
    BY <1>1, <1>3 DEF BackupInv, BackupTypes
  <1>5. Working' = db /\ ~InTransaction'
    BY <1>1, <1>3 DEF Working, InTransaction
  <1>6. KeptRows'
    BY <1>1, <1>2, <1>3, <1>5 DEF BackupInv, KeptRows
  <1>7. Halfway'
    BY <1>3 DEF Halfway
  <1> QED BY <1>1, <1>4, <1>5, <1>6, <1>7 DEF BackupInv

LEMMA ImportClearsStep == ASSUME BackupInv, ImportClears PROVE BackupInv'
  <1>1. restore.stage = "clearing" /\ UNCHANGED <<database, export, dump, start, saved, erased>> /\ InTransaction
    BY DEF ImportClears, history, InTransaction
  <1>2. BackupTypes /\ restore \in RestoreSet /\ export \in ExportSet
    BY DEF BackupInv, BackupTypes
  <1>3. CASE RollBack("failed")
    <2>1. UNCHANGED <<database, dump, start, saved, erased>> /\ export' \in ExportSet
      BY <1>1, <1>2
    <2> QED BY <1>1, <1>3, <2>1, RollBackStep
  <1>4. CASE ~RollBack("failed")
    <2>1. PICK l \in Seq(BackupTables) : l = restore.todo
      BY <1>2 DEF RestoreSet
    <2>2. PICK w : w = WithCascade({r \in Working : r[1] = Head(l)})
      OBVIOUS
    <2>3. PICK st : st = IF Len(l) = 1 THEN "inserting" ELSE "clearing"
      OBVIOUS
    <2>4. /\ cleared' = cleared \cup (w \cap db) /\ inserted' = inserted \ w /\ db' = db
          /\ restore' = [restore EXCEPT !.todo = Tail(l), !.stage = st]
      BY <1>1, <1>4, <2>1, <2>2, <2>3 DEF ImportClears, Deletes
    <2>5. Len(l) >= 1 /\ restore.rows = restore.source /\ Working \in SUBSET Rows
          /\ \A r \in Working \ saved : \E i \in 1 .. Len(l) : l[i] = r[1]
      BY <1>1, <2>1 DEF BackupInv, Halfway, Working, BackupTypes
    <2>6. PICK m : m = Tail(l)
      OBVIOUS
    <2>7. /\ m \in Seq(BackupTables) /\ Len(m) = Len(l) - 1 /\ \A i \in 1 .. Len(m) : m[i] = l[i + 1]
          /\ Head(l) = l[1] /\ Len(l) \in Nat
      BY <2>5, <2>6, HeadTailProperties, EmptySeq
    <2>8. /\ restore' \in RestoreSet /\ restore'.stage = st /\ restore'.todo = m
          /\ restore'.rows = restore.rows /\ restore'.source = restore.source
      BY <1>2, <2>3, <2>4, <2>6, <2>7 DEF RestoreSet
    <2>9. Working' = Working \ w
      BY <2>4 DEF Working
    <2>10. BackupTypes'
      BY <1>1, <1>2, <2>4, <2>8 DEF BackupTypes
    <2>11. InTransaction'
      BY <2>3, <2>8 DEF InTransaction
    <2>12. Closed(Working')
      <3>1. PICK y : y = Working'
        OBVIOUS
      <3>2. PICK s \in SUBSET Rows : s = Working
        BY <2>5
      <3>3. PICK x : x = {r \in Working : r[1] = Head(l)}
        OBVIOUS
      <3>4. y = s \ WithCascade(x) /\ Closed(s)
        BY <2>2, <2>9, <3>1, <3>2, <3>3 DEF BackupInv
      <3>5. Closed(y)
        BY ONLY <3>4, ClosedWithout
      <3> QED BY <3>1, <3>5
    <2>13. ASSUME NEW r \in Working' \ saved PROVE \E i \in 1 .. Len(m) : m[i] = r[1]
      <3>1. r \in Working \ saved /\ r[1] # l[1]
        BY <2>2, <2>7, <2>9 DEF WithCascade
      <3>2. PICK i \in 1 .. Len(l) : l[i] = r[1]
        BY <2>5, <3>1
      <3>3. i # 1 /\ i - 1 \in 1 .. Len(m) /\ (i - 1) + 1 = i
        BY <2>7, <3>1, <3>2
      <3> QED BY <2>7, <3>2, <3>3
    <2>14. Halfway'
      <3>1. CASE Len(l) = 1
        <4>1. Len(m) = 0 /\ Working' \subseteq saved
          BY <2>7, <2>13, <3>1
        <4>2. restore'.rows = restore'.source /\ restore'.stage = "inserting" /\ saved' = saved
          BY <1>1, <2>3, <2>5, <2>8, <3>1
        <4>3. restore'.source \ restore'.rows = {} /\ restore'.rows \subseteq restore'.source
          BY <4>2
        <4> QED BY <4>1, <4>2, <4>3 DEF Halfway
      <3>2. CASE Len(l) # 1
        <4>1. Len(m) >= 1
          BY <2>5, <2>7, <3>2
        <4> QED BY <1>1, <2>3, <2>5, <2>8, <2>13, <3>2, <4>1 DEF Halfway
      <3> QED BY <3>1, <3>2
    <2>15. KeptRows'
      BY <1>1, <2>3, <2>4, <2>8, <2>11 DEF BackupInv, KeptRows
    <2>16. Closed(db')
      BY <2>4 DEF BackupInv
    <2> QED BY <2>10, <2>11, <2>12, <2>14, <2>15, <2>16 DEF BackupInv
  <1> QED BY <1>3, <1>4

LEMMA ImportInsertsStep == ASSUME BackupInv, ImportInserts PROVE BackupInv'
  <1>1. /\ restore.stage = "inserting" /\ UNCHANGED <<database, db, cleared, export, dump, start, saved, erased>>
        /\ InTransaction
    BY DEF ImportInserts, history, InTransaction
  <1>2. BackupTypes /\ restore \in RestoreSet
    BY DEF BackupInv, BackupTypes
  <1>3. PICK r \in NextRows :
           \/ /\ Insertable(r)
              /\ inserted' = inserted \cup {r}
              /\ restore' = [restore EXCEPT !.rows = @ \ {r}, !.count = @ + 1]
           \/ /\ restore' = [restore EXCEPT !.rows = @ \ {r}, !.warned = TRUE]
              /\ UNCHANGED inserted
    BY DEF ImportInserts
  <1>4. r \in restore.rows /\ r \in Rows
    BY <1>2, <1>3 DEF NextRows, RestoreSet
  <1>5. restore.rows \in SUBSET Rows /\ restore.count \in Nat
    BY <1>2 DEF RestoreSet
  <1>6. PICK s \in SUBSET Rows : s = restore.rows \ {r}
    BY <1>5
  <1>7. PICK n \in Nat : n = restore.count + 1
    BY <1>5
  <1>8. CASE Insertable(r) /\ inserted' = inserted \cup {r} /\ restore' = [restore EXCEPT !.rows = @ \ {r}, !.count = @ + 1]
    <2>1. restore' = [restore EXCEPT !.rows = s, !.count = n]
      BY <1>6, <1>7, <1>8
    <2>2. /\ restore' \in RestoreSet /\ restore'.rows = s /\ restore'.source = restore.source
          /\ restore'.stage = "inserting" /\ restore'.warned = restore.warned
      BY <1>1, <1>2, <1>6, <1>7, <2>1 DEF RestoreSet
    <2>3. Working' = Working \cup {r} /\ (Owned(r) => SessionRow(r) \in Working)
      BY <1>1, <1>8 DEF Working, Insertable
    <2>4. BackupTypes'
      BY <1>1, <1>2, <1>4, <1>8, <2>2 DEF BackupTypes
    <2>5. Halfway'
      <3>1. restore'.source \ restore'.rows \subseteq (restore.source \ restore.rows) \cup {r}
        BY <1>6, <2>2
      <3>2. (restore.source \ restore.rows) \subseteq restore'.source \ restore'.rows
        BY <1>6, <2>2
      <3>3. r \in restore'.source \ restore'.rows
        BY <1>1, <1>4, <1>6, <2>2 DEF BackupInv, Halfway
      <3>4. restore'.rows \subseteq restore'.source
        BY <1>1, <1>6, <2>2 DEF BackupInv, Halfway
      <3>5. /\ Working \subseteq (restore.source \ restore.rows) \cup saved
            /\ ~restore.warned => (restore.source \ restore.rows) \ erased \subseteq Working
        BY <1>1 DEF BackupInv, Halfway
      <3> QED BY <1>1, <2>2, <2>3, <3>1, <3>2, <3>3, <3>4, <3>5 DEF Halfway
    <2>6. KeptRows' /\ InTransaction'
      BY <1>1, <2>2 DEF BackupInv, KeptRows, InTransaction
    <2>7. Closed(db') /\ Closed(Working')
      BY <1>1, <2>3 DEF BackupInv, Closed
    <2> QED BY <2>4, <2>5, <2>6, <2>7 DEF BackupInv
  <1>9. CASE restore' = [restore EXCEPT !.rows = @ \ {r}, !.warned = TRUE] /\ UNCHANGED inserted
    <2>1. restore' = [restore EXCEPT !.rows = s, !.warned = TRUE]
      BY <1>6, <1>9
    <2>2. /\ restore' \in RestoreSet /\ restore'.rows = s /\ restore'.source = restore.source
          /\ restore'.stage = "inserting" /\ restore'.warned = TRUE
      BY <1>1, <1>2, <1>6, <2>1 DEF RestoreSet
    <2>3. Working' = Working
      BY <1>1, <1>9 DEF Working
    <2>4. BackupTypes'
      BY <1>1, <1>2, <1>9, <2>2 DEF BackupTypes
    <2>5. Halfway'
      BY <1>1, <1>4, <1>6, <2>2, <2>3 DEF BackupInv, Halfway
    <2>6. KeptRows' /\ InTransaction'
      BY <1>1, <2>2 DEF BackupInv, KeptRows, InTransaction
    <2>7. Closed(db') /\ Closed(Working')
      BY <1>1, <2>3 DEF BackupInv
    <2> QED BY <2>4, <2>5, <2>6, <2>7 DEF BackupInv
  <1> QED BY <1>3, <1>8, <1>9

LEMMA ImportEndsStep == ASSUME BackupInv, ImportEnds PROVE BackupInv'
  <1>1. /\ restore.stage = "inserting" /\ restore.rows = {}
        /\ UNCHANGED <<database, export, dump, start, saved, erased>> /\ InTransaction
    BY DEF ImportEnds, history, InTransaction
  <1>2. BackupTypes /\ restore \in RestoreSet /\ export \in ExportSet
    BY DEF BackupInv, BackupTypes
  <1>3. CASE Refused
    <2>1. RollBack("refused")
      BY <1>3 DEF ImportEnds
    <2>2. UNCHANGED <<database, dump, start, saved, erased>> /\ export' \in ExportSet
      BY <1>1, <1>2
    <2> QED BY <1>1, <2>1, <2>2, RollBackStep
  <1>4. CASE ~Refused
    <2>1. db' = Working /\ cleared' = {} /\ inserted' = {} /\ restore' = [restore EXCEPT !.stage = "imported"]
      BY <1>4 DEF ImportEnds
    <2>2. restore' \in RestoreSet /\ restore'.stage = "imported" /\ restore'.source = restore.source
      BY <1>2, <2>1 DEF RestoreSet
    <2>3. Working' = Working /\ ~InTransaction' /\ Working \in SUBSET Rows
      BY <1>2, <2>1, <2>2 DEF Working, InTransaction, BackupTypes
    <2>4. ~restore.warned
      BY <1>4 DEF Refused
    <2>5. Accounted(restore.source, Working, erased, saved)
      BY <1>1, <2>4 DEF BackupInv, Halfway, Accounted
    <2>6. BackupTypes'
      BY <1>1, <1>2, <2>1, <2>2, <2>3 DEF BackupTypes
    <2>7. KeptRows'
      BY <1>1, <2>1, <2>2, <2>3, <2>5 DEF KeptRows
    <2>8. Halfway'
      BY <2>2 DEF Halfway
    <2>9. Closed(db') /\ Closed(Working')
      BY <2>1, <2>3 DEF BackupInv
    <2> QED BY <2>1, <2>3, <2>6, <2>7, <2>8, <2>9 DEF BackupInv
  <1> QED BY <1>3, <1>4

LEMMA CrashesStep == ASSUME BackupInv, Crashes PROVE BackupInv'
  <1>1. export' = NoExport /\ UNCHANGED <<database, dump, start, saved, erased>>
    BY DEF Crashes, history
  <1>2. export' \in ExportSet
    BY <1>1, EmptySeq DEF NoExport, ExportSet
  <1>3. CASE InTransaction
    <2>1. RollBack("failed")
      BY <1>3 DEF Crashes
    <2> QED BY <1>1, <1>2, <1>3, <2>1, RollBackStep
  <1>4. CASE ~InTransaction
    <2>1. UNCHANGED <<restore, db, cleared, inserted>>
      BY <1>4 DEF Crashes
    <2>2. Working' = Working /\ InTransaction' = InTransaction
      BY <2>1 DEF Working, InTransaction
    <2>3. BackupTypes'
      BY <1>1, <1>2, <2>1 DEF BackupInv, BackupTypes
    <2> QED BY <1>1, <2>1, <2>2, <2>3 DEF BackupInv, Halfway, KeptRows
  <1> QED BY <1>3, <1>4

LEMMA BackupsStep == BackupInv /\ [BackupNext]_backupVars => BackupInv'
  <1> SUFFICES ASSUME BackupInv, [BackupNext]_backupVars PROVE BackupInv'
    OBVIOUS
  <1>1. CASE \E r \in Rows : ClientSaves(r) \/ ClientRemoves(r)
    BY <1>1, SavesStep, RemovesStep
  <1>2. CASE ExportBegins \/ ExportReads \/ ExportEnds
    BY <1>2, ExportsStep
  <1>3. CASE ImportBegins \/ ImportClears \/ ImportInserts \/ ImportEnds \/ Crashes
    BY <1>3, ImportBeginsStep, ImportClearsStep, ImportInsertsStep, ImportEndsStep, CrashesStep
  <1>4. CASE UNCHANGED backupVars
    <2>1. UNCHANGED <<database, db, cleared, inserted, export, dump, restore, start, saved, erased>>
      BY <1>4 DEF backupVars
    <2>2. Working' = Working /\ InTransaction' = InTransaction
      BY <2>1 DEF Working, InTransaction
    <2>3. BackupTypes'
      BY <2>1 DEF BackupInv, BackupTypes
    <2> QED BY <2>1, <2>2, <2>3 DEF BackupInv, Halfway, KeptRows
  <1> QED BY <1>1, <1>2, <1>3, <1>4 DEF BackupNext

LEMMA BackupsHold == BackupInv => RestoreIsAllOrNothing /\ BackupTypeOK
  <1> SUFFICES ASSUME BackupInv PROVE RestoreIsAllOrNothing /\ BackupTypeOK
    OBVIOUS
  <1>1. restore.stage = "imported" => Accounted(restore.source, db, erased, saved)
    BY DEF BackupInv, KeptRows
  <1>2. restore.stage \in {"refused", "failed"} => Accounted(start, db, erased, saved)
    BY DEF BackupInv, KeptRows
  <1>3. RestoreIsAllOrNothing
    BY <1>1, <1>2 DEF RestoreIsAllOrNothing, Accounted
  <1>4. BackupTypeOK
    <2>1. restore.stage \in {"idle", "clearing", "inserting", "imported", "refused", "failed"}
      BY DEF BackupInv, BackupTypes, RestoreSet
    <2> QED BY <2>1 DEF BackupInv, BackupTypes, BackupTypeOK, Closed
  <1> QED BY <1>3, <1>4

-----------------------------------------------------------------------------
(* The schema                                                               *)

LEMMA InitSchema == SchemaInit => SchemaTypeOK
  <1>1. 0 \in 0 .. Len(Migrations)
    BY DEF Migrations
  <1> QED BY <1>1 DEF SchemaInit, SchemaTypeOK

LEMMA SchemaStep == SchemaTypeOK /\ [SchemaNext]_schemaVars => SchemaTypeOK'
  <1> SUFFICES ASSUME SchemaTypeOK, [SchemaNext]_schemaVars PROVE SchemaTypeOK'
    OBVIOUS
  <1>1. PICK n \in Nat : n = Len(Migrations)
    BY DEF Migrations
  <1>2. CASE RowsCollide
    BY <1>2 DEF RowsCollide, SchemaTypeOK
  <1>3. CASE BootDatabase
    <2>1. dialect' = dialect /\ boot' \in {"up", "crashed"} /\ ledger' \in {ledger, n}
      BY <1>1, <1>3 DEF BootDatabase
    <2> QED BY <1>1, <2>1 DEF SchemaTypeOK
  <1>4. CASE Revert
    <2>1. dialect' = dialect /\ boot' = "down" /\ ledger > 0 /\ ledger' \in {ledger, ledger - 1}
      BY <1>4 DEF Revert
    <2> QED BY <1>1, <2>1 DEF SchemaTypeOK
  <1>5. CASE UNCHANGED schemaVars
    BY <1>5 DEF schemaVars, SchemaTypeOK
  <1> QED BY <1>2, <1>3, <1>4, <1>5 DEF SchemaNext

-----------------------------------------------------------------------------
(* The parts together                                                       *)

PartsInv ==
    /\ part = "operations" => OpInv
    /\ part = "identity" => IdentityInv
    /\ part = "infra" => InfraInv
    /\ part = "instances" => InstancesInv
    /\ part = "backup" => BackupInv
    /\ part \in {"log", "hooks", "operations", "identity", "schema", "backup", "infra", "instances"}
    /\ Gates /\ HookInv /\ LogInv /\ SchemaTypeOK

LEMMA InitParts == PlatformInit => PartsInv
  BY InitOperations, InitGates, InitIdentity, InitInfra, InitInstances, InitHooks, InitBackups, InitLog, InitSchema
     DEF PlatformInit, PartsInv

LEMMA PartsStep == PartsInv /\ [PlatformNext]_platformVars => PartsInv'
  <1> SUFFICES ASSUME PartsInv, [PlatformNext]_platformVars PROVE PartsInv'
    OBVIOUS
  <1>1. part' = part
    BY DEF PlatformNext, platformVars
  <1>2. part = "operations" => [OpNext]_opVars
    BY DEF PlatformNext, platformVars
  <1>3. part = "identity" => [IdentityNext]_identityVars
    BY DEF PlatformNext, platformVars
  <1>4. part = "infra" => [InfraNext]_infraVars
    BY DEF PlatformNext, platformVars
  <1>5. part = "instances" => [InstancesNext]_instanceVars
    BY DEF PlatformNext, platformVars
  <1>6. part = "operations" => OpInv'
    BY <1>2, OperationsStep DEF PartsInv
  <1>7. part = "identity" => IdentityInv'
    BY <1>3, IdentityStep DEF PartsInv
  <1>8. part = "infra" => InfraInv'
    BY <1>4, InfraStep DEF PartsInv
  <1>9. part = "instances" => InstancesInv'
    BY <1>5, InstancesStep DEF PartsInv
  <1>10. [HookNext]_hookVars
    BY DEF PlatformNext, platformVars, TrafficRests, DataRests
  <1>11. HookInv'
    BY <1>10, HooksStep DEF PartsInv
  <1>12. [OpNext]_opVars
    BY DEF PlatformNext, platformVars, TrafficRests, DataRests
  <1>13. Gates'
    BY <1>12, GatesStep DEF PartsInv
  <1>14. [LogNext]_logVars
    BY DEF PlatformNext, platformVars, TrafficRests, DataRests
  <1>15. LogInv'
    BY <1>14, LogStep DEF PartsInv
  <1>16. [SchemaNext]_schemaVars
    BY DEF PlatformNext, platformVars, TrafficRests, DataRests
  <1>17. SchemaTypeOK'
    BY <1>16, SchemaStep DEF PartsInv
  <1>18. part = "backup" => [BackupNext]_backupVars
    BY DEF PlatformNext, platformVars
  <1>19. part = "backup" => BackupInv'
    BY <1>18, BackupsStep DEF PartsInv
  <1> QED BY <1>1, <1>6, <1>7, <1>8, <1>9, <1>11, <1>13, <1>15, <1>17, <1>19 DEF PartsInv

LEMMA PartsHold == PlatformSpec => []PartsInv
  BY InitParts, PartsStep, PTL DEF PlatformSpec

\* Whatever fails under way, an operation of an adapter has its effect at most once and answers what it did, a
\* contact that has migrated is reached, and the phone behind a privacy id is the one the adapter was told.
THEOREM EngineStaysTrue == PlatformSpec => []EngineIsTrue
  <1>1. PartsInv => EngineIsTrue
    BY OperationsHold, IdentityHolds DEF PartsInv, EngineIsTrue
  <1> QED BY <1>1, PartsHold, PTL

\* What the page of the infrastructure saves is what the next boots run with, and no boot loses the database; a
\* restore replaces every row or none, whoever writes meanwhile and whatever fails.
THEOREM InfraStaysTrue == PlatformSpec => []InfraIsTrue
  <1>1. PartsInv => InfraIsTrue
    BY BackupsHold DEF PartsInv, InfraIsTrue, InfraInv
  <1> QED BY <1>1, PartsHold, PTL

\* Unless calls overlap, scopes are mixed or an instance that shares its session goes, every enabled instance of a
\* plugin is bound and nothing else is; the next boot puts it right in any case.  A secret is never replaced by its
\* mask, nor the configuration or the ingress secret of an instance by what another call had read before.
THEOREM IntegrationsStaySound == PlatformSpec => []IntegrationsAreSound
  <1>1. PartsInv => IntegrationsAreSound
    BY InstancesHold DEF PartsInv, IntegrationsAreSound
  <1> QED BY <1>1, PartsHold, PTL

\* However handlers come and go and fire events of their own, the handlers of an event stay sorted and none is there
\* twice; a chain whose array nobody edits while it awaits calls each once and in order (an edited one may skip a handler
\* or call one again); and no event is handled inside its own handling, where the lineage is known: what a worker sends
\* for its plugin begins a lineage of its own (plugin-worker-host.ts).
THEOREM ChainsStaySound == PlatformSpec => []ChainsAreSound
  <1>1. PartsInv => ChainsAreSound
    BY HooksHold DEF PartsInv
  <1> QED BY <1>1, PartsHold, PTL

\* Every state of every part is one its types describe.
THEOREM PlatformTypeCorrect == PlatformSpec => []PlatformTypes
  <1>1. PartsInv => PlatformTypes
    <2> SUFFICES ASSUME PartsInv PROVE PlatformTypes
      OBVIOUS
    <2>1. LogTypeOK /\ HookTypeOK /\ SchemaTypeOK
      BY HooksTyped DEF PartsInv, LogInv
    <2>2. part = "operations" => OpTypeOK
      BY OperationsTyped DEF PartsInv
    <2>3. part = "identity" => IdentityTypeOK
      BY DEF PartsInv, IdentityInv
    <2>4. part = "backup" => BackupTypeOK
      BY BackupsHold DEF PartsInv
    <2>5. part = "infra" => InfraTypeOK
      BY InfraTypeHolds DEF PartsInv
    <2>6. part = "instances" => InstancesTypeOK
      BY InstancesTypeHolds DEF PartsInv
    <2> QED BY <2>1, <2>2, <2>3, <2>4, <2>5, <2>6 DEF PartsInv, PlatformTypes
  <1> QED BY <1>1, PartsHold, PTL

===============================================================================
