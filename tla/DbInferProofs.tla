-------------------------------- MODULE DbInferProofs --------------------------------
(***********************************************************************************)
(* Theorems about DbInfer for any engines, any services and whatever they, the .env     *)
(* file, the pod and dl.js say: the types, and that engine, service, env_file files and   *)
(* the name of the database are those of one another.                                 *)
(***********************************************************************************)
EXTENDS DbInfer, WellFoundedInduction, SequenceTheorems, TLAPS
-------------------------------------------------------------------------------------
(* Choices.                                                                          *)

\* A set of natural numbers that is not empty has a least one.
LEMMA LeastOf ==
    ASSUME NEW S \in SUBSET Nat, S # {}
    PROVE  /\ Min(S) \in S /\ \A n \in S : Min(S) <= n
<1> DEFINE less == OpToRel(<, Nat)
<1>1. IsWellFoundedOn(less, Nat)
    BY NatLessThanWellFounded, Zenon
<1>2. \A m, n \in Nat : m < n => <<m, n>> \in less
    BY DEF OpToRel
<1> HIDE DEF less
<1>3. PICK m \in S : \A n \in S : <<n, m>> \notin less
    BY <1>1, WFMin
<1>4. \A n \in S : ~(n < m)
    BY <1>2, <1>3
<1>5. \A n \in S : m <= n
    BY <1>4
<1> QED
    BY <1>5 DEF Min

\* First is the first option that is given, if any is.
LEMMA FirstIs ==
    ASSUME NEW s, Len(s) \in Nat
    PROVE  IF \E i \in 1 .. Len(s) : s[i] # None
           THEN \E i \in 1 .. Len(s) : /\ First(s) = s[i] /\ s[i] # None
                                      /\ \A j \in 1 .. i - 1 : s[j] = None
           ELSE First(s) = None
<1> DEFINE given == {i \in 1 .. Len(s) : s[i] # None}
<1>1. First(s) = IF given # {} THEN (IF Min(given) = 0 THEN None ELSE s[Min(given)]) ELSE None
    BY DEF First, SelectInSeq
<1>2. CASE given = {}
    BY <1>1, <1>2
<1>3. CASE given # {}
    <2>1. Min(given) \in given /\ \A n \in given : Min(given) <= n
        <3>1. given \in SUBSET Nat
            OBVIOUS
        <3> HIDE DEF given
        <3> QED
            BY <1>3, <3>1, LeastOf, Zenon
    <2>2. PICK m : m = Min(given)
        OBVIOUS
    <2>3. m \in 1 .. Len(s) /\ s[m] # None /\ m \in Int
        BY <2>1, <2>2
    <2>4. ASSUME NEW j \in 1 .. m - 1 PROVE s[j] = None
        <3>1. j \in 1 .. Len(s) /\ ~(m <= j)
            BY <2>3
        <3> QED
            BY <2>1, <2>2, <3>1
    <2>5. First(s) = s[m]
        <3> HIDE DEF given
        <3> QED
            BY <1>1, <1>3, <2>2, <2>3
    <2> QED
        BY <2>3, <2>4, <2>5
<1> QED
    BY <1>2, <1>3

LEMMA FirstOfOne == ASSUME NEW a PROVE First(<<a>>) = a
<1> DEFINE s == <<a>>
<1>1. Len(s) = 1 /\ s[1] = a
    OBVIOUS
<1> HIDE DEF s
<1>2. First(s) = a
    BY <1>1, FirstIs
<1> QED
    BY <1>2 DEF s

LEMMA FirstOfTwo == ASSUME NEW a, NEW b PROVE First(<<a, b>>) = IF a # None THEN a ELSE b
<1> DEFINE s == <<a, b>>
<1>1. Len(s) = 2 /\ s[1] = a /\ s[2] = b
    OBVIOUS
<1> HIDE DEF s
<1>2. First(s) = IF a # None THEN a ELSE b
    BY <1>1, FirstIs
<1> QED
    BY <1>2 DEF s

LEMMA FirstOfThree ==
    ASSUME NEW a, NEW b, NEW c
    PROVE  First(<<a, b, c>>) = IF a # None THEN a ELSE IF b # None THEN b ELSE c
<1> DEFINE s == <<a, b, c>>
<1>1. Len(s) = 3 /\ s[1] = a /\ s[2] = b /\ s[3] = c
    OBVIOUS
<1> HIDE DEF s
<1>2. First(s) = IF a # None THEN a ELSE IF b # None THEN b ELSE c
    BY <1>1, FirstIs
<1> QED
    BY <1>2 DEF s

\* engine_from_env: an engine that has a variable, if there is one.
LEMMA EngineFromEnvIs ==
    ASSUME NEW e
    PROVE  /\ EngineFromEnv(e) = None => \A engine \in Engines : e[engine] = Unset
           /\ EngineFromEnv(e) # None => EngineFromEnv(e) \in Engines /\ e[EngineFromEnv(e)] # Unset
<1> DEFINE s == [i \in 1 .. Len(Order) |-> IF e[Order[i]] # Unset THEN Order[i] ELSE None]
<1>1. Len(Order) \in Nat /\ \A i \in 1 .. Len(Order) : Order[i] \in Engines
    BY OrderAssumption, LenProperties, ElementOfSeq
<1>2. \A engine \in Engines : \E i \in 1 .. Len(Order) : Order[i] = engine
    BY OrderAssumption, LenProperties DEF Engines, ToSet
<1>3. Len(s) = Len(Order) /\ \A i \in 1 .. Len(Order) : s[i] = IF e[Order[i]] # Unset THEN Order[i] ELSE None
    BY <1>1
<1>4. EngineFromEnv(e) = First(s)
    BY DEF EngineFromEnv
<1> HIDE DEF s
<1>5. \A engine \in Engines : engine # None
    BY MarksAssumption
<1>6. CASE \E i \in 1 .. Len(s) : s[i] # None
    <2>1. PICK i \in 1 .. Len(s) : First(s) = s[i] /\ s[i] # None
        BY <1>1, <1>3, <1>6, FirstIs
    <2> QED
        BY <1>1, <1>3, <1>4, <2>1
<1>7. CASE \A i \in 1 .. Len(s) : s[i] = None
    <2>1. First(s) = None
        BY <1>1, <1>3, <1>7, FirstIs
    <2>2. \A i \in 1 .. Len(Order) : e[Order[i]] = Unset
        BY <1>1, <1>3, <1>5, <1>7
    <2> QED
        BY <1>2, <1>4, <2>1, <2>2
<1> QED
    BY <1>6, <1>7
-------------------------------------------------------------------------------------
(* detect_service.                                                                   *)

\* A service that shows the wanted engine has more than 100, any other has less.
LEMMA ScoreIs ==
    ASSUME NEW s, NEW hint
    PROVE  /\ Score(s, hint) \in 0 .. 140
           /\ hint \in Engines => (Shows(s, hint) <=> Score(s, hint) > 100)
<1> DEFINE image == services[s].image
           keys  == {e \in Engines : ServiceEnv(s)[e] # Unset}
           score == IF image \in Engines THEN 100 + Bonus(image = hint) ELSE 0
           scored == IF keys = {} THEN score ELSE Max2(score, 90) + Bonus(hint \in keys)
<1>1. Score(s, hint) = Max2(scored, IF s \in WellKnown THEN 60 ELSE 0)
    BY DEF Score
<1>2. score = IF image \in Engines THEN IF image = hint THEN 120 ELSE 100 ELSE 0
    BY DEF Bonus
<1>3. hint \in Engines => (Shows(s, hint) <=> image = hint \/ hint \in keys)
    BY DEF Shows
<1>4. hint \in keys => keys # {}
    OBVIOUS
<1> HIDE DEF image, keys, score
<1>5. scored = IF keys = {} THEN score
               ELSE (IF score > 90 THEN score ELSE 90) + (IF hint \in keys THEN 20 ELSE 0)
    BY DEF Max2, Bonus
<1>6. /\ scored \in 0 .. 140
      /\ hint \in Engines => (image = hint \/ hint \in keys <=> scored > 100)
    BY <1>2, <1>4, <1>5
<1> HIDE DEF scored
<1>7. /\ Score(s, hint) \in 0 .. 140
      /\ Score(s, hint) > 100 <=> scored > 100
    BY <1>1, <1>6 DEF Max2
<1> QED
    BY <1>3, <1>6, <1>7

\* detect_service finds one of those with the highest score, if any has one.
LEMMA DetectIs ==
    ASSUME NEW hint
    PROVE  /\ Detect(hint) # None => Detect(hint) \in Services
           /\ \A s \in Services : Score(s, hint) > 0 =>
                Detect(hint) # None /\ Score(s, hint) <= Score(Detect(hint), hint)
<1> DEFINE places   == 1 .. Len(Names)
           at(i)    == Score(Names[i], hint)
           ahead(i) == \A j \in places : at(i) > at(j) \/ (at(i) = at(j) /\ i <= j)
           best     == {i \in places : ahead(i) /\ at(i) > 0}
<1>1. Len(Names) \in Nat /\ \A i \in places : Names[i] \in Services /\ Names[i] # None
    BY NamesAssumption, MarksAssumption, LenProperties, ElementOfSeq
<1>2. \A s \in Services : \E i \in places : Names[i] = s
    BY NamesAssumption, LenProperties DEF Services, ToSet
<1>3. \A i \in places : at(i) \in 0 .. 140
    BY ScoreIs
<1>4. Detect(hint) = IF best = {} THEN None ELSE Names[CHOOSE i \in best : TRUE]
    BY DEF Detect
<1>0. places \subseteq Nat
    BY <1>1
<1> HIDE DEF at, places
<1>5. ASSUME NEW s \in Services, Score(s, hint) > 0 PROVE best # {}
    <2> DEFINE lacks == {140 - at(i) : i \in places}
    <2>1. PICK i \in places : at(i) > 0
        BY <1>2, <1>5 DEF at
    <2>2. lacks \subseteq Nat /\ lacks # {}
        <3>1. \A k \in places : 140 - at(k) \in Nat
            BY <1>3
        <3> QED
            BY <2>1, <3>1
    <2>3. PICK m \in lacks : \A n \in lacks : m <= n
        BY <2>2, LeastOf
    <2> DEFINE firsts == {k \in places : 140 - at(k) = m}
    <2>4. firsts \subseteq Nat /\ firsts # {}
        BY <1>0, <2>3
    <2>5. PICK k \in firsts : \A l \in firsts : k <= l
        <3> HIDE DEF firsts
        <3> QED
            BY <2>4, LeastOf
    <2>6. ASSUME NEW j \in places PROVE at(k) > at(j) \/ (at(k) = at(j) /\ k <= j)
        <3>1. 140 - at(k) <= 140 - at(j) /\ at(j) \in 0 .. 140 /\ at(k) \in 0 .. 140 /\ m = 140 - at(k)
            BY <1>3, <2>3, <2>5
        <3>2. at(j) = at(k) => j \in firsts
            BY <3>1
        <3>3. at(j) = at(k) => k <= j
            BY <2>5, <3>2
        <3> HIDE DEF firsts
        <3> QED
            BY <3>1, <3>3
    <2>7. k \in places
        OBVIOUS
    <2> HIDE DEF firsts
    <2>8. at(k) > 0
        <3>1. at(k) \in 0 .. 140 /\ at(i) \in 0 .. 140
            BY <1>3, <2>7
        <3>2. at(k) > at(i) \/ at(k) = at(i)
            BY <2>6
        <3> QED
            BY <2>1, <3>1, <3>2
    <2> QED
        BY <2>6, <2>7, <2>8
<1>6. ASSUME best # {}
      PROVE  \E i \in places : Detect(hint) = Names[i] /\ \A j \in places : at(j) <= at(i)
    <2> DEFINE i == CHOOSE k \in best : TRUE
    <2>1. i \in best
        BY <1>6
    <2>2. Detect(hint) = Names[i]
        BY <1>4, <1>6
    <2>3. i \in places /\ ahead(i)
        BY <2>1
    <2> HIDE DEF i
    <2>4. ASSUME NEW j \in places PROVE at(j) <= at(i)
        <3>1. at(i) \in 0 .. 140 /\ at(j) \in 0 .. 140
            BY <1>3, <2>3
        <3>2. at(i) > at(j) \/ at(i) = at(j)
            BY <2>3
        <3> QED
            BY <3>1, <3>2
    <2> QED
        BY <2>2, <2>3, <2>4
<1> HIDE DEF best
<1>7. Detect(hint) # None => Detect(hint) \in Services
    BY <1>1, <1>4, <1>6
<1>8. ASSUME NEW s \in Services, Score(s, hint) > 0
      PROVE  Detect(hint) # None /\ Score(s, hint) <= Score(Detect(hint), hint)
    <2>1. PICK i \in places : Detect(hint) = Names[i] /\ \A j \in places : at(j) <= at(i)
        BY <1>5, <1>6, <1>8
    <2>2. PICK j \in places : Names[j] = s
        BY <1>2
    <2> QED
        BY <1>1, <2>1, <2>2 DEF at
<1> QED
    BY <1>7, <1>8
-------------------------------------------------------------------------------------
(* The invariant.                                                                    *)

Found  == {Unset, Empty, "env", "pod"}
Values == Found \cup {Raw, "service", "files"}

\* What does not change: dl.js, the files and the pod.
World ==
    /\ config.target \in {"host", "compose", "kubernetes"}
    /\ config.engine \in Engines \cup {None}
    /\ config.database \in BOOLEAN
    /\ config.service \in {None, Gone} \cup WellKnown
    /\ config.composeService \in {None} \cup Services
    /\ envFile \in [Keys -> {Unset, Empty, "env"}]
    /\ podEnv \in [Keys -> {Unset, "pod"}]
    /\ services \in [Services -> Descriptions]

\* What has been read by each control state.
Stages ==
    /\ compose \in BOOLEAN
    /\ pc \in {"env", "pod", "compose"} => ~compose /\ asked = None
    /\ pc \in {"compose", "files"} \/ compose => config.target = "compose"
    /\ pc = "files" => compose /\ asked = None
    /\ pc = "pod" => config.target = "kubernetes"
    /\ config.target = "kubernetes" /\ side # "command" /\ pc \in {"infer"} \cup Resolved => pod
    /\ pc \notin Resolved => result = Nothing

\* The service whose env_file files are read.
Asked ==
    compose /\ pc = "infer" =>
        asked = IF Configured # None THEN Configured ELSE Detect(config.engine)

InferInv ==
    /\ TypeOK /\ World /\ Stages /\ Asked
    /\ EngineFitsService /\ FilesOfTheService /\ ServiceDecides

LEMMA ConfiguredIs ==
    ASSUME World
    PROVE  /\ Configured = IF config.service # None THEN config.service ELSE config.composeService
           /\ Configured \in Services \cup {Gone, None}
<1>1. Configured = IF config.service # None THEN config.service ELSE config.composeService
    BY FirstOfTwo DEF Configured
<1> QED
    BY <1>1, NamesAssumption DEF World

LEMMA HintIs ==
    ASSUME World
    PROVE  /\ Hint = IF config.engine # None THEN config.engine ELSE EngineFromEnv(env)
           /\ Hint \in Engines \cup {None}
<1>1. Hint = IF config.engine # None THEN config.engine ELSE EngineFromEnv(env)
    BY FirstOfTwo DEF Hint
<1> QED
    BY <1>1, EngineFromEnvIs DEF World

LEMMA EngineOfIs ==
    ASSUME World, NEW service
    PROVE  /\ EngineOf(service) \in Engines \cup {None}
           /\ Hint # None => EngineOf(service) = Hint
           /\ service = None => EngineOf(service) = Hint
           /\ EngineOf(service) # None /\ Hint = None => Shows(service, EngineOf(service))
<1> DEFINE image == IF services[service].image \in Engines THEN services[service].image ELSE None
           told  == EngineFromEnv(ServiceEnv(service))
<1>1. CASE service = None
    <2>1. EngineOf(service) = Hint
        BY <1>1, FirstOfOne DEF EngineOf
    <2> QED
        BY <1>1, <2>1, HintIs
<1>2. CASE service # None
    <2>1. EngineOf(service) = IF Hint # None THEN Hint ELSE IF told # None THEN told ELSE image
        BY <1>2, FirstOfThree DEF EngineOf
    <2>2. told # None => told \in Engines /\ ServiceEnv(service)[told] # Unset
        BY EngineFromEnvIs
    <2>3. image # None => image \in Engines /\ services[service].image = image
        OBVIOUS
    <2> HIDE DEF told, image
    <2> QED
        BY <1>2, <2>1, <2>2, <2>3, HintIs DEF Shows
<1> QED
    BY <1>1, <1>2

\* The environment of a service.
LEMMA ServiceEnvIs ==
    ASSUME World, env \in [Keys -> Found], NEW s \in Services, NEW k \in Keys
    PROVE  ServiceEnv(s)[k] \in Found \cup {Raw, "service"}
<1>1. services[s].env[k] \in Expressions
    BY DescriptionAssumption DEF World
<1>2. Generic \in Keys /\ env[Generic] \in Found /\ env[k] \in Found
    BY DEF Keys
<1> QED
    BY <1>1, <1>2 DEF ServiceEnv, Expand, Expressions, Found

\* What is merged: what the service says comes first.
LEMMA MergedIs ==
    ASSUME World, env \in [Keys -> Found], fileEnv \in [Keys -> {Unset, "files"}],
           NEW service, service \in Services \/ service = None \/ ~compose, NEW k \in Keys
    PROVE  /\ Merged(service)[k] \in Values
           /\ service # None /\ compose /\ ServiceEnv(service)[k] # Unset =>
                Merged(service)[k] = ServiceEnv(service)[k]
<1> DEFINE own == IF service = None \/ ~compose THEN Blank ELSE ServiceEnv(service)
<1>1. own[k] \in Found \cup {Raw, "service"}
    BY ServiceEnvIs DEF Blank, Found
<1>2. Merged(service)[k] = IF own[k] # Unset THEN own[k] ELSE IF env[k] # Unset THEN env[k] ELSE fileEnv[k]
    BY DEF Merged, Extend
<1>3. env[k] \in Found /\ fileEnv[k] \in {Unset, "files"}
    OBVIOUS
<1>4. service # None /\ compose => own = ServiceEnv(service)
    OBVIOUS
<1> HIDE DEF own
<1> QED
    BY <1>1, <1>2, <1>3, <1>4 DEF Values

LEMMA PickKeyIs ==
    ASSUME NEW engine \in Engines, NEW merged
    PROVE  /\ PickKey(engine, merged) \in {engine, Generic, None}
           /\ PickKey(engine, merged) # None => merged[PickKey(engine, merged)] \notin {Unset, Empty}
           /\ merged[engine] \notin {Unset, Empty} => PickKey(engine, merged) = engine
<1>1. PickKey(engine, merged) = IF merged[engine] \notin {Unset, Empty} THEN engine
                                ELSE IF merged[Generic] \notin {Unset, Empty} THEN Generic ELSE None
    BY FirstOfTwo, MarksAssumption DEF PickKey
<1> QED
    BY <1>1
-------------------------------------------------------------------------------------
(* What infer_db chooses.                                                            *)

Service == IF config.target # "compose" THEN None
           ELSE IF Configured # None \/ ~compose THEN Configured ELSE Detect(Hint)
Engine  == EngineOf(IF compose THEN Service ELSE None)
Key     == IF Engine = None \/ config.database THEN None ELSE PickKey(Engine, Merged(Service))

\* The service that is detected shows the engine, if one does.
LEMMA EngineFits ==
    ASSUME World, Stages, compose, Configured = None, Engine # None,
           NEW s \in Services, Shows(s, Engine)
    PROVE  Service # None /\ Shows(Service, Engine)
<1>1. Service = Detect(Hint) /\ Engine = EngineOf(Service)
    BY DEF Service, Engine, Stages
<1>2. CASE Hint = None
    <2>1. Service # None
        BY <1>1, <1>2, EngineOfIs
    <2> QED
        BY <1>1, <1>2, <2>1, EngineOfIs
<1>3. CASE Hint # None
    <2>1. Engine = Hint /\ Hint \in Engines
        BY <1>1, <1>3, EngineOfIs, HintIs
    <2>2. Score(s, Hint) > 100 /\ Score(s, Hint) \in 0 .. 140
        BY <2>1, ScoreIs
    <2>3. Service # None /\ Score(s, Hint) <= Score(Service, Hint)
        BY <1>1, <2>2, DetectIs
    <2>4. Score(Service, Hint) > 100
        <3>1. Score(Service, Hint) \in 0 .. 140
            BY ScoreIs
        <3> QED
            BY <2>2, <2>3, <3>1
    <2> QED
        BY <2>1, <2>3, <2>4, ScoreIs
<1> QED
    BY <1>2, <1>3

\* The files that have been read are those of the service.
LEMMA FilesFit ==
    ASSUME World, Stages, Asked, pc = "infer", compose, Configured = None,
           config.engine # None \/ Hint = None
    PROVE  asked = Service
<1>1. Hint = config.engine
    BY HintIs
<1> QED
    BY <1>1 DEF Asked, Stages, Service

LEMMA ServiceIs == ASSUME World PROVE Service \in Services \cup {Gone, None}
BY ConfiguredIs, DetectIs DEF Service

\* What the service says of its database is what is taken.
LEMMA NameFits ==
    ASSUME World, TypeOK, Engine # None, Service \in Services \/ Service = None \/ ~compose,
           config.database \/ Key # None,
           NEW name, name = IF Key = None THEN "explicit" ELSE Merged(Service)[Key]
    PROVE  /\ Key \in Keys \cup {None}
           /\ name \in (Values \cup {"explicit"}) \ {Empty}
           /\ compose /\ ~config.database /\ Service # None /\ ServiceEnv(Service)[Engine] \notin {Unset, Empty} =>
                name = ServiceEnv(Service)[Engine]
<1>1. Engine \in Engines /\ Engine \in Keys /\ Generic \in Keys
    BY EngineOfIs DEF Engine, Keys
<1>2. env \in [Keys -> Found] /\ fileEnv \in [Keys -> {Unset, "files"}]
    BY DEF TypeOK, Found
<1>3. CASE config.database
    <2>1. Key = None
        BY <1>3 DEF Key
    <2> QED
        BY <1>3, <2>1 DEF Empty
<1>4. CASE ~config.database
    <2>1. Key = PickKey(Engine, Merged(Service)) /\ Key # None
        BY <1>4 DEF Key
    <2>2. Key \in {Engine, Generic} /\ Merged(Service)[Key] \notin {Unset, Empty}
        BY <1>1, <2>1, PickKeyIs
    <2>3. name = Merged(Service)[Key] /\ name \in Values
        BY <1>1, <1>2, <2>1, <2>2, MergedIs
    <2>4. ASSUME compose, Service # None, ServiceEnv(Service)[Engine] \notin {Unset, Empty}
          PROVE  name = ServiceEnv(Service)[Engine]
        <3>1. Merged(Service)[Engine] = ServiceEnv(Service)[Engine]
            BY <1>1, <1>2, <2>4, MergedIs
        <3>2. Key = Engine
            BY <1>1, <2>1, <2>4, <3>1, PickKeyIs
        <3> QED
            BY <2>3, <3>1, <3>2
    <2> QED
        BY <1>1, <2>2, <2>3, <2>4
<1> QED
    BY <1>3, <1>4

\* What is said of a service, in the next state.
LEMMA Same ==
    ASSUME UNCHANGED <<config, services, env>>
    PROVE  /\ Configured' = Configured /\ Hint' = Hint
           /\ \A s, engine : Shows(s, engine)' <=> Shows(s, engine)
           /\ \A s, engine : ServiceEnv(s)[engine]' = ServiceEnv(s)[engine]
<1>1. Configured' = Configured /\ Hint' = Hint
    BY DEF Configured, Hint
<1>2. \A s : ServiceEnv(s)' = ServiceEnv(s)
    BY DEF ServiceEnv, Expand
<1> QED
    BY <1>1, <1>2 DEF Shows

LEMMA DetectSame ==
    ASSUME UNCHANGED <<config, services, env>>
    PROVE  \A hint : Detect(hint)' = Detect(hint)
<1>1. \A s : ServiceEnv(s)' = ServiceEnv(s)
    BY DEF ServiceEnv, Expand
<1>2. \A s, hint : Score(s, hint)' = Score(s, hint)
    BY <1>1 DEF Score
<1> SUFFICES ASSUME NEW hint PROVE Detect(hint)' = Detect(hint)
    OBVIOUS
<1> DEFINE best == {i \in 1 .. Len(Names) :
                        /\ \A j \in 1 .. Len(Names) :
                                LET a == Score(Names[i], hint)
                                    b == Score(Names[j], hint) IN a > b \/ (a = b /\ i <= j)
                        /\ Score(Names[i], hint) > 0}
<1>3. best' = best
    BY <1>2
<1>4. Detect(hint) = IF best = {} THEN None ELSE Names[CHOOSE i \in best : TRUE]
    BY DEF Detect
<1>5. Detect(hint)' = IF best' = {} THEN None ELSE Names[CHOOSE i \in best' : TRUE]
    BY DEF Detect
<1> HIDE DEF best
<1> QED
    BY <1>3, <1>4, <1>5
-------------------------------------------------------------------------------------
(* The steps.                                                                        *)

LEMMA InferInit == Init => InferInv
<1> SUFFICES ASSUME Init PROVE InferInv
    OBVIOUS
<1>1. World
    BY TargetsAssumption DEF Init, World
<1>2. TypeOK
    BY MarksAssumption DEF Init, TypeOK, Blank, Nothing, Resolved, Unset, Empty, Raw
<1>3. Stages /\ Asked
    BY DEF Init, Stages, Asked, Resolved
<1>4. EngineFitsService /\ FilesOfTheService /\ ServiceDecides
    BY DEF Init, EngineFitsService, FilesOfTheService, ServiceDecides, Detected, Resolved
<1> QED
    BY <1>1, <1>2, <1>3, <1>4 DEF InferInv

\* Nothing is said yet of a result.
LEMMA NoResult ==
    ASSUME pc' \notin Resolved
    PROVE  EngineFitsService' /\ FilesOfTheService' /\ ServiceDecides'
BY DEF EngineFitsService, FilesOfTheService, ServiceDecides, Detected, Resolved

LEMMA ReadEnvStep == ASSUME InferInv, ReadEnv PROVE InferInv'
<1>1. pc = "env" /\ env' \in {envFile, Blank} /\ UNCHANGED <<world, compose, asked, fileEnv, pod, result>>
    BY DEF ReadEnv
<1>2. /\ pc' \in {"pod", "compose", "infer"}
      /\ pc' = "pod" => config.target = "kubernetes"
      /\ pc' = "compose" => config.target = "compose"
      /\ pc' = "infer" => config.target # "compose" /\ (config.target # "kubernetes" \/ side = "command")
    BY DEF ReadEnv, InferInv, World
<1>3. env' \in [Keys -> {Unset, Empty, "env", "pod"}] /\ \A k \in Keys : env'[k] # "pod"
    BY <1>1 DEF InferInv, World, Blank, Unset, Empty
<1>4. World'
    BY <1>1 DEF InferInv, World, world
<1>5. ~compose /\ result = Nothing
    BY <1>1 DEF InferInv, Stages, Resolved
<1>6. TypeOK'
    BY <1>1, <1>2, <1>3, <1>5, MarksAssumption DEF InferInv, TypeOK, Resolved, Nothing, world
<1>7. Stages' /\ Asked'
    BY <1>1, <1>2, <1>5 DEF InferInv, Stages, Asked, Resolved, Nothing, world
<1>8. EngineFitsService' /\ FilesOfTheService' /\ ServiceDecides'
    BY <1>2, NoResult DEF Resolved
<1> QED
    BY <1>4, <1>6, <1>7, <1>8 DEF InferInv

LEMMA ReadPodStep == ASSUME InferInv, ReadPod PROVE InferInv'
<1>1. pc = "pod" /\ pc' \in {"infer", "failed"} /\ UNCHANGED <<world, compose, asked, fileEnv, result>>
    BY DEF ReadPod
<1>2. config.target = "kubernetes" /\ ~compose /\ result = Nothing
    BY <1>1 DEF InferInv, Stages, Resolved
<1>3. env' \in [Keys -> {Unset, Empty, "env", "pod"}]
    <2>1. CASE UNCHANGED env
        BY <2>1 DEF InferInv, TypeOK
    <2>2. ASSUME NEW read \in {podEnv, Blank}, env' = Extend(env, read) PROVE env' \in [Keys -> {Unset, Empty, "env", "pod"}]
        <3>1. read \in [Keys -> {Unset, "pod"}]
            BY DEF InferInv, World, Blank
        <3> QED
            BY <2>2, <3>1 DEF InferInv, TypeOK, Extend
    <2> QED
        BY <2>1, <2>2 DEF ReadPod
<1>4. pod' \in BOOLEAN /\ (pc' = "infer" => pod')
    BY DEF ReadPod, InferInv, TypeOK
<1>5. World'
    BY <1>1 DEF InferInv, World, world
<1>6. TypeOK'
    BY <1>1, <1>2, <1>3, <1>4, MarksAssumption DEF InferInv, TypeOK, Resolved, Nothing, world
<1>7. Stages' /\ Asked'
    BY <1>1, <1>2, <1>4 DEF InferInv, Stages, Asked, Resolved, Nothing, world
<1>8. EngineFitsService' /\ FilesOfTheService' /\ ServiceDecides'
    BY <1>1, NoResult DEF Resolved
<1> QED
    BY <1>5, <1>6, <1>7, <1>8 DEF InferInv

LEMMA ReadComposeStep == ASSUME InferInv, ReadCompose PROVE InferInv'
<1>1. /\ pc = "compose" /\ pc' \in {"files", "infer", "failed"}
      /\ UNCHANGED <<world, env, asked, fileEnv, pod, result>>
      /\ compose' = compose \/ (compose' = TRUE /\ pc' = "files")
      /\ pc' = "files" => compose' = TRUE
    BY DEF ReadCompose
<1>2. config.target = "compose" /\ ~compose /\ result = Nothing /\ asked = None
    BY <1>1 DEF InferInv, Stages, Resolved
<1>3. World'
    BY <1>1 DEF InferInv, World, world
<1>4. TypeOK'
    BY <1>1, <1>2, MarksAssumption DEF InferInv, TypeOK, Resolved, Nothing, world
<1>5. Stages' /\ Asked'
    <2>1. config' = config /\ result' = Nothing /\ asked' = None /\ (pc' # "files" => ~compose')
        BY <1>1, <1>2 DEF world
    <2>2. compose' \in BOOLEAN
        BY <1>1 DEF InferInv, Stages
    <2> QED
        BY <1>1, <1>2, <2>1, <2>2 DEF Stages, Asked, Resolved
<1>6. EngineFitsService' /\ FilesOfTheService' /\ ServiceDecides'
    BY <1>1, NoResult DEF Resolved
<1> QED
    BY <1>3, <1>4, <1>5, <1>6 DEF InferInv

LEMMA ReadServiceFilesStep == ASSUME InferInv, ReadServiceFiles PROVE InferInv'
<1>1. /\ pc = "files" /\ pc' = "infer"
      /\ asked' = IF Configured # None THEN Configured ELSE Detect(config.engine)
      /\ UNCHANGED <<world, env, compose, pod, result>>
    BY DEF ReadServiceFiles
<1>2. config.target = "compose" /\ compose /\ result = Nothing
    BY <1>1 DEF InferInv, Stages, Resolved
<1>3. asked' \in Services \cup {Gone, None}
    BY <1>1, ConfiguredIs, DetectIs DEF InferInv
<1>4. fileEnv' \in [Keys -> {Unset, "files"}]
    <2>1. PICK read : /\ read = Blank \/ \E some \in SUBSET Keys :
                                            read = [k \in Keys |-> IF k \in some THEN "files" ELSE Unset]
                      /\ fileEnv' = read
        <3>1. ASSUME NEW s \in Services PROVE services[s].files \in SUBSET Keys
            BY DescriptionAssumption DEF InferInv, World
        <3> QED
            BY <3>1 DEF ReadServiceFiles
    <2> QED
        BY <2>1 DEF Blank
<1>5. World'
    BY <1>1 DEF InferInv, World, world
<1>6. TypeOK'
    BY <1>1, <1>2, <1>3, <1>4, MarksAssumption DEF InferInv, TypeOK, Resolved, Nothing, world
<1>7. Stages'
    BY <1>1, <1>2 DEF InferInv, Stages, Resolved, Nothing, world
<1>8. Asked'
    <2>1. Configured' = Configured /\ \A hint : Detect(hint)' = Detect(hint)
        BY <1>1, Same, DetectSame DEF world
    <2>2. config' = config
        BY <1>1 DEF world
    <2> QED
        BY <1>1, <2>1, <2>2 DEF Asked
<1>9. EngineFitsService' /\ FilesOfTheService' /\ ServiceDecides'
    BY <1>1, NoResult DEF Resolved
<1> QED
    BY <1>5, <1>6, <1>7, <1>8, <1>9 DEF InferInv

\* What infer_db does with its choices.
LEMMA InferDoes ==
    ASSUME Infer
    PROVE  \/ pc' = "failed" /\ UNCHANGED result
           \/ /\ Service \in Services \/ Service = None \/ ~compose
              /\ Engine # None /\ (config.database \/ Key # None)
              /\ pc' = "done"
              /\ result' = [engine |-> Engine, service |-> Service, key |-> Key,
                            name |-> IF Key = None THEN "explicit" ELSE Merged(Service)[Key]]
BY DEF Infer, Service, Engine, Key

LEMMA InferStep == ASSUME InferInv, Infer PROVE InferInv'
<1>1. pc = "infer" /\ UNCHANGED <<world, env, compose, asked, fileEnv, pod>>
    BY DEF Infer
<1>2. UNCHANGED <<config, services, env>> /\ result = Nothing
    BY <1>1 DEF InferInv, Stages, Resolved, world
<1>3. World'
    BY <1>1 DEF InferInv, World, world
<1>4. CASE pc' = "failed" /\ UNCHANGED result
    <2>1. TypeOK'
        BY <1>1, <1>2, <1>4, MarksAssumption DEF InferInv, TypeOK, Resolved, Nothing, world
    <2>2. Stages' /\ Asked'
        BY <1>1, <1>2, <1>4 DEF InferInv, Stages, Asked, Resolved, world
    <2>3. EngineFitsService' /\ FilesOfTheService' /\ ServiceDecides'
        BY <1>4, NoResult DEF Resolved
    <2> QED
        BY <1>3, <2>1, <2>2, <2>3 DEF InferInv
<1>5. ASSUME Service \in Services \/ Service = None \/ ~compose,
             Engine # None, config.database \/ Key # None, pc' = "done",
             NEW name, name = (IF Key = None THEN "explicit" ELSE Merged(Service)[Key]),
             result' = [engine |-> Engine, service |-> Service, key |-> Key, name |-> name]
      PROVE  InferInv'
    <2>1. result'.engine = Engine /\ result'.service = Service /\ result'.key = Key /\ result'.name = name
        BY <1>5
    <2>2. Engine \in Engines /\ Service \in Services \cup {Gone, None} /\ Key \in Keys \cup {None}
          /\ name \in {Unset, Raw, "env", "pod", "service", "files", "explicit"}
        <3>1. Engine \in Engines
            BY <1>5, EngineOfIs DEF InferInv, Engine
        <3>2. Key \in Keys \cup {None} /\ name \in (Values \cup {"explicit"}) \ {Empty}
            BY <1>5, NameFits DEF InferInv
        <3> QED
            BY <3>1, <3>2, ServiceIs DEF InferInv, Values, Found
    <2>3. TypeOK'
        BY <1>1, <1>2, <1>5, <2>1, <2>2, MarksAssumption DEF InferInv, TypeOK, Resolved, world
    <2>4. Stages' /\ Asked'
        BY <1>1, <1>2, <1>5 DEF InferInv, Stages, Asked, Resolved, world
    <2>5. /\ Configured' = Configured /\ Hint' = Hint
          /\ \A s, engine : Shows(s, engine)' <=> Shows(s, engine)
          /\ \A s, engine : ServiceEnv(s)[engine]' = ServiceEnv(s)[engine]
        BY <1>2, Same
    <2>6. EngineFitsService'
        <3> SUFFICES ASSUME compose, Configured = None, NEW s \in Services, Shows(s, Engine)
                     PROVE  Service # None /\ Shows(Service, Engine)
            BY <1>1, <2>1, <2>5 DEF EngineFitsService, Detected
        <3> QED
            BY <1>5, EngineFits DEF InferInv
    <2>7. FilesOfTheService'
        <3> SUFFICES ASSUME compose, Configured = None, config.engine # None \/ Hint = None
                     PROVE  asked = Service
            BY <1>1, <1>2, <2>1, <2>5 DEF FilesOfTheService, Detected
        <3> QED
            BY <1>1, FilesFit DEF InferInv
    <2>8. ServiceDecides'
        <3> SUFFICES ASSUME compose, ~config.database, Service # None,
                            ServiceEnv(Service)[Engine] \notin {Unset, Empty}
                     PROVE  name = ServiceEnv(Service)[Engine]
            BY <1>1, <1>2, <2>1, <2>5 DEF ServiceDecides
        <3> QED
            BY <1>5, NameFits DEF InferInv
    <2> QED
        BY <1>3, <2>3, <2>4, <2>6, <2>7, <2>8 DEF InferInv
<1> QED
    BY <1>4, <1>5, InferDoes

LEMMA WrapStep == ASSUME InferInv, Wrap PROVE InferInv'
<1>1. /\ pc = "done" /\ pc' \in {"refused", "wrapped"}
      /\ pc' = "refused" /\ config.target = "kubernetes" => ~pod
      /\ UNCHANGED <<world, env, compose, asked, fileEnv, pod, result>>
    BY DEF Wrap
<1>2. UNCHANGED <<config, services, env>>
    BY <1>1 DEF world
<1>3. World'
    BY <1>1 DEF InferInv, World, world
<1>4. TypeOK'
    BY <1>1 DEF InferInv, TypeOK, Stages, Resolved, world
<1>5. Stages' /\ Asked'
    BY <1>1 DEF InferInv, Stages, Asked, Resolved, world
<1>6. /\ Configured' = Configured /\ Hint' = Hint
      /\ \A s, engine : Shows(s, engine)' <=> Shows(s, engine)
      /\ \A s, engine : ServiceEnv(s)[engine]' = ServiceEnv(s)[engine]
    BY <1>2, Same
<1>7. EngineFitsService'
    BY <1>1, <1>6 DEF InferInv, EngineFitsService, Detected, Resolved
<1>8. FilesOfTheService'
    BY <1>1, <1>2, <1>6 DEF InferInv, FilesOfTheService, Detected, Resolved
<1>9. ServiceDecides'
    BY <1>1, <1>2, <1>6 DEF InferInv, ServiceDecides, Resolved
<1> QED
    BY <1>3, <1>4, <1>5, <1>7, <1>8, <1>9 DEF InferInv

LEMMA Stutter == ASSUME InferInv, UNCHANGED vars PROVE InferInv'
<1>1. UNCHANGED <<config, services, env, compose, pc, asked, result>> /\ UNCHANGED <<world, fileEnv, pod, side>>
    BY DEF vars, world
<1>2. /\ Configured' = Configured /\ Hint' = Hint
      /\ \A s, engine : Shows(s, engine)' <=> Shows(s, engine)
      /\ \A s, engine : ServiceEnv(s)[engine]' = ServiceEnv(s)[engine]
    BY <1>1, Same
<1>3. \A hint : Detect(hint)' = Detect(hint)
    BY <1>1, DetectSame
<1>4. World' /\ TypeOK' /\ Stages'
    BY <1>1 DEF InferInv, World, TypeOK, Stages, world
<1>5. Asked'
    BY <1>1, <1>2, <1>3 DEF InferInv, Asked
<1>6. EngineFitsService'
    BY <1>1, <1>2 DEF InferInv, EngineFitsService, Detected
<1>7. FilesOfTheService'
    BY <1>1, <1>2 DEF InferInv, FilesOfTheService, Detected
<1>8. ServiceDecides'
    BY <1>1, <1>2 DEF InferInv, ServiceDecides
<1> QED
    BY <1>4, <1>5, <1>6, <1>7, <1>8 DEF InferInv

LEMMA InferAlways == Spec => []InferInv
<1>1. InferInv /\ [Next]_vars => InferInv'
    BY ReadEnvStep, ReadPodStep, ReadComposeStep, ReadServiceFilesStep, InferStep, WrapStep, Stutter
    DEF Next
<1> QED
    BY <1>1, InferInit, PTL DEF Spec
-------------------------------------------------------------------------------------
\* Every reachable state has the types that the module states; in particular a run never
\* goes into a pod whose name it does not know.
THEOREM InferTypes == Spec => []TypeOK
<1>1. InferInv => TypeOK
    BY DEF InferInv
<1> QED
    BY <1>1, InferAlways, PTL

\* However many services there are, with whatever images and variables: while one of them
\* shows the engine, the commands go into one that does.
THEOREM EngineAndService == Spec => []EngineFitsService
<1>1. InferInv => EngineFitsService
    BY DEF InferInv
<1> QED
    BY <1>1, InferAlways, PTL

\* The two searches for a service, which look at different things, find the same one.
THEOREM FilesAndService == Spec => []FilesOfTheService
<1>1. InferInv => FilesOfTheService
    BY DEF InferInv
<1> QED
    BY <1>1, InferAlways, PTL

\* What the environment of the selected service says of its database is what is taken.
THEOREM NameAndService == Spec => []ServiceDecides
<1>1. InferInv => ServiceDecides
    BY DEF InferInv
<1> QED
    BY <1>1, InferAlways, PTL
=====================================================================================
