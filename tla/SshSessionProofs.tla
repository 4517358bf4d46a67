------------------------------ MODULE SshSessionProofs ------------------------------
(***********************************************************************************)
(* For every set of keys, every limit of the server and whatever the network does:    *)
(* the types, and that no run gets as far as a dump on what a broken connection has   *)
(* left of its reads.                                                                *)
(***********************************************************************************)
EXTENDS SshSession, SequenceTheorems, FiniteSetTheorems, TLAPS

\* The server counts: it has hung up as soon as the limit is reached.
Counted == refusals < Limit \/ link = "closed"

\* A read that a broken connection has ended is over with the connection: the one
\* connection of the run does not come back.
BrokenForGood == \A i \in 1..Steps : got[i] \in {"cut", "unreachable"} => Gone

SessionInv == TypeOK /\ Counted /\ BrokenForGood /\ DumpsOnWhatItRead

\* What an agent lists has a length.
LEMMA AgentLists == \A s \in Setups : Len(s.agent) \in Nat
<1> SUFFICES ASSUME NEW s \in Setups PROVE Len(s.agent) \in Nat
    OBVIOUS
<1>1. s.agent \in Identities
    BY DEF Setups
<1>2. PICK n \in 0..Cardinality(Keys) : s.agent \in [1..n -> Keys]
    BY <1>1 DEF Identities
<1>3. Cardinality(Keys) \in Nat
    BY KeysAssumption, FS_CardinalityType
<1>4. s.agent \in Seq(Keys)
    BY <1>2, <1>3, SeqDef
<1> QED
    BY <1>4, LenProperties

LEMMA SessionInit == Init => SessionInv
    BY AgentLists, LimitAssumption, NoneAssumption
    DEF Init, SessionInv, TypeOK, Counted, BrokenForGood, DumpsOnWhatItRead, LoggingIn, Outcomes, Steps

LEMMA SessionNext == SessionInv /\ [Next]_vars => SessionInv'
<1> SUFFICES ASSUME SessionInv, [Next]_vars PROVE SessionInv'
    OBVIOUS
<1>0. Len(setup.agent) \in Nat
    BY AgentLists DEF SessionInv, TypeOK
<1> USE LimitAssumption, NoneAssumption, <1>0 DEF SessionInv, TypeOK, Counted, BrokenForGood, DumpsOnWhatItRead,
        LoggingIn, Over, Outcomes, Steps, Go, Up, Gone
<1>1. ASSUME Connect PROVE SessionInv'
    BY <1>1 DEF Connect
<1>2. ASSUME OfferIdentity PROVE SessionInv'
    BY <1>2 DEF OfferIdentity, Skip, Accept, Refuse
<1>3. ASSUME EndAgent PROVE SessionInv'
    BY <1>3 DEF EndAgent
<1>4. ASSUME OfferFile PROVE SessionInv'
    BY <1>4 DEF OfferFile, Skip, Accept, Refuse
<1>5. ASSUME OfferPassword PROVE SessionInv'
    BY <1>5 DEF OfferPassword, Skip, Accept, Refuse
<1>6. ASSUME NEW how \in Outcomes, EndRead(how), phase = "session", position < Steps,
             UNCHANGED <<setup, offered, refusals>>,
             how \in {"cut", "unreachable"} => link' \in {"lost", "closed"},
             link' = link \/ (link # "closed" /\ link' = "lost")
      PROVE  SessionInv'
    <2>1. phase' \in {"session", "failed"}
        <3>1. \A name : After(name, how) \subseteq {"session", "failed"}
            BY DEF After
        <3> QED
            BY <1>6, <3>1 DEF EndRead
    <2>2. /\ position' = position + 1
          /\ got'[position + 1] = how
          /\ \A i \in 1..Steps : i # position + 1 => got'[i] = got[i]
        BY <1>6 DEF EndRead
    <2>3. got' \in [1..Steps -> Outcomes \cup {None}]
        BY <1>6 DEF EndRead
    <2>4. Gone => Gone'
        BY <1>6
    <2>5. TypeOK' /\ Counted'
        BY <1>6, <2>1, <2>2, <2>3
    <2>6. BrokenForGood'
        BY <1>6, <2>2, <2>4
    <2> QED
        BY <2>1, <2>5, <2>6
<1>7. ASSUME Read \/ CutRead PROVE SessionInv'
    BY <1>6, <1>7 DEF Read, CutRead
<1>8. ASSUME Dump PROVE SessionInv'
    BY <1>8 DEF Dump
<1>9. ASSUME RestoreLocal \/ SyncFiles PROVE SessionInv'
    BY <1>9 DEF RestoreLocal, SyncFiles
<1>10. ASSUME Lose PROVE SessionInv'
    BY <1>10 DEF Lose
<1>11. ASSUME Timeout PROVE SessionInv'
    BY <1>6, <1>11 DEF Timeout
<1>12. CASE UNCHANGED vars
    BY <1>12 DEF vars
<1> QED
    BY <1>1, <1>2, <1>3, <1>4, <1>5, <1>7, <1>8, <1>9, <1>10, <1>11, <1>12 DEF Next, Run

\* Every reachable state has the types that the module states; in particular the server
\* never refuses more than `Limit` credentials.
THEOREM SessionTypes == Spec => []TypeOK
<1>1. SessionInv => TypeOK
    BY DEF SessionInv
<1> QED
    BY <1>1, SessionInit, SessionNext, PTL DEF Spec

\* However often and whenever the connection breaks, no run gets as far as a dump on half
\* of what it meant to read.
THEOREM DumpsOnWholeReads == Spec => []DumpsOnWhatItRead
<1>1. SessionInv => DumpsOnWhatItRead
    BY DEF SessionInv
<1> QED
    BY <1>1, SessionInit, SessionNext, PTL DEF Spec
=====================================================================================
