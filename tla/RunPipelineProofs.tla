----------------------------- MODULE RunPipelineProofs -----------------------------
(***********************************************************************************)
(* Theorems about RunPipeline for every project, any number of `files` entries and    *)
(* scripts that make any number of calls: the types, that no script meets a borrowed   *)
(* state, that a manifest is of its own run, that afterRestore finds the restore, and  *)
(* that the default pipeline follows its diagram.                                      *)
(*                                                                                   *)
(* Most of the invariant is about the steps to come: what stands before what, and      *)
(* which step is still owed to a later one.  These are properties of sequences, kept    *)
(* when steps are put in front (Then, CallBack) and when an error drops steps (Raise).  *)
(***********************************************************************************)
EXTENDS RunPipeline, SequenceTheorems, FiniteSetTheorems, TLAPS

\* The steps that a call from the script is made of.
Quiet == Actions \cup {"dump", "fetch", "restore", "sync", "release"}

\* In s, from position i on, n entries of `files` and the end of their block.
Syncs(s, i, n) ==
    i + n <= Len(s) /\ (\A k \in i .. i + n - 1 : s[k] = "sync") /\ s[i + n] = "release"

\* Steps that never begin a run of steps.
Inner == {"fetch", "restore", "afterRestore", "release"}

\* What stands before position i.
Placed(s, i, n) ==
    /\ s[i] = "fetch" => s[i - 1] = "dump"
    /\ s[i] = "restore" => s[i - 1] = "reset"
    /\ s[i] = "afterRestore" => s[i - 1] = "restore"
    /\ s[i] = "release" => s[i - 1] = "sync"
    /\ s[i] = "sync" /\ s[i - 1] # "sync" => Syncs(s, i, n)

Shaped(s, n) == \A i \in 2 .. Len(s) : Placed(s, i, n)

\* What begins at position i may follow anything.
Begins(s, i, n) == i <= Len(s) => s[i] \notin Inner /\ (s[i] = "sync" => Syncs(s, i, n))

\* Only the program's own steps are in front of a running function, so that none calls another.
OneScript(s) == \A i, j \in 1 .. Len(s) : i < j /\ s[j] = "js" => s[i] \in Quiet

\* A step of `steps` is still to come before position i, and no function ends in between.
Due(s, steps, i) ==
    \E j \in 1 .. i - 1 : s[j] \in steps /\ \A k \in j .. i : s[k] # "js"

Owed(s, step, steps) == \A i \in 1 .. Len(s) : s[i] = step => Due(s, steps, i)

\* A dry run has no hooks but the extensions'.
Dry(s) == \A i \in 1 .. Len(s) : s[i] \in HookNames => s[i] = "extension"
-------------------------------------------------------------------------------------
(* Sequences of steps.                                                               *)

\* s has u in place of its first step.
LEMMA Replaced ==
    ASSUME NEW u \in Seq(Steps), NEW s \in Seq(Steps), s # <<>>, NEW t, t = u \o Tail(s)
    PROVE  /\ t \in Seq(Steps)
           /\ Len(u) \in Nat /\ Len(s) \in Nat /\ Len(s) > 0 /\ Len(t) = Len(u) + Len(s) - 1
           /\ \A i \in 1 .. Len(u) : t[i] = u[i]
           /\ \A i \in 2 .. Len(s) : t[Len(u) + i - 1] = s[i]
           /\ \A i \in Len(u) + 1 .. Len(t) : t[i] = s[i - Len(u) + 1]
<1>1. /\ Tail(s) \in Seq(Steps) /\ Len(Tail(s)) = Len(s) - 1
      /\ \A i \in 1 .. Len(s) - 1 : Tail(s)[i] = s[i + 1]
    BY HeadTailProperties
<1>2. Len(u) \in Nat /\ Len(s) \in Nat /\ Len(s) > 0
    BY LenProperties, EmptySeq
<1> DEFINE r == Tail(s)
<1>3. /\ t \in Seq(Steps) /\ Len(t) = Len(u) + Len(r)
      /\ \A i \in 1 .. Len(u) + Len(r) : t[i] = IF i <= Len(u) THEN u[i] ELSE r[i - Len(u)]
    BY <1>1, ConcatProperties
<1> QED
    BY <1>1, <1>2, <1>3

LEMMA ShapedThen ==
    ASSUME NEW n \in Nat, NEW u \in Seq(Steps), NEW s \in Seq(Steps), s # <<>>,
           Shaped(s, n), Shaped(u, n), u # <<>> => Begins(s, 2, n)
    PROVE  Shaped(u \o Tail(s), n)
<1> DEFINE t == u \o Tail(s)
<1>1. /\ Len(u) \in Nat /\ Len(s) \in Nat /\ Len(s) > 0 /\ Len(t) = Len(u) + Len(s) - 1
      /\ \A i \in 1 .. Len(u) : t[i] = u[i]
      /\ \A i \in 2 .. Len(s) : t[Len(u) + i - 1] = s[i]
    BY Replaced
<1> HIDE DEF t
<1>2. ASSUME NEW i \in 1 .. Len(u), Syncs(u, i, n) PROVE Syncs(t, i, n)
    <2>1. i + n \in 1 .. Len(u) /\ i + n <= Len(t)
        BY <1>1, <1>2 DEF Syncs
    <2>2. \A k \in i .. i + n - 1 : k \in 1 .. Len(u)
        BY <1>1, <2>1
    <2> QED
        BY <1>1, <1>2, <2>1, <2>2 DEF Syncs
<1>3. ASSUME NEW i \in 2 .. Len(s), Syncs(s, i, n) PROVE Syncs(t, Len(u) + i - 1, n)
    <2>1. Len(u) + i - 1 + n <= Len(t) /\ t[Len(u) + i - 1 + n] = "release"
        <3>1. i + n \in 2 .. Len(s) /\ Len(u) + (i + n) - 1 = Len(u) + i - 1 + n
            BY <1>1, <1>3 DEF Syncs
        <3>2. t[Len(u) + (i + n) - 1] = s[i + n]
            BY <1>1, <3>1
        <3> QED
            BY <1>1, <1>3, <3>1, <3>2 DEF Syncs
    <2>2. ASSUME NEW k \in Len(u) + i - 1 .. Len(u) + i - 1 + n - 1 PROVE t[k] = "sync"
        <3>1. k - Len(u) + 1 \in i .. i + n - 1 /\ k - Len(u) + 1 \in 2 .. Len(s)
              /\ Len(u) + (k - Len(u) + 1) - 1 = k
            <4>1. i + n <= Len(s) /\ k \in Int /\ Len(u) \in Int /\ Len(s) \in Int
                BY <1>1, <1>3 DEF Syncs
            <4>2. k >= Len(u) + i - 1 /\ k <= Len(u) + i + n - 2 /\ i >= 2
                BY <1>1
            <4> QED
                BY ONLY <4>1, <4>2, n \in Nat, i \in Int
        <3>2. t[Len(u) + (k - Len(u) + 1) - 1] = s[k - Len(u) + 1]
            BY <1>1, <3>1
        <3> QED
            BY <1>3, <3>1, <3>2 DEF Syncs
    <2> QED
        BY <2>1, <2>2 DEF Syncs
<1>4. ASSUME NEW i \in 2 .. Len(t) PROVE Placed(t, i, n)
    <2>1. CASE i <= Len(u)
        <3>1. i \in 2 .. Len(u) /\ i - 1 \in 1 .. Len(u) /\ t[i] = u[i] /\ t[i - 1] = u[i - 1]
            BY <1>1, <2>1
        <3>2. Placed(u, i, n)
            BY <3>1 DEF Shaped
        <3> QED
            BY <1>2, <3>1, <3>2 DEF Placed
    <2>2. CASE i = Len(u) + 1
        <3>1. u # <<>> /\ 2 \in 2 .. Len(s) /\ t[i] = s[2] /\ Len(u) + 2 - 1 = i
            BY <1>1, <2>2
        <3>2. s[2] \notin Inner /\ (s[2] = "sync" => Syncs(s, 2, n))
            BY <1>1, <3>1 DEF Begins
        <3> QED
            BY <1>3, <3>1, <3>2 DEF Placed, Inner
    <2>3. CASE i > Len(u) + 1
        <3> DEFINE j == i - Len(u) + 1
        <3>1. j \in 3 .. Len(s) /\ j - 1 \in 2 .. Len(s)
              /\ Len(u) + j - 1 = i /\ Len(u) + (j - 1) - 1 = i - 1
            BY <1>1, <2>3
        <3>2. t[i] = s[j] /\ t[i - 1] = s[j - 1]
            BY <1>1, <3>1
        <3>3. Placed(s, j, n)
            BY <3>1 DEF Shaped
        <3> QED
            BY <1>3, <3>1, <3>2, <3>3 DEF Placed
    <2> QED
        BY <1>1, <2>1, <2>2, <2>3
<1> QED
    BY <1>4 DEF Shaped, t

LEMMA OneScriptThen ==
    ASSUME NEW u \in Seq(Steps), NEW s \in Seq(Steps), s # <<>>, OneScript(s), OneScript(u),
           (\A i \in 1 .. Len(u) : u[i] \in Quiet) \/ (\A i \in 2 .. Len(s) : s[i] # "js")
    PROVE  OneScript(u \o Tail(s))
<1> DEFINE t == u \o Tail(s)
<1>1. /\ Len(u) \in Nat /\ Len(s) \in Nat /\ Len(t) = Len(u) + Len(s) - 1
      /\ \A i \in 1 .. Len(u) : t[i] = u[i]
      /\ \A i \in Len(u) + 1 .. Len(t) : t[i] = s[i - Len(u) + 1]
    BY Replaced
<1> HIDE DEF t
<1>2. ASSUME NEW i \in 1 .. Len(t), NEW j \in 1 .. Len(t), i < j, t[j] = "js"
      PROVE  t[i] \in Quiet
    <2>1. CASE j <= Len(u)
        <3>1. i \in 1 .. Len(u) /\ j \in 1 .. Len(u)
            BY <1>1, <1>2, <2>1
        <3> QED
            BY <1>1, <1>2, <3>1 DEF OneScript
    <2>2. CASE i > Len(u)
        <3> DEFINE k == i - Len(u) + 1
                   m == j - Len(u) + 1
        <3>1. i \in Len(u) + 1 .. Len(t) /\ j \in Len(u) + 1 .. Len(t)
            BY <1>1, <1>2, <2>2
        <3>2. k \in 1 .. Len(s) /\ m \in 1 .. Len(s) /\ k < m
            BY <1>1, <1>2, <2>2
        <3>3. t[i] = s[k] /\ t[j] = s[m]
            BY <1>1, <3>1
        <3> HIDE DEF k, m
        <3> QED
            BY <1>2, <3>2, <3>3 DEF OneScript
    <2>3. CASE i <= Len(u) /\ j > Len(u)
        <3>1. j \in Len(u) + 1 .. Len(t) /\ i \in 1 .. Len(u)
            BY <1>1, <2>3
        <3>2. j - Len(u) + 1 \in 2 .. Len(s)
            BY <1>1, <3>1
        <3>3. s[j - Len(u) + 1] = "js" /\ t[i] = u[i]
            BY <1>1, <1>2, <3>1
        <3> QED
            BY <3>1, <3>2, <3>3
    <2> QED
        BY <1>1, <2>1, <2>2, <2>3
<1> QED
    BY <1>2 DEF OneScript, t

LEMMA DryThen ==
    ASSUME NEW u \in Seq(Steps), NEW s \in Seq(Steps), s # <<>>, Dry(s), Dry(u)
    PROVE  Dry(u \o Tail(s))
<1> DEFINE t == u \o Tail(s)
<1>1. /\ Len(u) \in Nat /\ Len(s) \in Nat /\ Len(t) = Len(u) + Len(s) - 1
      /\ \A i \in 1 .. Len(u) : t[i] = u[i]
      /\ \A i \in Len(u) + 1 .. Len(t) : t[i] = s[i - Len(u) + 1]
    BY Replaced
<1> HIDE DEF t
<1>2. ASSUME NEW i \in 1 .. Len(t) PROVE t[i] \in HookNames => t[i] = "extension"
    <2>1. CASE i <= Len(u)
        BY <1>1, <2>1 DEF Dry
    <2>2. CASE i > Len(u)
        <3>1. i - Len(u) + 1 \in 1 .. Len(s) /\ t[i] = s[i - Len(u) + 1]
            BY <1>1, <2>2
        <3> QED
            BY <3>1 DEF Dry
    <2> QED
        BY <1>1, <2>1, <2>2
<1> QED
    BY <1>2 DEF Dry, t

\* What the first step owes, the steps in its place must do.
LEMMA OwedThen ==
    ASSUME NEW u \in Seq(Steps), NEW s \in Seq(Steps), s # <<>>, NEW step, NEW steps,
           Owed(s, step, steps), Owed(u, step, steps),
           s[1] \in steps => /\ \E j \in 1 .. Len(u) : u[j] \in steps
                             /\ \A j \in 1 .. Len(u) : u[j] # "js"
    PROVE  Owed(u \o Tail(s), step, steps)
<1> DEFINE t == u \o Tail(s)
<1>1. /\ Len(u) \in Nat /\ Len(s) \in Nat /\ Len(t) = Len(u) + Len(s) - 1
      /\ \A i \in 1 .. Len(u) : t[i] = u[i]
      /\ \A i \in 2 .. Len(s) : t[Len(u) + i - 1] = s[i]
      /\ \A i \in Len(u) + 1 .. Len(t) : t[i] = s[i - Len(u) + 1]
    BY Replaced
<1> HIDE DEF t
<1>2. ASSUME NEW i \in 1 .. Len(t), t[i] = step PROVE Due(t, steps, i)
    <2>1. CASE i <= Len(u)
        <3>1. i \in 1 .. Len(u) /\ u[i] = step
            BY <1>1, <1>2, <2>1
        <3>2. PICK j \in 1 .. i - 1 : u[j] \in steps /\ \A k \in j .. i : u[k] # "js"
            BY <3>1 DEF Owed, Due
        <3>3. j \in 1 .. Len(u) /\ \A k \in j .. i : k \in 1 .. Len(u)
            BY <1>1, <3>1
        <3>4. t[j] \in steps /\ \A k \in j .. i : t[k] # "js"
            BY <1>1, <3>2, <3>3
        <3> QED
            BY <3>4 DEF Due
    <2>2. CASE i > Len(u)
        <3> DEFINE m == i - Len(u) + 1
        <3>1. i \in Len(u) + 1 .. Len(t)
            BY <1>1, <2>2
        <3>2. m \in 2 .. Len(s) /\ s[m] = step /\ i = Len(u) + m - 1
            <4>1. t[i] = s[m]
                BY <1>1, <3>1
            <4> QED
                BY <1>1, <1>2, <2>2, <4>1
        <3> HIDE DEF m
        <3>3. PICK j \in 1 .. m - 1 : s[j] \in steps /\ \A k \in j .. m : s[k] # "js"
            BY <3>2 DEF Owed, Due
        <3>4. ASSUME NEW k \in Len(u) + 1 .. i, k >= Len(u) + j - 1 PROVE t[k] # "js"
            <4>1. k - Len(u) + 1 \in j .. m /\ t[k] = s[k - Len(u) + 1]
                BY <1>1, <3>2, <3>4
            <4> QED
                BY <3>3, <4>1
        <3>5. CASE j >= 2
            <4>1. Len(u) + j - 1 \in 1 .. i - 1 /\ t[Len(u) + j - 1] = s[j]
                BY <1>1, <3>2, <3>5
            <4>2. \A k \in Len(u) + j - 1 .. i : t[k] # "js"
                BY <1>1, <3>4, <3>5
            <4> QED
                BY <3>3, <4>1, <4>2 DEF Due
        <3>6. CASE j = 1
            <4>1. PICK l \in 1 .. Len(u) : u[l] \in steps
                BY <3>3, <3>6
            <4>2. \A k \in 1 .. Len(u) : t[k] # "js"
                BY <1>1, <3>3, <3>6
            <4>3. \A k \in l .. i : t[k] # "js"
                BY <1>1, <3>4, <3>6, <4>2
            <4>4. l \in 1 .. i - 1 /\ t[l] \in steps
                BY <1>1, <2>2, <4>1
            <4> QED
                BY <4>3, <4>4 DEF Due
        <3> QED
            BY <3>5, <3>6
    <2> QED
        BY <1>1, <2>1, <2>2
<1> QED
    BY <1>2 DEF Owed, t

LEMMA Dropped ==
    ASSUME NEW s \in Seq(Steps), NEW p \in 1 .. Len(s), NEW t, t = SubSeq(s, p, Len(s))
    PROVE  /\ t \in Seq(Steps) /\ t # <<>>
           /\ Len(s) \in Nat /\ Len(t) = Len(s) - p + 1
           /\ \A i \in 1 .. Len(t) : t[i] = s[p + i - 1]
<1>1. Len(s) \in Nat /\ \A i \in p .. Len(s) : s[i] \in Steps
    BY LenProperties, ElementOfSeq
<1>2. /\ t \in Seq(Steps) /\ Len(t) = Len(s) - p + 1
      /\ \A i \in 1 .. Len(s) - p + 1 : t[i] = s[p + i - 1]
    BY <1>1, SubSeqProperties
<1> QED
    <2>1. Len(t) > 0 /\ Len(<<>>) = 0
        BY <1>1, <1>2, EmptySeq
    <2>2. ASSUME t = <<>> PROVE FALSE
        BY <2>1, <2>2
    <2> QED
        BY <1>1, <1>2, <2>2

\* Dropping the steps before a function keeps what is said of the others.
LEMMA AfterDrop ==
    ASSUME NEW n \in Nat, NEW s \in Seq(Steps), NEW p \in 1 .. Len(s), s[p] = "js",
           Shaped(s, n), OneScript(s)
    PROVE  LET t == SubSeq(s, p, Len(s)) IN
           /\ t[1] = "js" /\ Shaped(t, n) /\ OneScript(t) /\ (Dry(s) => Dry(t))
           /\ \A step \in Steps, steps \in SUBSET Steps :
                "js" # step /\ Owed(s, step, steps) => Owed(t, step, steps)
<1> DEFINE t == SubSeq(s, p, Len(s))
<1>1. /\ Len(s) \in Nat /\ Len(t) = Len(s) - p + 1
      /\ \A i \in 1 .. Len(t) : t[i] = s[p + i - 1]
    BY Dropped
<1> HIDE DEF t
<1>2. \A i \in 1 .. Len(t) : p + i - 1 \in 1 .. Len(s)
    BY <1>1
<1>3. t[1] = "js"
    BY <1>1
<1>4. ASSUME NEW i \in 2 .. Len(t) PROVE Placed(t, i, n)
    <2> DEFINE j == p + i - 1
    <2>1. j \in 2 .. Len(s) /\ t[i] = s[j] /\ t[i - 1] = s[j - 1]
        BY <1>1
    <2>2. Placed(s, j, n)
        BY <2>1 DEF Shaped
    <2>3. ASSUME Syncs(s, j, n) PROVE Syncs(t, i, n)
        <3>1. i + n \in 1 .. Len(t) /\ p + (i + n) - 1 = j + n
            BY <1>1, <2>1, <2>3 DEF Syncs
        <3>2. \A k \in i .. i + n - 1 : t[k] = s[p + k - 1] /\ p + k - 1 \in j .. j + n - 1
            BY <1>1, <3>1
        <3>3. t[i + n] = s[j + n]
            BY <1>1, <3>1
        <3>4. \A k \in i .. i + n - 1 : t[k] = "sync"
            BY <2>3, <3>2 DEF Syncs
        <3> QED
            BY <2>3, <3>1, <3>3, <3>4 DEF Syncs
    <2> HIDE DEF j
    <2> QED
        BY <2>1, <2>2, <2>3 DEF Placed
<1>5. OneScript(t)
    <2>1. ASSUME NEW i \in 1 .. Len(t), NEW j \in 1 .. Len(t), i < j, t[j] = "js"
          PROVE  t[i] \in Quiet
        <3>1. p + i - 1 < p + j - 1 /\ s[p + j - 1] = "js" /\ t[i] = s[p + i - 1]
            BY <1>1, <2>1
        <3> QED
            BY <1>2, <3>1 DEF OneScript
    <2> QED
        BY <2>1 DEF OneScript
<1>6. Dry(s) => Dry(t)
    BY <1>1, <1>2 DEF Dry
<1>7. ASSUME NEW step \in Steps, NEW steps \in SUBSET Steps, "js" # step, Owed(s, step, steps)
      PROVE  Owed(t, step, steps)
    <2>1. ASSUME NEW i \in 1 .. Len(t), t[i] = step PROVE Due(t, steps, i)
        <3> DEFINE m == p + i - 1
        <3>1. m \in 1 .. Len(s) /\ s[m] = step /\ m > p
            BY <1>1, <1>7, <2>1
        <3>2. PICK j \in 1 .. m - 1 : s[j] \in steps /\ \A k \in j .. m : s[k] # "js"
            BY <1>7, <3>1 DEF Owed, Due
        <3>3. j > p
            BY <3>1, <3>2
        <3>4. j - p + 1 \in 1 .. i - 1 /\ t[j - p + 1] = s[j]
            BY <1>1, <3>1, <3>3
        <3>5. \A k \in j - p + 1 .. i : t[k] = s[p + k - 1] /\ p + k - 1 \in j .. m
            BY <1>1, <3>1, <3>3
        <3> QED
            BY <3>2, <3>4, <3>5 DEF Due
    <2> QED
        BY <2>1 DEF Owed
<1> QED
    BY <1>3, <1>4, <1>5, <1>6, <1>7 DEF Shaped, t

\* A step that is put in front.
LEMMA Pushed ==
    ASSUME NEW n \in Nat, NEW a \in Steps, NEW r \in Seq(Steps), NEW s, s = <<a>> \o r,
           a \in Quiet \ Inner, a # "sync", Shaped(r, n), OneScript(r), Begins(r, 1, n)
    PROVE  /\ s \in Seq(Steps) /\ s # <<>> /\ s[1] = a /\ Tail(s) = r
           /\ Shaped(s, n) /\ OneScript(s) /\ Begins(s, 1, n) /\ Begins(s, 2, n)
           /\ (\A i \in 1 .. Len(r) : r[i] # "js") => \A i \in 1 .. Len(s) : s[i] # "js"
           /\ Dry(r) => Dry(s)
           /\ \A step \in Steps, steps \in SUBSET Steps :
                a # step /\ Owed(r, step, steps) => Owed(s, step, steps)
<1>1. <<a>> \in Seq(Steps) /\ Len(<<a>>) = 1 /\ <<a>>[1] = a
    OBVIOUS
<1>2. /\ s \in Seq(Steps) /\ Len(r) \in Nat /\ Len(s) = Len(r) + 1
      /\ \A i \in 1 .. Len(r) + 1 : s[i] = IF i <= 1 THEN <<a>>[i] ELSE r[i - 1]
    BY <1>1, ConcatProperties, LenProperties
<1>3. s[1] = a /\ \A i \in 1 .. Len(r) : s[i + 1] = r[i]
    BY <1>1, <1>2
<1>4. \A i \in 2 .. Len(s) : i - 1 \in 1 .. Len(r) /\ s[i] = r[i - 1]
    BY <1>1, <1>2
<1>5. s # <<>> /\ Tail(s) = r
    <2>1. ASSUME s = <<>> PROVE FALSE
        BY <1>2, <2>1, EmptySeq
    <2>2. Tail(s) \in Seq(Steps) /\ Len(Tail(s)) = Len(r)
          /\ \A i \in 1 .. Len(Tail(s)) : Tail(s)[i] = s[i + 1]
        BY <1>2, <2>1, HeadTailProperties
    <2>3. \A i \in 1 .. Len(Tail(s)) : Tail(s)[i] = r[i]
        BY <1>3, <2>2
    <2> QED
        BY <2>1, <2>2, <2>3, SeqEqual
<1>6. ASSUME NEW i \in 1 .. Len(r), Syncs(r, i, n) PROVE Syncs(s, i + 1, n)
    <2>1. i + n \in 1 .. Len(r) /\ i + n + 1 = i + 1 + n
        BY <1>2, <1>6 DEF Syncs
    <2>2. \A k \in i + 1 .. i + 1 + n - 1 :
            k - 1 \in i .. i + n - 1 /\ k - 1 \in 1 .. Len(r) /\ (k - 1) + 1 = k
        BY <1>2, <2>1
    <2>3. \A k \in i + 1 .. i + 1 + n - 1 : s[k] = r[k - 1]
        BY <1>3, <2>2
    <2> QED
        BY <1>2, <1>3, <1>6, <2>1, <2>2, <2>3 DEF Syncs
<1>7. Shaped(s, n)
    <2>1. ASSUME NEW i \in 2 .. Len(s) PROVE Placed(s, i, n)
        <3>1. i - 1 \in 1 .. Len(r) /\ s[i] = r[i - 1] /\ (i - 1) + 1 = i
            BY <1>2, <1>4
        <3>2. CASE i = 2
            BY <1>2, <1>6, <3>1, <3>2 DEF Begins, Inner, Placed
        <3>3. CASE i > 2
            <4>1. i - 1 \in 2 .. Len(r) /\ s[i - 1] = r[i - 1 - 1]
                BY <1>2, <1>4, <3>3
            <4>2. Placed(r, i - 1, n)
                BY <4>1 DEF Shaped
            <4> QED
                BY <1>6, <3>1, <4>1, <4>2 DEF Placed
        <3> QED
            BY <1>2, <3>2, <3>3
    <2> QED
        BY <2>1 DEF Shaped
<1>8. OneScript(s)
    <2>1. ASSUME NEW i \in 1 .. Len(s), NEW j \in 1 .. Len(s), i < j, s[j] = "js"
          PROVE  s[i] \in Quiet
        <3>1. j - 1 \in 1 .. Len(r) /\ r[j - 1] = "js"
            BY <1>2, <1>4, <2>1
        <3>2. CASE i = 1
            BY <1>3, <3>2
        <3>3. CASE i > 1
            <4>1. i - 1 \in 1 .. Len(r) /\ r[i - 1] = s[i] /\ i - 1 < j - 1
                BY <1>2, <1>4, <2>1, <3>3
            <4> QED
                BY <3>1, <4>1 DEF OneScript
        <3> QED
            BY <1>2, <3>2, <3>3
    <2> QED
        BY <2>1 DEF OneScript
<1>9. Begins(s, 1, n) /\ Begins(s, 2, n)
    <2>1. Begins(s, 1, n)
        BY <1>3 DEF Begins
    <2>2. ASSUME 2 <= Len(s) PROVE s[2] \notin Inner /\ (s[2] = "sync" => Syncs(s, 2, n))
        <3>1. 1 \in 1 .. Len(r) /\ s[2] = r[1]
            BY <1>2, <1>4, <2>2
        <3>2. r[1] = "sync" => Syncs(s, 1 + 1, n)
            BY <1>2, <1>6, <3>1 DEF Begins
        <3> QED
            BY <1>2, <3>1, <3>2 DEF Begins
    <2> QED
        BY <2>1, <2>2 DEF Begins
<1>10. (\A i \in 1 .. Len(r) : r[i] # "js") => \A i \in 1 .. Len(s) : s[i] # "js"
    <2>1. a # "js"
        BY DEF Quiet, Actions
    <2> QED
        BY <1>2, <1>3, <1>4, <2>1
<1>11. Dry(r) => Dry(s)
    <2>1. a \notin HookNames
        BY DEF Quiet, Actions, HookNames
    <2> QED
        BY <1>2, <1>3, <1>4, <2>1 DEF Dry
<1>12. ASSUME NEW step \in Steps, NEW steps \in SUBSET Steps, a # step, Owed(r, step, steps)
       PROVE  Owed(s, step, steps)
    <2>1. ASSUME NEW i \in 1 .. Len(s), s[i] = step PROVE Due(s, steps, i)
        <3>1. i - 1 \in 1 .. Len(r) /\ r[i - 1] = step
            BY <1>2, <1>3, <1>4, <1>12, <2>1
        <3>2. PICK j \in 1 .. i - 1 - 1 : r[j] \in steps /\ \A k \in j .. i - 1 : r[k] # "js"
            BY <1>12, <3>1 DEF Owed, Due
        <3>3. j + 1 \in 1 .. i - 1 /\ s[j + 1] = r[j]
            BY <1>2, <1>3, <3>1
        <3>4. \A k \in j + 1 .. i : k - 1 \in j .. i - 1 /\ s[k] = r[k - 1]
            BY <1>2, <1>4, <3>1
        <3> QED
            BY <3>2, <3>3, <3>4 DEF Due
    <2> QED
        BY <2>1 DEF Owed
<1> QED
    BY <1>2, <1>3, <1>5, <1>7, <1>8, <1>9, <1>10, <1>11, <1>12

\* Steps behind others, which they may need.
LEMMA OwedCat ==
    ASSUME NEW u \in Seq(Steps), NEW v \in Seq(Steps), NEW step, NEW steps,
           Owed(u, step, steps),
           \A i \in 1 .. Len(u) : u[i] # "js",
           \A i \in 1 .. Len(v) : v[i] # "js",
           (\E i \in 1 .. Len(v) : v[i] = step) => \E i \in 1 .. Len(u) : u[i] \in steps
    PROVE  Owed(u \o v, step, steps)
<1> DEFINE t == u \o v
<1>1. /\ Len(u) \in Nat /\ Len(v) \in Nat /\ Len(t) = Len(u) + Len(v)
      /\ \A i \in 1 .. Len(u) + Len(v) : t[i] = IF i <= Len(u) THEN u[i] ELSE v[i - Len(u)]
    BY ConcatProperties, LenProperties
<1> HIDE DEF t
<1>2. \A i \in 1 .. Len(u) : t[i] = u[i]
    BY <1>1
<1>3. \A i \in Len(u) + 1 .. Len(t) : i - Len(u) \in 1 .. Len(v) /\ t[i] = v[i - Len(u)]
    BY <1>1
<1>4. \A i \in 1 .. Len(t) : t[i] # "js"
    <2>1. \A i \in 1 .. Len(t) : i \in 1 .. Len(u) \/ i \in Len(u) + 1 .. Len(t)
        BY <1>1
    <2> QED
        BY <1>2, <1>3, <2>1
<1>5. ASSUME NEW i \in 1 .. Len(t), t[i] = step PROVE Due(t, steps, i)
    <2>1. CASE i <= Len(u)
        <3>1. i \in 1 .. Len(u) /\ u[i] = step
            BY <1>1, <1>2, <1>5, <2>1
        <3>2. PICK j \in 1 .. i - 1 : u[j] \in steps
            BY <3>1 DEF Owed, Due
        <3>3. j \in 1 .. Len(u) /\ \A k \in j .. i : k \in 1 .. Len(t)
            BY <1>1, <3>1
        <3> QED
            BY <1>2, <1>4, <3>2, <3>3 DEF Due
    <2>2. CASE i > Len(u)
        <3>1. PICK j \in 1 .. Len(u) : u[j] \in steps
            BY <1>1, <1>3, <1>5, <2>2
        <3>2. j \in 1 .. i - 1 /\ \A k \in j .. i : k \in 1 .. Len(t)
            BY <1>1, <2>2
        <3> QED
            BY <1>2, <1>4, <3>1, <3>2 DEF Due
    <2> QED
        BY <1>1, <2>1, <2>2
<1> QED
    BY <1>5 DEF Owed, t
-------------------------------------------------------------------------------------
(* What the steps of the program are made of.                                        *)

LEMMA Plain ==
    ASSUME NEW n \in Nat, NEW s \in Seq(Steps),
           \A i \in 1 .. Len(s) : s[i] \notin Inner \cup {"sync", "js"}
    PROVE  Shaped(s, n) /\ Begins(s, 1, n) /\ OneScript(s)
<1>1. Len(s) \in Nat
    BY LenProperties
<1> QED
    BY <1>1 DEF Shaped, Placed, Begins, OneScript, Inner

LEMMA OnlyIn ==
    ASSUME NEW X, NEW c \in BOOLEAN, NEW e, c => e \in X
    PROVE  Only(c, <<e>>) \in Seq(X)
BY DEF Only

LEMMA OnlyStep ==
    ASSUME NEW c \in BOOLEAN, NEW e \in Steps, NEW s, s = Only(c, <<e>>)
    PROVE  /\ s \in Seq(Steps) /\ Len(s) \in {0, 1} /\ \A i \in 1 .. Len(s) : s[i] = e
           /\ c => Len(s) = 1 /\ s[1] = e
           /\ ~c => s = <<>> /\ Len(s) = 0
<1>1. CASE c
    <2>1. <<e>> \in Seq(Steps) /\ Len(<<e>>) = 1 /\ <<e>>[1] = e
        OBVIOUS
    <2>2. s = <<e>>
        BY <1>1 DEF Only
    <2>3. s \in Seq(Steps) /\ Len(s) = 1 /\ s[1] = e
        BY <2>1, <2>2
    <2>4. \A i \in 1 .. Len(s) : s[i] = e
        BY <2>3
    <2> QED
        BY <1>1, <2>3, <2>4
<1>2. CASE ~c
    <2>1. s = <<>> /\ Len(s) = 0
        BY <1>2, EmptySeq DEF Only
    <2> QED
        BY <1>2, <2>1, EmptySeq
<1> QED
    BY <1>1, <1>2

\* Neither hooks nor anything else that a dry run lacks are left in its pipeline.
PipelineSteps ==
    {"database", "files", "manifest", "extension", "execute"}
    \cup (IF options.dry THEN {} ELSE {"beforeAll", "afterAll"})

LEMMA PipelinePlain ==
    ASSUME project.execute \in BOOLEAN, options \in RunOptions
    PROVE  Pipeline \in Seq(PipelineSteps)
<1>1. /\ options.dry \in BOOLEAN /\ options.skipDatabase \in BOOLEAN
      /\ options.skipFiles \in BOOLEAN /\ (options.mode = "backup") \in BOOLEAN
    BY DEF RunOptions
<1>2. Only(~options.dry, <<"beforeAll">>) \in Seq(PipelineSteps)
    BY <1>1, OnlyIn DEF PipelineSteps
<1>3. Only(~options.skipDatabase, <<"database">>) \in Seq(PipelineSteps)
    BY <1>1, OnlyIn DEF PipelineSteps
<1>4. Only(~options.skipFiles, <<"files">>) \in Seq(PipelineSteps)
    BY <1>1, OnlyIn DEF PipelineSteps
<1>5. Only(options.mode = "backup", <<"manifest">>) \in Seq(PipelineSteps)
    BY <1>1, OnlyIn DEF PipelineSteps
<1>6. Only(~options.dry, <<"afterAll">>) \in Seq(PipelineSteps)
    BY <1>1, OnlyIn DEF PipelineSteps
<1>7. <<"extension">> \in Seq(PipelineSteps) /\ <<"execute">> \in Seq(PipelineSteps)
      /\ <<>> \in Seq(PipelineSteps)
    BY DEF PipelineSteps
<1>8. \A u, v \in Seq(PipelineSteps) : u \o v \in Seq(PipelineSteps)
    BY ConcatProperties
<1> QED
    BY <1>2, <1>3, <1>4, <1>5, <1>6, <1>7, <1>8 DEF Pipeline

LEMMA Joined ==
    ASSUME NEW u \in Seq(Steps), NEW v \in Seq(Steps), NEW t, t = u \o v
    PROVE  /\ t \in Seq(Steps) /\ Len(u) \in Nat /\ Len(v) \in Nat /\ Len(t) = Len(u) + Len(v)
           /\ \A i \in 1 .. Len(u) : t[i] = u[i]
           /\ \A i \in 1 .. Len(v) : t[Len(u) + i] = v[i]
<1>1. /\ t \in Seq(Steps) /\ Len(u) \in Nat /\ Len(v) \in Nat /\ Len(t) = Len(u) + Len(v)
      /\ \A i \in 1 .. Len(u) + Len(v) : t[i] = IF i <= Len(u) THEN u[i] ELSE v[i - Len(u)]
    BY ConcatProperties, LenProperties
<1>2. ASSUME NEW i \in 1 .. Len(v) PROVE t[Len(u) + i] = v[i]
    <2>1. Len(u) + i \in 1 .. Len(u) + Len(v) /\ ~(Len(u) + i <= Len(u)) /\ Len(u) + i - Len(u) = i
        BY <1>1
    <2> QED
        BY <1>1, <2>1
<1> QED
    BY <1>1, <1>2

\* In the default pipeline of a backup the manifest comes after what it describes.
LEMMA PipelineOwes ==
    ASSUME project.execute = FALSE, options \in RunOptions, ~options.dry
    PROVE  /\ ~options.skipDatabase => Owed(Pipeline, "manifest", {"database", "fetch"})
           /\ ~options.skipFiles => Owed(Pipeline, "manifest", {"files", "release"})
<1>1. /\ options.dry = FALSE /\ options.skipDatabase \in BOOLEAN
      /\ options.skipFiles \in BOOLEAN /\ (options.mode = "backup") \in BOOLEAN
      /\ options.mode # "validate"
    BY DEF RunOptions
<1> DEFINE a == <<"beforeAll">>
           d == Only(~options.skipDatabase, <<"database">>)
           f == Only(~options.skipFiles, <<"files">>)
           m == Only(options.mode = "backup", <<"manifest">>)
           z == <<"afterAll">>
           e == <<"extension">>
           No(s) == \A i \in 1 .. Len(s) : s[i] # "manifest"
           Quick(s) == \A i \in 1 .. Len(s) : s[i] # "js"
<1>2. Pipeline = ((((a \o d) \o f) \o m) \o z) \o e
    BY <1>1 DEF Pipeline, Only
<1>3. /\ a \in Seq(Steps) /\ d \in Seq(Steps) /\ f \in Seq(Steps) /\ m \in Seq(Steps)
      /\ z \in Seq(Steps) /\ e \in Seq(Steps)
      /\ No(a) /\ No(d) /\ No(f) /\ No(z) /\ No(e)
      /\ Quick(a) /\ Quick(d) /\ Quick(f) /\ Quick(m) /\ Quick(z) /\ Quick(e)
      /\ Len(a) = 1
      /\ ~options.skipDatabase => Len(d) = 1 /\ d[1] = "database"
      /\ ~options.skipFiles => Len(f) = 1 /\ f[1] = "files"
    <2>1. a \in Seq(Steps) /\ No(a) /\ Quick(a) /\ Len(a) = 1
        BY DEF Steps, HookNames
    <2>2. /\ d \in Seq(Steps) /\ No(d) /\ Quick(d)
          /\ ~options.skipDatabase => Len(d) = 1 /\ d[1] = "database"
        <3>1. "database" \in Steps
            BY DEF Steps
        <3>2. PICK c \in BOOLEAN : c = ~options.skipDatabase
            BY <1>1
        <3>3. d = Only(c, <<"database">>)
            BY <1>1, <3>2
        <3>4. /\ d \in Seq(Steps) /\ \A i \in 1 .. Len(d) : d[i] = "database"
              /\ c => Len(d) = 1 /\ d[1] = "database"
            BY <3>1, <3>3, OnlyStep
        <3> QED
            BY <3>2, <3>4
    <2>3. /\ f \in Seq(Steps) /\ No(f) /\ Quick(f)
          /\ ~options.skipFiles => Len(f) = 1 /\ f[1] = "files"
        <3>1. "files" \in Steps
            BY DEF Steps
        <3>2. PICK c \in BOOLEAN : c = ~options.skipFiles
            BY <1>1
        <3>3. f = Only(c, <<"files">>)
            BY <1>1, <3>2
        <3>4. /\ f \in Seq(Steps) /\ \A i \in 1 .. Len(f) : f[i] = "files"
              /\ c => Len(f) = 1 /\ f[1] = "files"
            BY <3>1, <3>3, OnlyStep
        <3> QED
            BY <3>2, <3>4
    <2>4. m \in Seq(Steps) /\ Quick(m)
        <3>1. m = <<"manifest">> \/ m = <<>>
            BY <1>1 DEF Only
        <3>2. <<"manifest">> \in Seq(Steps) /\ Quick(<<"manifest">>) /\ <<>> \in Seq(Steps)
              /\ Quick(<<>>)
            BY DEF Steps
        <3> QED
            BY <3>1, <3>2
    <2>5. z \in Seq(Steps) /\ No(z) /\ Quick(z)
        BY DEF Steps, HookNames
    <2>6. e \in Seq(Steps) /\ No(e) /\ Quick(e)
        BY DEF Steps, HookNames
    <2> HIDE DEF a, d, f, m, z, e
    <2> QED
        BY <2>1, <2>2, <2>3, <2>4, <2>5, <2>6
<1>4. ASSUME NEW u \in Seq(Steps), NEW v \in Seq(Steps)
      PROVE  /\ u \o v \in Seq(Steps)
             /\ No(u) /\ No(v) => No(u \o v)
             /\ Quick(u) /\ Quick(v) => Quick(u \o v)
    <2>1. PICK t : t = u \o v
        OBVIOUS
    <2>2. /\ t \in Seq(Steps) /\ Len(u) \in Nat /\ Len(v) \in Nat /\ Len(t) = Len(u) + Len(v)
          /\ \A i \in 1 .. Len(u) : t[i] = u[i]
          /\ \A i \in 1 .. Len(v) : t[Len(u) + i] = v[i]
        BY <2>1, Joined
    <2>3. \A i \in 1 .. Len(t) : i \in 1 .. Len(u) \/
                (i - Len(u) \in 1 .. Len(v) /\ t[i] = v[i - Len(u)])
        <3> TAKE i \in 1 .. Len(t)
        <3>1. CASE i > Len(u)
            <4>1. i - Len(u) \in 1 .. Len(v) /\ Len(u) + (i - Len(u)) = i
                BY <2>2, <3>1
            <4>2. t[Len(u) + (i - Len(u))] = v[i - Len(u)]
                BY <2>2, <4>1
            <4> QED
                BY <4>1, <4>2
        <3> QED
            BY <2>2, <3>1
    <2> QED
        BY <2>1, <2>2, <2>3
<1> DEFINE u == (a \o d) \o f
<1>5. u \in Seq(Steps) /\ No(u) /\ Quick(u)
    BY <1>3, <1>4
<1>6. /\ ~options.skipDatabase => \E i \in 1 .. Len(u) : u[i] = "database"
      /\ ~options.skipFiles => \E i \in 1 .. Len(u) : u[i] = "files"
    <2>1. PICK t : t = a \o d
        OBVIOUS
    <2>2. /\ t \in Seq(Steps) /\ Len(d) \in Nat /\ Len(t) = 1 + Len(d)
          /\ \A i \in 1 .. Len(d) : t[1 + i] = d[i]
        BY <1>3, <2>1, Joined
    <2>3. /\ Len(f) \in Nat /\ Len(u) = Len(t) + Len(f)
          /\ \A i \in 1 .. Len(t) : u[i] = t[i]
          /\ \A i \in 1 .. Len(f) : u[Len(t) + i] = f[i]
        BY <1>3, <2>1, <2>2, Joined
    <2> HIDE DEF a, d, f, u
    <2>4. ASSUME ~options.skipDatabase PROVE 2 \in 1 .. Len(u) /\ u[2] = "database"
        BY <1>3, <2>2, <2>3, <2>4
    <2>5. ASSUME ~options.skipFiles PROVE Len(u) \in 1 .. Len(u) /\ u[Len(u)] = "files"
        BY <1>3, <2>2, <2>3, <2>5
    <2> QED
        BY <2>4, <2>5
<1> HIDE DEF a, d, f, m, z, e
<1>7. ASSUME NEW steps, \E i \in 1 .. Len(u) : u[i] \in steps
      PROVE  Owed(Pipeline, "manifest", steps)
    <2> HIDE DEF u
    <2>1. Owed(u, "manifest", steps)
        BY <1>5 DEF Owed
    <2>2. Owed(u \o m, "manifest", steps) /\ u \o m \in Seq(Steps) /\ Quick(u \o m)
        BY <1>3, <1>4, <1>5, <1>7, <2>1, OwedCat
    <2>3. Owed((u \o m) \o z, "manifest", steps) /\ (u \o m) \o z \in Seq(Steps)
          /\ Quick((u \o m) \o z)
        BY <1>3, <1>4, <2>2, OwedCat
    <2>4. Owed(((u \o m) \o z) \o e, "manifest", steps)
        BY <1>3, <2>3, OwedCat
    <2> QED
        BY <1>2, <2>4 DEF u
<1> HIDE DEF u
<1> QED
    BY <1>6, <1>7

\* What the steps of run_database_core are good for, called with or without its hooks.
DatabaseGood(d, hooked) ==
    /\ \A n \in Nat : Shaped(d, n) /\ Begins(d, 1, n)
    /\ \A i \in 1 .. Len(d) : d[i] \notin {"js", "manifest", "extension", "sync"}
    /\ ~hooked \/ options.dry => \A i \in 1 .. Len(d) : d[i] \in Quiet
    /\ Owed(d, "restore", {"fetch"})
    /\ \E i \in 1 .. Len(d) : d[i] = "fetch"

LEMMA DatabasePiece ==
    ASSUME project.database = TRUE, options \in RunOptions, NEW hooked \in BOOLEAN,
           NEW d, d = DatabaseSteps(hooked)
    PROVE  d \in Seq(Steps) /\ DatabaseGood(d, hooked)
<1>1. options.dry \in BOOLEAN
    BY DEF RunOptions
<1>2. {"beforeDatabase", "dump", "fetch", "beforeRestore", "reset", "restore",
       "afterRestore", "afterDatabase"} \subseteq Steps
    BY DEF Steps, HookNames, Actions
<1>3. PICK df, rr, bd, br, ar, ad :
        /\ df = <<"dump", "fetch">> /\ rr = <<"reset", "restore">>
        /\ bd = <<"beforeDatabase">> /\ br = <<"beforeRestore">>
        /\ ar = <<"afterRestore">> /\ ad = <<"afterDatabase">>
    OBVIOUS
<1>4. /\ df \in Seq(Steps) /\ rr \in Seq(Steps) /\ bd \in Seq(Steps) /\ br \in Seq(Steps)
      /\ ar \in Seq(Steps) /\ ad \in Seq(Steps) /\ <<>> \in Seq(Steps)
    BY <1>2, <1>3
<1>5. /\ Len(df) = 2 /\ df[1] = "dump" /\ df[2] = "fetch"
      /\ Len(rr) = 2 /\ rr[1] = "reset" /\ rr[2] = "restore"
      /\ Len(bd) = 1 /\ bd[1] = "beforeDatabase" /\ Len(br) = 1 /\ br[1] = "beforeRestore"
      /\ Len(ar) = 1 /\ ar[1] = "afterRestore" /\ Len(ad) = 1 /\ ad[1] = "afterDatabase"
    BY <1>3
<1>6. ASSUME NEW u \in Seq(Steps), NEW v \in Seq(Steps), NEW t, t = u \o v
      PROVE  /\ t \in Seq(Steps) /\ Len(t) = Len(u) + Len(v)
             /\ \A i \in 1 .. Len(u) + Len(v) :
                    t[i] = IF i <= Len(u) THEN u[i] ELSE v[i - Len(u)]
    BY <1>6, ConcatProperties
<1>7. CASE hooked /\ ~options.dry
    <2>1. PICK x : x = bd \o df
        OBVIOUS
    <2>2. x \in Seq(Steps) /\ Len(x) = Len(bd) + Len(df)
          /\ \A i \in 1 .. Len(bd) + Len(df) : x[i] = IF i <= Len(bd) THEN bd[i] ELSE df[i - Len(bd)]
        BY <1>4, <1>6, <2>1
    <2>3. Len(x) = 3 /\ x[1] = "beforeDatabase" /\ x[2] = "dump" /\ x[3] = "fetch"
        BY <1>5, <2>2
    <2>4. CASE options.mode = "backup"
        <3>1. x \in Seq(Steps)
            BY <2>2
        <3>2. d = x \o ad
            <4>1. d = (x \o <<>>) \o ad
                BY <1>7, <1>3, <2>1, <2>4 DEF DatabaseSteps, Only
            <4> QED
                BY <2>2, <4>1, ConcatEmptySeq
        <3>3. d \in Seq(Steps) /\ Len(d) = Len(x) + Len(ad)
              /\ \A i \in 1 .. Len(x) + Len(ad) : d[i] = IF i <= Len(x) THEN x[i] ELSE ad[i - Len(x)]
            BY <1>4, <1>6, <3>1, <3>2
        <3>4. /\ Len(d) = 4 /\ d[1] = "beforeDatabase" /\ d[2] = "dump" /\ d[3] = "fetch"
              /\ d[4] = "afterDatabase"
            BY <1>5, <2>3, <3>3
        <3>5. \A n \in Nat : Shaped(d, n) /\ Begins(d, 1, n)
            BY <3>4 DEF Shaped, Placed, Begins, Inner
        <3> QED
            <4>1. \A i \in 1 .. Len(d) : d[i] \in {"beforeDatabase", "dump", "fetch", "afterDatabase"}
                BY <3>4
            <4>2. 3 \in 1 .. Len(d)
                BY <3>4
            <4> QED
                BY <1>7, <3>3, <3>4, <3>5, <4>1, <4>2 DEF DatabaseGood, Owed
    <2>5. CASE options.mode # "backup"
        <3>1. PICK y : y = br \o rr
            OBVIOUS
        <3>2. PICK z : z = y \o ar
            OBVIOUS
        <3>3. PICK w : w = x \o z
            OBVIOUS
        <3>4. d = w \o ad
            BY <1>7, <1>3, <2>1, <2>5, <3>1, <3>2, <3>3 DEF DatabaseSteps, Only
        <3>5. y \in Seq(Steps) /\ Len(y) = Len(br) + Len(rr)
              /\ \A i \in 1 .. Len(br) + Len(rr) : y[i] = IF i <= Len(br) THEN br[i] ELSE rr[i - Len(br)]
            BY <1>4, <1>6, <3>1
        <3>6. Len(y) = 3 /\ y[1] = "beforeRestore" /\ y[2] = "reset" /\ y[3] = "restore"
            BY <1>5, <3>5
        <3>7. z \in Seq(Steps) /\ Len(z) = Len(y) + Len(ar)
              /\ \A i \in 1 .. Len(y) + Len(ar) : z[i] = IF i <= Len(y) THEN y[i] ELSE ar[i - Len(y)]
            <4>1. y \in Seq(Steps)
                BY <3>5
            <4> QED
                BY <1>4, <1>6, <3>2, <4>1
        <3>8. /\ Len(z) = 4 /\ z[1] = "beforeRestore" /\ z[2] = "reset" /\ z[3] = "restore"
              /\ z[4] = "afterRestore"
            BY <1>5, <3>6, <3>7
        <3>9. w \in Seq(Steps) /\ Len(w) = Len(x) + Len(z)
              /\ \A i \in 1 .. Len(x) + Len(z) : w[i] = IF i <= Len(x) THEN x[i] ELSE z[i - Len(x)]
            BY <1>6, <2>2, <3>3, <3>7
        <3>10. /\ Len(w) = 7 /\ w[1] = "beforeDatabase" /\ w[2] = "dump" /\ w[3] = "fetch"
               /\ w[4] = "beforeRestore" /\ w[5] = "reset" /\ w[6] = "restore"
               /\ w[7] = "afterRestore"
            BY <2>3, <3>8, <3>9
        <3>11. d \in Seq(Steps) /\ Len(d) = Len(w) + Len(ad)
               /\ \A i \in 1 .. Len(w) + Len(ad) : d[i] = IF i <= Len(w) THEN w[i] ELSE ad[i - Len(w)]
            <4>1. w \in Seq(Steps)
                BY <3>9
            <4> QED
                BY <1>4, <1>6, <3>4, <4>1
        <3>12. /\ Len(d) = 8 /\ d[1] = "beforeDatabase" /\ d[2] = "dump" /\ d[3] = "fetch"
               /\ d[4] = "beforeRestore" /\ d[5] = "reset" /\ d[6] = "restore"
               /\ d[7] = "afterRestore" /\ d[8] = "afterDatabase"
            BY <1>5, <3>10, <3>11
        <3>13. Owed(d, "restore", {"fetch"})
            BY <3>12 DEF Owed, Due
        <3>14. \A n \in Nat : Shaped(d, n) /\ Begins(d, 1, n)
            BY <3>12 DEF Shaped, Placed, Begins, Inner
        <3> QED
            <4>1. \A i \in 1 .. Len(d) : d[i] \in
                    {"beforeDatabase", "dump", "fetch", "beforeRestore", "reset", "restore",
                     "afterRestore", "afterDatabase"}
                BY <3>12
            <4>2. 3 \in 1 .. Len(d)
                BY <3>12
            <4> QED
                BY <1>7, <3>11, <3>12, <3>13, <3>14, <4>1, <4>2 DEF DatabaseGood
    <2> QED
        BY <2>4, <2>5
<1>8. CASE ~hooked \/ options.dry
    <2>1. d = ((<<>> \o df) \o Only(options.mode # "backup", (<<>> \o rr) \o <<>>)) \o <<>>
        BY <1>1, <1>3, <1>8 DEF DatabaseSteps, Only
    <2>2. <<>> \o df = df /\ (<<>> \o rr) \o <<>> = rr
        BY <1>4, ConcatEmptySeq
    <2>3. CASE options.mode = "backup"
        <3>1. d = df
            BY <1>4, <2>1, <2>2, <2>3, ConcatEmptySeq DEF Only
        <3>2. Len(d) = 2 /\ d[1] = "dump" /\ d[2] = "fetch"
            BY <1>5, <3>1
        <3>3. \A n \in Nat : Shaped(d, n) /\ Begins(d, 1, n)
            BY <3>2 DEF Shaped, Placed, Begins, Inner
        <3> QED
            <4>1. \A i \in 1 .. Len(d) : d[i] \in {"dump", "fetch"}
                BY <3>2
            <4>2. 2 \in 1 .. Len(d) /\ d[2] = "fetch"
                BY <3>2
            <4> QED
                BY <1>4, <3>1, <3>3, <4>1, <4>2 DEF DatabaseGood, Owed, Quiet
    <2>4. CASE options.mode # "backup"
        <3>1. PICK x : x = df \o rr
            OBVIOUS
        <3>2. x \in Seq(Steps) /\ Len(x) = Len(df) + Len(rr)
              /\ \A i \in 1 .. Len(df) + Len(rr) : x[i] = IF i <= Len(df) THEN df[i] ELSE rr[i - Len(df)]
            BY <1>4, <1>6, <3>1
        <3>3. d = x
            BY <2>1, <2>2, <2>4, <3>1, <3>2, ConcatEmptySeq DEF Only
        <3>4. /\ Len(d) = 4 /\ d[1] = "dump" /\ d[2] = "fetch" /\ d[3] = "reset"
              /\ d[4] = "restore"
            BY <1>5, <3>2, <3>3
        <3>5. Owed(d, "restore", {"fetch"})
            BY <3>4 DEF Owed, Due
        <3>6. \A n \in Nat : Shaped(d, n) /\ Begins(d, 1, n)
            BY <3>4 DEF Shaped, Placed, Begins, Inner
        <3> QED
            <4>1. \A i \in 1 .. Len(d) : d[i] \in {"dump", "fetch", "reset", "restore"}
                BY <3>4
            <4>2. 2 \in 1 .. Len(d)
                BY <3>4
            <4> QED
                BY <3>2, <3>3, <3>4, <3>5, <3>6, <4>1, <4>2 DEF DatabaseGood, Quiet, Actions
    <2> QED
        BY <2>3, <2>4
<1> QED
    BY <1>1, <1>7, <1>8

\* The same of run_files_core.
FilesGood(f, hooked) ==
    /\ Shaped(f, project.files) /\ Begins(f, 1, project.files)
    /\ \A i \in 1 .. Len(f) : f[i] \in {"beforeFiles", "sync", "release", "afterFiles"}
    /\ ~hooked \/ options.dry => \A i \in 1 .. Len(f) : f[i] \in Quiet
    /\ \E i \in 1 .. Len(f) : f[i] = "release"

LEMMA FilesPiece ==
    ASSUME project.files \in Nat \ {0}, options \in RunOptions, NEW hooked \in BOOLEAN,
           NEW f, f = FilesSteps(hooked)
    PROVE  f \in Seq(Steps) /\ FilesGood(f, hooked)
<1> DEFINE n == project.files
           c == hooked /\ ~options.dry
<1>1. c \in BOOLEAN /\ n \in Nat /\ n > 0
    BY DEF RunOptions
<1>2. {"beforeFiles", "sync", "release", "afterFiles"} \subseteq Steps
    BY DEF Steps, HookNames
<1>3. PICK b, s, r, a :
        /\ b = Only(c, <<"beforeFiles">>) /\ s = [i \in 1 .. n |-> "sync"]
        /\ r = <<"release">> /\ a = Only(c, <<"afterFiles">>)
    OBVIOUS
<1>4. f = ((b \o s) \o r) \o a
    BY <1>1, <1>3 DEF FilesSteps, Only
<1> HIDE DEF n, c
<1>5. /\ b \in Seq(Steps) /\ Len(b) \in {0, 1} /\ \A i \in 1 .. Len(b) : b[i] = "beforeFiles"
      /\ ~c => Len(b) = 0
    <2>1. "beforeFiles" \in Steps /\ c \in BOOLEAN /\ b = Only(c, <<"beforeFiles">>)
        BY <1>1, <1>2, <1>3
    <2> QED
        BY <2>1, OnlyStep
<1>6. /\ a \in Seq(Steps) /\ Len(a) \in {0, 1} /\ \A i \in 1 .. Len(a) : a[i] = "afterFiles"
      /\ ~c => Len(a) = 0
    <2>1. "afterFiles" \in Steps /\ c \in BOOLEAN /\ a = Only(c, <<"afterFiles">>)
        BY <1>1, <1>2, <1>3
    <2> QED
        BY <2>1, OnlyStep
<1>7. s \in Seq(Steps) /\ Len(s) = n /\ \A i \in 1 .. n : s[i] = "sync"
    BY <1>1, <1>2, <1>3
<1>8. r \in Seq(Steps) /\ Len(r) = 1 /\ r[1] = "release"
    BY <1>2, <1>3
<1>9. PICK x : x = b \o s
    OBVIOUS
<1>10. PICK y : y = x \o r
    OBVIOUS
<1>11. /\ x \in Seq(Steps) /\ Len(x) = Len(b) + Len(s)
       /\ \A i \in 1 .. Len(b) : x[i] = b[i]
       /\ \A i \in 1 .. Len(s) : x[Len(b) + i] = s[i]
    <2>1. b \in Seq(Steps) /\ s \in Seq(Steps)
        BY <1>5, <1>7
    <2> QED
        BY <1>9, <2>1, Joined
<1>12. /\ y \in Seq(Steps) /\ Len(y) = Len(x) + Len(r)
       /\ \A i \in 1 .. Len(x) : y[i] = x[i]
       /\ \A i \in 1 .. Len(r) : y[Len(x) + i] = r[i]
    <2>1. x \in Seq(Steps) /\ r \in Seq(Steps)
        BY <1>8, <1>11
    <2> QED
        BY <1>10, <2>1, Joined
<1>13. /\ f \in Seq(Steps) /\ Len(f) = Len(y) + Len(a)
       /\ \A i \in 1 .. Len(y) : f[i] = y[i]
       /\ \A i \in 1 .. Len(a) : f[Len(y) + i] = a[i]
    <2>1. y \in Seq(Steps) /\ a \in Seq(Steps)
        BY <1>6, <1>12
    <2>2. f = y \o a
        BY <1>4, <1>9, <1>10
    <2> QED
        BY <2>1, <2>2, Joined
<1> DEFINE k == Len(b)
<1>14. k \in {0, 1} /\ Len(f) \in {k + n + 1, k + n + 2}
    <2>1. k \in {0, 1} /\ Len(a) \in {0, 1}
        BY <1>5, <1>6
    <2>2. Len(f) = k + n + 1 + Len(a)
        BY <1>1, <1>7, <1>8, <1>11, <1>12, <1>13, <2>1
    <2> HIDE DEF k
    <2>3. CASE Len(a) = 0
        BY <1>1, <2>1, <2>2, <2>3
    <2>4. CASE Len(a) = 1
        <3>1. k + n + 1 + 1 = k + n + 2
            BY <1>1, <2>1
        <3> QED
            BY <2>1, <2>2, <2>4, <3>1
    <2> QED
        BY <2>1, <2>3, <2>4
<1>15. \A i \in 1 .. k : f[i] = "beforeFiles"
    <2> TAKE i \in 1 .. k
    <2>1. i \in 1 .. Len(x) /\ i \in 1 .. Len(y)
        BY <1>1, <1>5, <1>7, <1>8, <1>11, <1>12
    <2> QED
        BY <1>5, <1>11, <1>12, <1>13, <2>1
<1>16. \A i \in k + 1 .. k + n : f[i] = "sync"
    <2> TAKE i \in k + 1 .. k + n
    <2>1. i - k \in 1 .. n /\ i = k + (i - k) /\ i \in 1 .. Len(x) /\ i \in 1 .. Len(y)
        BY <1>1, <1>5, <1>7, <1>8, <1>11, <1>12
    <2>2. x[k + (i - k)] = s[i - k]
        BY <1>7, <1>11, <2>1
    <2> QED
        BY <1>7, <1>12, <1>13, <2>1, <2>2
<1>17. f[k + n + 1] = "release"
    <2>1. k + n + 1 = Len(x) + 1 /\ k + n + 1 \in 1 .. Len(y)
        BY <1>1, <1>5, <1>7, <1>8, <1>11, <1>12
    <2>2. y[Len(x) + 1] = r[1]
        BY <1>8, <1>12
    <2> QED
        BY <1>8, <1>13, <2>1, <2>2
<1>18. Len(f) = k + n + 2 => f[k + n + 2] = "afterFiles"
    <2>1. ASSUME Len(f) = k + n + 2 PROVE f[k + n + 2] = "afterFiles"
        <3>1. Len(a) = 1 /\ k + n + 2 = Len(y) + 1
            BY <1>1, <1>5, <1>6, <1>7, <1>8, <1>11, <1>12, <1>13, <2>1
        <3>2. f[Len(y) + 1] = a[1]
            BY <1>13, <3>1
        <3> QED
            BY <1>6, <3>1, <3>2
    <2> QED
        BY <2>1
<1>19. ~c => k = 0 /\ Len(f) = n + 1
    BY <1>1, <1>5, <1>6, <1>7, <1>8, <1>11, <1>12, <1>13
<1> HIDE DEF k
<1>20. Syncs(f, k + 1, n)
    BY <1>1, <1>14, <1>16, <1>17 DEF Syncs
<1>21. Shaped(f, n)
    <2>1. ASSUME NEW i \in 2 .. Len(f) PROVE Placed(f, i, n)
        <3>1. CASE i <= k + 1
            BY <1>1, <1>14, <1>15, <1>16, <1>20, <2>1, <3>1 DEF Placed
        <3>2. CASE i > k + 1 /\ i <= k + n
            BY <1>1, <1>14, <1>16, <2>1, <3>2 DEF Placed
        <3>3. CASE i = k + n + 1
            BY <1>1, <1>14, <1>16, <1>17, <2>1, <3>3 DEF Placed
        <3>4. CASE i = k + n + 2
            BY <1>1, <1>14, <1>18, <2>1, <3>4 DEF Placed
        <3> QED
            BY <1>1, <1>14, <2>1, <3>1, <3>2, <3>3, <3>4
    <2> QED
        BY <2>1 DEF Shaped
<1>22. Begins(f, 1, n)
    <2>1. CASE k = 0
        <3>1. f[1] = "sync" /\ Syncs(f, 1, n)
            BY <1>1, <1>16, <1>20, <2>1
        <3> QED
            BY <3>1 DEF Begins, Inner
    <2>2. CASE k = 1
        BY <1>15, <2>2 DEF Begins, Inner
    <2> QED
        BY <1>14, <2>1, <2>2
<1>23. \A i \in 1 .. Len(f) :
        \/ f[i] \in {"sync", "release"}
        \/ c /\ f[i] \in {"beforeFiles", "afterFiles"}
    <2> TAKE i \in 1 .. Len(f)
    <2>1. CASE i <= k
        BY <1>1, <1>15, <1>19, <2>1
    <2>2. CASE i > k /\ i <= k + n
        BY <1>1, <1>14, <1>16, <2>2
    <2>3. CASE i = k + n + 1
        BY <1>17, <2>3
    <2>4. CASE i = k + n + 2
        BY <1>1, <1>14, <1>18, <1>19, <2>4
    <2> QED
        BY <1>1, <1>14, <2>1, <2>2, <2>3, <2>4
<1>24. k + n + 1 \in 1 .. Len(f)
    BY <1>1, <1>14
<1>25. ~hooked \/ options.dry => ~c
    BY DEF c
<1> QED
    BY <1>13, <1>17, <1>21, <1>22, <1>23, <1>24, <1>25 DEF FilesGood, Quiet, n
-------------------------------------------------------------------------------------
(* The invariant.                                                                    *)

Projects ==
    [database : BOOLEAN, remote : BOOLEAN, reset : {"none", "drop-create"},
     files : 0 .. MaxEntries, hooks : SUBSET Hooks, execute : Executes]

Types ==
    /\ project \in Projects /\ options \in RunOptions
    /\ todo \in Seq(Steps) /\ trace \in Seq(Steps)
    /\ calls \in 0 .. MaxCalls
    /\ outcome \in {"running", "ok", "failed", "panic"}
    /\ dump \in {"none", "old", "new"}
    /\ database \subseteq {"local", "old", "new"}
    /\ batch \in 0 .. project.files
    /\ synced \subseteq 1 .. project.files
    /\ fileStats \subseteq 1 .. project.files

Lined ==
    /\ Shaped(todo, project.files)
    /\ OneScript(todo)
    /\ options.dry => Dry(todo)

\* What the steps before the next one have done.
Heads ==
    todo # <<>> =>
        /\ todo[1] = "fetch" => project.remote
        /\ todo[1] = "restore" /\ ~options.dry =>
                dump = "new" /\ (project.reset # "none" => database = {})
        /\ todo[1] = "afterRestore" =>
                "new" \in database /\ (project.reset # "none" => database = {"new"})
        /\ todo[1] = "release" => batch = project.files
        /\ todo[1] = "sync" => Syncs(todo, 1, project.files - batch)

\* The state is borrowed only between the entries of one block.
Borrows ==
    /\ borrowed <=> batch > 0
    /\ batch > 0 => todo # <<>> /\ todo[1] \in {"sync", "release"}

\* A dump is fetched before it is restored.
Fresh ==
    /\ dump = "new" => project.remote
    /\ ~options.dry => dump = "new" \/ Owed(todo, "restore", {"fetch"})

\* A manifest is written after what it describes.
Complete ==
    ~options.dry /\ ~project.execute =>
        /\ ~options.skipDatabase /\ project.database =>
                dump = "new" \/ Owed(todo, "manifest", {"database", "fetch"})
        /\ ~options.skipFiles =>
                fileStats = 1 .. project.files \/ Owed(todo, "manifest", {"files", "release"})

Stats == ~options.dry => fileStats \subseteq synced /\ 1 .. batch \subseteq synced

PipeInv ==
    /\ Types /\ Lined /\ Heads /\ Borrows /\ Fresh /\ Complete /\ Stats
    /\ ManifestIsOfThisRun /\ ScriptNeverPanics

\* Steps that others rely on having just been done.
Before == {"dump", "reset", "restore", "sync"}

\* u can be put in place of the first step.
Fits(u) ==
    /\ u \in Seq(Steps)
    /\ Shaped(u, project.files) /\ Begins(u, 1, project.files)
    /\ OneScript(u)
    /\ options.dry => Dry(u)
    /\ u = <<>> \/ todo[1] \notin Before
    /\ (\A i \in 1 .. Len(u) : u[i] \in Quiet) \/ todo[1] \notin Quiet

LEMMA FirstStep ==
    ASSUME Types, NEW h, At(h)
    PROVE  todo # <<>> /\ todo[1] = h /\ todo \in Seq(Steps) /\ Len(todo) \in Nat /\ Len(todo) > 0
<1>1. todo \in Seq(Steps) /\ todo # <<>> /\ Head(todo) = h
    BY DEF Types, At
<1>2. Len(todo) \in Nat /\ Len(todo) > 0
    BY <1>1, LenProperties, EmptySeq
<1> QED
    BY <1>1, <1>2

LEMMA FitsEmpty == ASSUME project \in Projects PROVE Fits(<<>>)
<1>1. <<>> \in Seq(Steps) /\ Len(<<>>) = 0
    BY EmptySeq
<1> QED
    BY <1>1 DEF Fits, Shaped, Begins, OneScript, Dry

LEMMA BeginsRest ==
    ASSUME Types, Lined, todo # <<>>, todo[1] \notin Before
    PROVE  Begins(todo, 2, project.files)
<1>1. ASSUME 2 <= Len(todo) PROVE Placed(todo, 2, project.files)
    <2>1. Len(todo) \in Nat
        BY LenProperties DEF Types
    <2> QED
        BY <1>1, <2>1 DEF Lined, Shaped
<1> QED
    BY <1>1 DEF Begins, Placed, Inner, Before

LEMMA LinedThen ==
    ASSUME Types, Lined, todo # <<>>, NEW u, Fits(u), Then(u), UNCHANGED <<project, options>>
    PROVE  /\ todo' \in Seq(Steps) /\ Lined'
           /\ todo[1] \notin Before => Begins(todo', 1, project.files)
<1> DEFINE n == project.files
<1>1. /\ n \in Nat /\ todo \in Seq(Steps) /\ u \in Seq(Steps) /\ todo' = u \o Tail(todo)
      /\ Shaped(todo, n) /\ OneScript(todo) /\ (options.dry => Dry(todo))
      /\ Shaped(u, n) /\ OneScript(u) /\ Begins(u, 1, n) /\ (options.dry => Dry(u))
    BY BoundsAssumption DEF Types, Projects, Lined, Fits, Then
<1>2. /\ todo' \in Seq(Steps)
      /\ Len(u) \in Nat /\ Len(todo) \in Nat /\ Len(todo) > 0
      /\ Len(todo') = Len(u) + Len(todo) - 1
      /\ \A i \in 1 .. Len(u) : todo'[i] = u[i]
      /\ \A i \in 2 .. Len(todo) : todo'[Len(u) + i - 1] = todo[i]
    BY <1>1, Replaced
<1>3. Shaped(todo', n)
    <2>1. u # <<>> => Begins(todo, 2, n)
        BY BeginsRest DEF Fits
    <2> QED
        BY <1>1, <2>1, ShapedThen
<1>4. OneScript(todo')
    <2>1. (\A i \in 1 .. Len(u) : u[i] \in Quiet) \/ (\A i \in 2 .. Len(todo) : todo[i] # "js")
        BY <1>1, <1>2 DEF Fits, OneScript
    <2> QED
        BY <1>1, <2>1, OneScriptThen
<1>5. options.dry => Dry(todo')
    BY <1>1, DryThen
<1>6. ASSUME todo[1] \notin Before PROVE Begins(todo', 1, n)
    <2>1. Begins(todo, 2, n)
        BY <1>6, BeginsRest
    <2>2. CASE Len(u) = 0
        <3>1. \A i \in 2 .. Len(todo) : todo'[i - 1] = todo[i]
            BY <1>2, <2>2
        <3>2. ASSUME 2 <= Len(todo), Syncs(todo, 2, n) PROVE Syncs(todo', 1, n)
            <4>1. PICK j : j = 2 + n
                OBVIOUS
            <4>2. j \in 2 .. Len(todo) /\ todo[j] = "release" /\ 1 + n = j - 1
                BY <1>1, <1>2, <3>2, <4>1 DEF Syncs
            <4>3. todo'[j - 1] = todo[j]
                BY <3>1, <4>2
            <4>4. \A k \in 1 .. 1 + n - 1 : k + 1 \in 2 .. 2 + n - 1 /\ k + 1 \in 2 .. Len(todo)
                BY <1>1, <1>2, <4>1, <4>2
            <4>5. \A k \in 1 .. 1 + n - 1 : todo'[k + 1 - 1] = "sync" /\ k + 1 - 1 = k
                BY <3>1, <3>2, <4>4 DEF Syncs
            <4> QED
                BY <1>1, <1>2, <2>2, <4>2, <4>3, <4>5 DEF Syncs
        <3>3. 1 <= Len(todo') => 2 <= Len(todo) /\ todo'[1] = todo[2]
            BY <1>2, <2>2, <3>1
        <3> QED
            BY <2>1, <3>2, <3>3 DEF Begins
    <2>3. CASE Len(u) > 0
        <3>1. todo'[1] = u[1] /\ 1 <= Len(u)
            BY <1>2, <2>3
        <3>2. ASSUME Syncs(u, 1, n) PROVE Syncs(todo', 1, n)
            <4>1. 1 + n \in 1 .. Len(u) /\ \A k \in 1 .. 1 + n - 1 : k \in 1 .. Len(u)
                BY <1>1, <1>2, <3>2 DEF Syncs
            <4> QED
                BY <1>1, <1>2, <3>2, <4>1 DEF Syncs
        <3> QED
            BY <1>1, <3>1, <3>2 DEF Begins
    <2> QED
        BY <1>2, <2>2, <2>3
<1> HIDE DEF n
<1>7. Lined'
    BY <1>3, <1>4, <1>5 DEF Lined, n
<1> QED
    BY <1>2, <1>6, <1>7 DEF n

\* What the next step has behind it, when the first one is done.
LEMMA Popped ==
    ASSUME Types, Lined, NEW h, At(h), Then(<<>>), UNCHANGED <<project, options>>, todo' # <<>>
    PROVE  /\ todo'[1] = "fetch" => h = "dump"
           /\ todo'[1] = "restore" => h = "reset"
           /\ todo'[1] = "afterRestore" => h = "restore"
           /\ todo'[1] = "release" => h = "sync"
           /\ todo'[1] = "sync" => h = "sync" \/ Syncs(todo', 1, project.files)
           /\ \A m \in Nat : m > 0 /\ Syncs(todo, 1, m) => Syncs(todo', 1, m - 1)
           /\ \A step, steps : Owed(todo, step, steps) /\ h \notin steps => Owed(todo', step, steps)
<1> DEFINE n == project.files
<1>1. /\ n \in Nat /\ todo \in Seq(Steps) /\ todo # <<>> /\ todo[1] = h
      /\ todo' = <<>> \o Tail(todo) /\ <<>> \in Seq(Steps) /\ Len(<<>>) = 0
    BY BoundsAssumption, FirstStep, EmptySeq DEF Types, Projects, Then
<1>2. /\ Len(todo) \in Nat /\ Len(todo) > 0 /\ Len(todo') = Len(todo) - 1
      /\ \A i \in 2 .. Len(todo) : todo'[0 + i - 1] = todo[i]
      /\ todo' \in Seq(Steps)
    BY <1>1, Replaced
<1>3. Len(todo) >= 2 /\ todo'[1] = todo[2]
    <2>1. Len(todo') > 0
        BY <1>2, EmptySeq
    <2>2. 2 \in 2 .. Len(todo)
        BY <1>2, <2>1
    <2>3. todo'[0 + 2 - 1] = todo[2]
        BY <1>2, <2>2
    <2> QED
        BY <2>2, <2>3
<1>4. Placed(todo, 2, n)
    BY <1>2, <1>3 DEF Lined, Shaped
<1>5. ASSUME Syncs(todo, 2, n) PROVE Syncs(todo', 1, n)
    <2>1. PICK j : j = 2 + n
        OBVIOUS
    <2>2. j \in 2 .. Len(todo) /\ todo[j] = "release" /\ 1 + n = j - 1
        BY <1>1, <1>2, <1>5, <2>1 DEF Syncs
    <2>3. todo'[0 + j - 1] = todo[j]
        BY <1>2, <2>2
    <2>4. \A k \in 1 .. 1 + n - 1 : k + 1 \in 2 .. 2 + n - 1 /\ k + 1 \in 2 .. Len(todo)
        BY <1>1, <1>2, <2>1, <2>2
    <2>5. \A k \in 1 .. 1 + n - 1 : todo'[0 + (k + 1) - 1] = "sync" /\ 0 + (k + 1) - 1 = k
        BY <1>2, <1>5, <2>4 DEF Syncs
    <2> QED
        BY <1>1, <1>2, <2>2, <2>3, <2>5 DEF Syncs
<1>6. ASSUME NEW m \in Nat, m > 0, Syncs(todo, 1, m) PROVE Syncs(todo', 1, m - 1)
    <2>1. PICK j : j = 1 + m
        OBVIOUS
    <2>2. j \in 2 .. Len(todo) /\ todo[j] = "release" /\ 1 + (m - 1) = j - 1
        BY <1>2, <1>6, <2>1 DEF Syncs
    <2>3. todo'[0 + j - 1] = todo[j]
        BY <1>2, <2>2
    <2>4. \A k \in 1 .. 1 + (m - 1) - 1 : k + 1 \in 1 .. 1 + m - 1 /\ k + 1 \in 2 .. Len(todo)
        BY <1>2, <1>6, <2>1, <2>2
    <2>5. \A k \in 1 .. 1 + (m - 1) - 1 : todo'[k] = "sync"
        <3> TAKE k \in 1 .. 1 + (m - 1) - 1
        <3>1. PICK l : l = k + 1
            OBVIOUS
        <3>2. l \in 1 .. 1 + m - 1 /\ l \in 2 .. Len(todo) /\ k = 0 + l - 1
            BY <1>6, <2>4, <3>1
        <3>3. todo[l] = "sync" /\ todo'[0 + l - 1] = todo[l]
            BY <1>2, <1>6, <3>2 DEF Syncs
        <3> QED
            BY <3>2, <3>3
    <2> QED
        BY <1>2, <1>6, <2>2, <2>3, <2>5 DEF Syncs
<1>7. ASSUME NEW step, NEW steps, Owed(todo, step, steps), h \notin steps
      PROVE  Owed(todo', step, steps)
    <2>1. Owed(<<>>, step, steps)
        BY <1>1 DEF Owed
    <2> QED
        BY <1>1, <1>7, <2>1, OwedThen
<1> HIDE DEF n
<1>8. /\ todo'[1] = "fetch" => h = "dump"
      /\ todo'[1] = "restore" => h = "reset"
      /\ todo'[1] = "afterRestore" => h = "restore"
      /\ todo'[1] = "release" => h = "sync"
      /\ todo'[1] = "sync" => h = "sync" \/ Syncs(todo', 1, n)
    <2>1. todo[2 - 1] = h
        BY <1>1
    <2> QED
        BY <1>3, <1>4, <1>5, <2>1 DEF Placed
<1> QED
    BY <1>6, <1>7, <1>8 DEF n
-------------------------------------------------------------------------------------
(* What the steps and calls of the program put in place of the first step.           *)

\* u does not run a function, writes no manifest, and fetches before it restores.
Good(u) ==
    /\ u \in Seq(Steps)
    /\ Shaped(u, project.files) /\ Begins(u, 1, project.files)
    /\ \A i \in 1 .. Len(u) : u[i] \notin {"js", "manifest", "extension"}
    /\ Owed(u, "restore", {"fetch"})

LEMMA EmptyGood == ASSUME project \in Projects PROVE Good(<<>>)
<1>1. <<>> \in Seq(Steps) /\ Len(<<>>) = 0
    BY EmptySeq
<1> QED
    BY <1>1 DEF Good, Shaped, Begins, Owed

LEMMA DatabaseGoodSteps ==
    ASSUME Types, NEW hooked \in BOOLEAN, NEW d, d = DatabaseSteps(hooked)
    PROVE  /\ Good(d)
           /\ ~hooked \/ options.dry => d \in Seq(Quiet)
           /\ project.database => \E i \in 1 .. Len(d) : d[i] = "fetch"
           /\ \A i \in 1 .. Len(d) : d[i] # "sync"
<1>1. project.database \in BOOLEAN /\ project.files \in Nat /\ options \in RunOptions
      /\ project \in Projects
    BY BoundsAssumption DEF Types, Projects
<1>2. CASE project.database
    <2>1. d \in Seq(Steps) /\ DatabaseGood(d, hooked)
        BY <1>1, <1>2, DatabasePiece
    <2>2. /\ Shaped(d, project.files) /\ Begins(d, 1, project.files)
          /\ \A i \in 1 .. Len(d) : d[i] \notin {"js", "manifest", "extension", "sync"}
          /\ ~hooked \/ options.dry => \A i \in 1 .. Len(d) : d[i] \in Quiet
          /\ Owed(d, "restore", {"fetch"})
          /\ \E i \in 1 .. Len(d) : d[i] = "fetch"
        BY <1>1, <2>1 DEF DatabaseGood
    <2>3. (\A i \in 1 .. Len(d) : d[i] \in Quiet) => d \in Seq(Quiet)
        BY <2>1
    <2> QED
        BY <2>1, <2>2, <2>3 DEF Good
<1>3. CASE ~project.database
    <2>1. d = <<>> /\ Len(<<>>) = 0 /\ <<>> \in Seq(Quiet)
        BY <1>3, EmptySeq DEF DatabaseSteps
    <2> QED
        BY <1>1, <1>3, <2>1, EmptyGood
<1> QED
    BY <1>1, <1>2, <1>3

LEMMA FilesGoodSteps ==
    ASSUME Types, NEW hooked \in BOOLEAN, NEW f, f = FilesSteps(hooked)
    PROVE  /\ Good(f)
           /\ ~hooked \/ options.dry => f \in Seq(Quiet)
           /\ project.files # 0 => \E i \in 1 .. Len(f) : f[i] = "release"
           /\ \A i \in 1 .. Len(f) : f[i] # "restore"
<1>1. project.files \in Nat /\ options \in RunOptions /\ project \in Projects
    BY BoundsAssumption DEF Types, Projects
<1>2. CASE project.files # 0
    <2>1. f \in Seq(Steps) /\ FilesGood(f, hooked)
        BY <1>1, <1>2, FilesPiece
    <2>2. /\ Shaped(f, project.files) /\ Begins(f, 1, project.files)
          /\ \A i \in 1 .. Len(f) : f[i] \in {"beforeFiles", "sync", "release", "afterFiles"}
          /\ ~hooked \/ options.dry => \A i \in 1 .. Len(f) : f[i] \in Quiet
          /\ \E i \in 1 .. Len(f) : f[i] = "release"
        BY <2>1 DEF FilesGood
    <2>3. (\A i \in 1 .. Len(f) : f[i] \in Quiet) => f \in Seq(Quiet)
        BY <2>1
    <2> QED
        BY <2>1, <2>2, <2>3 DEF Good, Owed
<1>3. CASE project.files = 0
    <2>1. f = <<>> /\ Len(<<>>) = 0 /\ <<>> \in Seq(Quiet)
        BY <1>3, EmptySeq DEF FilesSteps
    <2> QED
        BY <1>1, <1>3, <2>1, EmptyGood
<1> QED
    BY <1>2, <1>3

\* t goes on after d, which begins with a step of its own.
LEMMA BeginsAlike ==
    ASSUME NEW d \in Seq(Steps), d # <<>>, NEW t, NEW n, Begins(d, 1, n),
           \A i \in 1 .. Len(d) : d[i] # "sync" /\ t[i] = d[i]
    PROVE  Begins(t, 1, n)
<1>1. Len(d) \in Nat /\ Len(d) > 0
    BY LenProperties, EmptySeq
<1>2. 1 <= Len(d) /\ d[1] # "sync" /\ t[1] = d[1]
    BY <1>1
<1> QED
    BY <1>2 DEF Begins

LEMMA BothGood ==
    ASSUME Types, NEW d, NEW f, NEW t, t = d \o f,
           Good(d), d \in Seq(Quiet), \A i \in 1 .. Len(d) : d[i] # "sync",
           Good(f), f \in Seq(Quiet), \A i \in 1 .. Len(f) : f[i] # "restore"
    PROVE  Good(t) /\ t \in Seq(Quiet)
<1> DEFINE n == project.files
<1>1. n \in Nat /\ project \in Projects
    BY BoundsAssumption DEF Types, Projects
<1>2. t \in Seq(Quiet)
    BY ConcatProperties
<1>3. CASE d = <<>>
    <2>1. t = f
        BY <1>3, ConcatEmptySeq
    <2> QED
        BY <1>2, <2>1
<1>4. CASE d # <<>>
    <2>1. "clone_files" \in Steps /\ "clone_files" \in Quiet \ Inner
        BY DEF Steps, Actions, Quiet, Inner
    <2>2. OneScript(f)
        BY DEF Good, OneScript
    <2>3. PICK s : s = <<"clone_files">> \o f
        OBVIOUS
    <2>4. /\ s \in Seq(Steps) /\ s # <<>> /\ Tail(s) = f /\ Shaped(s, n)
        BY <1>1, <2>1, <2>2, <2>3, Pushed DEF Good
    <2>5. Begins(s, 2, n)
        BY <1>1, <2>1, <2>2, <2>3, Pushed DEF Good
    <2>6. Shaped(t, n)
        BY <1>1, <2>4, <2>5, ShapedThen DEF Good
    <2>7. d \in Seq(Steps) /\ f \in Seq(Steps) /\ Begins(d, 1, n)
        BY DEF Good
    <2>8. \A i \in 1 .. Len(d) : t[i] = d[i]
        BY <2>7, Joined
    <2>9. Begins(t, 1, n)
        BY <1>4, <2>7, <2>8, BeginsAlike
    <2>10. \A i \in 1 .. Len(t) : t[i] \in Quiet
        BY <1>2, ElementOfSeq
    <2>11. Owed(t, "restore", {"fetch"})
        BY OwedCat DEF Good
    <2>12. t \in Seq(Steps)
        BY <2>7, Joined
    <2> QED
        BY <1>2, <2>6, <2>9, <2>10, <2>11, <2>12 DEF Good, Quiet, Actions
<1> QED
    BY <1>3, <1>4

LEMMA BothSteps ==
    ASSUME Types, NEW t, t = DatabaseSteps(FALSE) \o FilesSteps(FALSE)
    PROVE  Good(t) /\ t \in Seq(Quiet)
<1>1. PICK d : d = DatabaseSteps(FALSE)
    OBVIOUS
<1>2. PICK f : f = FilesSteps(FALSE)
    OBVIOUS
<1>3. /\ Good(d) /\ d \in Seq(Quiet) /\ \A i \in 1 .. Len(d) : d[i] # "sync"
      /\ Good(f) /\ f \in Seq(Quiet) /\ \A i \in 1 .. Len(f) : f[i] # "restore"
    BY <1>1, <1>2, DatabaseGoodSteps, FilesGoodSteps
<1>4. t = d \o f
    BY <1>1, <1>2
<1> QED
    BY <1>3, <1>4, BothGood
-------------------------------------------------------------------------------------
(* The steps.                                                                        *)

\* Nothing is lost of what a manifest still waits for.
LEMMA CompleteThen ==
    ASSUME Types, Complete, todo # <<>>, NEW u \in Seq(Steps), Then(u),
           UNCHANGED <<project, options>>,
           dump = "new" => dump' = "new",
           fileStats = 1 .. project.files => fileStats' = 1 .. project.files,
           ~options.dry /\ ~project.execute =>
                /\ ~options.skipDatabase /\ project.database =>
                        \/ dump' = "new"
                        \/ /\ Owed(u, "manifest", {"database", "fetch"})
                           /\ todo[1] \in {"database", "fetch"} =>
                                /\ \E j \in 1 .. Len(u) : u[j] \in {"database", "fetch"}
                                /\ \A j \in 1 .. Len(u) : u[j] # "js"
                /\ ~options.skipFiles =>
                        \/ fileStats' = 1 .. project.files
                        \/ /\ Owed(u, "manifest", {"files", "release"})
                           /\ todo[1] \in {"files", "release"} =>
                                /\ \E j \in 1 .. Len(u) : u[j] \in {"files", "release"}
                                /\ \A j \in 1 .. Len(u) : u[j] # "js"
    PROVE  Complete'
<1>1. todo \in Seq(Steps) /\ todo' = u \o Tail(todo) /\ project' = project /\ options' = options
    BY DEF Types, Then
<1>2. ASSUME ~options.dry, ~project.execute, ~options.skipDatabase, project.database,
             dump' # "new"
      PROVE  Owed(todo', "manifest", {"database", "fetch"})
    <2>1. Owed(todo, "manifest", {"database", "fetch"})
        BY <1>2 DEF Complete
    <2> QED
        BY <1>1, <1>2, <2>1, OwedThen
<1>3. ASSUME ~options.dry, ~project.execute, ~options.skipFiles, fileStats' # 1 .. project.files
      PROVE  Owed(todo', "manifest", {"files", "release"})
    <2>1. Owed(todo, "manifest", {"files", "release"})
        BY <1>3 DEF Complete
    <2> QED
        BY <1>1, <1>3, <2>1, OwedThen
<1> QED
    BY <1>1, <1>2, <1>3 DEF Complete

\* A step that has no effects and that no other relies on is replaced by others.
LEMMA Goes ==
    ASSUME PipeInv, NEW h, At(h), h \notin Before \cup {"fetch", "release"},
           NEW u, Fits(u), Then(u), Owed(u, "restore", {"fetch"}),
           UNCHANGED <<project, options, borrowed, outcome, dump, database, batch, synced, fileStats>>,
           calls' \in 0 .. MaxCalls, trace' \in Seq(Steps), Complete', ManifestIsOfThisRun'
    PROVE  PipeInv'
<1>1. /\ Types /\ Lined /\ Borrows /\ Fresh /\ Stats
      /\ todo # <<>> /\ todo[1] = h /\ todo \in Seq(Steps) /\ u \in Seq(Steps)
      /\ todo' = u \o Tail(todo)
    BY FirstStep DEF PipeInv, Fits, Then
<1>2. batch = 0 /\ project.files \in Nat
    BY <1>1, BoundsAssumption DEF Types, Projects, Borrows, Before
<1>3. todo' \in Seq(Steps) /\ Lined' /\ Begins(todo', 1, project.files)
    BY <1>1, LinedThen
<1>4. Types'
    BY <1>1, <1>3 DEF Types
<1>5. Heads'
    <2>1. Len(todo') \in Nat /\ (todo' # <<>> => Len(todo') > 0)
        BY <1>3, LenProperties, EmptySeq
    <2>2. todo' # <<>> => todo'[1] \notin Inner /\ (todo'[1] = "sync" => Syncs(todo', 1, project.files))
        BY <1>3, <2>1 DEF Begins
    <2>3. project.files - batch' = project.files /\ project' = project
        BY <1>2
    <2> QED
        BY <2>2, <2>3 DEF Heads, Inner
<1>6. Borrows'
    BY <1>1, <1>2 DEF Borrows
<1>7. Fresh'
    <2>1. Owed(todo, "restore", {"fetch"}) => Owed(todo', "restore", {"fetch"})
        BY <1>1, OwedThen
    <2> QED
        BY <1>1, <2>1 DEF Fresh
<1>8. Stats'
    BY <1>1 DEF Stats
<1>9. ScriptNeverPanics'
    BY DEF ScriptNeverPanics, At
<1> QED
    BY <1>3, <1>4, <1>5, <1>6, <1>7, <1>8, <1>9 DEF PipeInv

\* What an action leaves alone.
LEMMA ManifestKept ==
    ASSUME ManifestIsOfThisRun, UNCHANGED <<manifest, synced, project, options>>
    PROVE  ManifestIsOfThisRun'
BY DEF ManifestIsOfThisRun

LEMMA BuildStep == ASSUME PipeInv, Build PROVE PipeInv'
<1>1. /\ At("build") /\ Then(Pipeline)
      /\ UNCHANGED <<project, options, calls, borrowed, outcome, dump, database, batch, synced,
                     fileStats, manifest, trace>>
    BY DEF Build, effects
<1>2. /\ Types /\ Complete /\ ManifestIsOfThisRun /\ todo # <<>> /\ todo[1] = "build"
      /\ project.execute \in BOOLEAN /\ options \in RunOptions /\ project.files \in Nat
      /\ options.dry \in BOOLEAN
    BY <1>1, FirstStep, BoundsAssumption, ExecuteAssumption DEF PipeInv, Types, Projects, RunOptions
<1>3. Pipeline \in Seq(PipelineSteps)
    BY <1>2, PipelinePlain
<1>4. Pipeline \in Seq(Steps)
    <2>1. PipelineSteps \subseteq Steps
        BY <1>2 DEF PipelineSteps, Steps, HookNames
    <2> QED
        BY <1>3, <2>1
<1>5. \A i \in 1 .. Len(Pipeline) : Pipeline[i] \in PipelineSteps
    BY <1>3, ElementOfSeq
<1>6. PICK u : u = Pipeline
    OBVIOUS
<1>7. u \in Seq(Steps) /\ Then(u) /\ \A i \in 1 .. Len(u) : u[i] \in PipelineSteps
    BY <1>1, <1>4, <1>5, <1>6
<1>8. \A e \in PipelineSteps : e \notin Inner \cup {"sync", "js", "restore"}
                               /\ (options.dry /\ e \in HookNames => e = "extension")
    BY <1>2 DEF PipelineSteps, Inner, HookNames
<1>9. \A i \in 1 .. Len(u) : u[i] \notin Inner \cup {"sync", "js", "restore"}
    BY <1>7, <1>8
<1>10. Fits(u)
    <2>1. Shaped(u, project.files) /\ Begins(u, 1, project.files) /\ OneScript(u)
        BY <1>2, <1>7, <1>9, Plain
    <2>2. options.dry => Dry(u)
        BY <1>7, <1>8 DEF Dry
    <2> QED
        BY <1>2, <1>7, <2>1, <2>2 DEF Fits, Before, Quiet, Actions
<1>11. Owed(u, "restore", {"fetch"})
    BY <1>9 DEF Owed
<1>12. Complete'
    <2>1. ASSUME ~options.dry, ~project.execute
          PROVE  /\ ~options.skipDatabase => Owed(u, "manifest", {"database", "fetch"})
                 /\ ~options.skipFiles => Owed(u, "manifest", {"files", "release"})
        BY <1>2, <1>6, <2>1, PipelineOwes
    <2> QED
        BY <1>1, <1>2, <1>7, <2>1, CompleteThen
<1>13. calls' \in 0 .. MaxCalls /\ trace' \in Seq(Steps) /\ ManifestIsOfThisRun'
    BY <1>1, <1>2, ManifestKept DEF Types
<1> QED
    BY <1>1, <1>7, <1>10, <1>11, <1>12, <1>13, Goes DEF Before

\* A step that writes and calls nothing.
LEMMA OrdinaryThen ==
    ASSUME Types, Complete, todo # <<>>, todo[1] \notin {"database", "fetch", "files", "release"},
           NEW u \in Seq(Steps), Then(u), \A i \in 1 .. Len(u) : u[i] # "manifest",
           UNCHANGED <<project, options, dump, fileStats>>
    PROVE  Complete'
<1>1. Owed(u, "manifest", {"database", "fetch"}) /\ Owed(u, "manifest", {"files", "release"})
    BY DEF Owed
<1> QED
    BY <1>1, CompleteThen

LEMMA CallStep == ASSUME PipeInv, NEW h \in HookNames \cup {"execute"}, Call(h) PROVE PipeInv'
<1>1. /\ At(h)
      /\ \/ Then(<<"js">>) /\ calls' = MaxCalls /\ trace' = Append(trace, h)
         \/ Then(<<>>) /\ UNCHANGED <<calls, trace>>
      /\ UNCHANGED <<project, options, loaded, borrowed, outcome, dump, database, batch, synced,
                     fileStats, manifest>>
    BY DEF Call, effects
<1>2. /\ Types /\ Lined /\ Complete /\ ManifestIsOfThisRun /\ todo # <<>> /\ todo[1] = h
      /\ project \in Projects /\ project.files \in Nat
    BY <1>1, FirstStep, BoundsAssumption DEF PipeInv, Types, Projects
<1>3. h \in Steps /\ h \notin Before \cup {"database", "fetch", "files", "release"} /\ h \notin Quiet
    BY DEF HookNames, Steps, Before, Quiet, Actions
<1>4. calls' \in 0 .. MaxCalls /\ trace' \in Seq(Steps)
    <2>1. trace \in Seq(Steps) /\ calls \in 0 .. MaxCalls /\ MaxCalls \in 0 .. MaxCalls
        BY <1>2, BoundsAssumption DEF Types
    <2>2. Append(trace, h) \in Seq(Steps)
        BY <1>3, <2>1, AppendProperties
    <2> QED
        BY <1>1, <2>1, <2>2
<1>5. PICK u : u \in {<<>>, <<"js">>} /\ Then(u)
    BY <1>1
<1>6. u \in Seq(Steps) /\ \A i \in 1 .. Len(u) : u[i] = "js"
    <2>1. <<"js">> \in Seq(Steps) /\ Len(<<"js">>) = 1 /\ <<"js">>[1] = "js"
        BY DEF Steps
    <2>2. <<>> \in Seq(Steps) /\ Len(<<>>) = 0
        BY EmptySeq
    <2>3. CASE u = <<>>
        BY <2>2, <2>3
    <2>4. CASE u = <<"js">>
        <3>1. u \in Seq(Steps) /\ Len(u) = 1 /\ u[1] = "js"
            BY <2>1, <2>4
        <3> QED
            BY <3>1
    <2> QED
        BY <1>5, <2>3, <2>4
<1>7. Fits(u)
    <2>1. Len(u) \in {0, 1}
        <3>1. Len(<<"js">>) = 1 /\ Len(<<>>) = 0
            OBVIOUS
        <3> QED
            BY <1>5, <3>1
    <2>2. \A i \in 1 .. Len(u) : u[i] \notin Inner \cup {"sync"}
        BY <1>6 DEF Inner
    <2>3. Shaped(u, project.files) /\ Begins(u, 1, project.files) /\ OneScript(u)
        BY <2>1, <2>2 DEF Shaped, Begins, OneScript
    <2>4. Dry(u)
        BY <1>6 DEF Dry, HookNames
    <2> QED
        BY <1>2, <1>3, <1>6, <2>3, <2>4 DEF Fits
<1>8. Owed(u, "restore", {"fetch"}) /\ \A i \in 1 .. Len(u) : u[i] # "manifest"
    BY <1>6 DEF Owed
<1>9. Complete'
    BY <1>1, <1>2, <1>3, <1>5, <1>6, <1>8, OrdinaryThen
<1>10. ManifestIsOfThisRun'
    BY <1>1, <1>2, ManifestKept
<1> QED
    BY <1>1, <1>3, <1>4, <1>5, <1>7, <1>8, <1>9, <1>10, Goes

LEMMA EnterGood ==
    ASSUME PipeInv, NEW h \in {"database", "files", "clone_db", "clone_files", "clone_all"}, At(h),
           NEW u, Then(u), Good(u), options.dry \/ h \in Quiet => u \in Seq(Quiet),
           h = "database" /\ project.database => \E i \in 1 .. Len(u) : u[i] = "fetch",
           h = "files" /\ project.files # 0 => \E i \in 1 .. Len(u) : u[i] = "release",
           UNCHANGED <<project, options, calls, loaded, borrowed, outcome, effects, trace>>
    PROVE  PipeInv'
<1>1. /\ Types /\ Complete /\ ManifestIsOfThisRun /\ todo # <<>> /\ todo[1] = h
      /\ UNCHANGED <<project, options, calls, borrowed, outcome, dump, database, batch, synced,
                     fileStats, manifest, trace>>
    BY FirstStep DEF PipeInv, effects
<1>2. /\ u \in Seq(Steps) /\ Shaped(u, project.files) /\ Begins(u, 1, project.files)
      /\ \A i \in 1 .. Len(u) : u[i] # "js" /\ u[i] # "manifest"
      /\ Owed(u, "restore", {"fetch"})
    BY DEF Good
<1>3. h \notin Before \cup {"fetch", "release"}
    BY DEF Before
<1>4. options.dry \/ h \in Quiet => \A i \in 1 .. Len(u) : u[i] \in Quiet
    <2>1. ASSUME u \in Seq(Quiet) PROVE \A i \in 1 .. Len(u) : u[i] \in Quiet
        BY <2>1, ElementOfSeq
    <2> QED
        BY <2>1
<1>5. Fits(u)
    <2>1. OneScript(u)
        BY <1>2 DEF OneScript
    <2>2. options.dry => Dry(u)
        BY <1>4 DEF Dry, Quiet, Actions, HookNames
    <2> QED
        BY <1>1, <1>2, <1>3, <1>4, <2>1, <2>2 DEF Fits
<1>6. Complete'
    <2>1. Owed(u, "manifest", {"database", "fetch"}) /\ Owed(u, "manifest", {"files", "release"})
        BY <1>2 DEF Owed
    <2>2. h = "database" /\ project.database => \E j \in 1 .. Len(u) : u[j] \in {"database", "fetch"}
        OBVIOUS
    <2>3. h = "files" /\ project.files # 0 => \E j \in 1 .. Len(u) : u[j] \in {"files", "release"}
        OBVIOUS
    <2>4. project.files = 0 => fileStats' = 1 .. project.files
        <3>1. fileStats \subseteq 1 .. project.files /\ fileStats' = fileStats
            BY <1>1 DEF Types
        <3>2. 1 .. 0 = {}
            OBVIOUS
        <3> QED
            BY <3>1, <3>2
    <2> QED
        BY <1>1, <1>2, <2>1, <2>2, <2>3, <2>4, CompleteThen
<1>7. calls' \in 0 .. MaxCalls /\ trace' \in Seq(Steps) /\ ManifestIsOfThisRun'
    BY <1>1, ManifestKept DEF Types
<1> QED
    BY <1>1, <1>2, <1>3, <1>5, <1>6, <1>7, Goes

LEMMA EnterStep == ASSUME PipeInv, Enter PROVE PipeInv'
<1>1. UNCHANGED <<project, options, calls, loaded, borrowed, outcome, effects, trace>> /\ Types
    BY DEF Enter, PipeInv
<1>2. CASE At("database") /\ Then(DatabaseSteps(TRUE))
    <2>1. PICK u : u = DatabaseSteps(TRUE)
        OBVIOUS
    <2>2. /\ Good(u) /\ (options.dry => u \in Seq(Quiet))
          /\ project.database => \E i \in 1 .. Len(u) : u[i] = "fetch"
        BY <1>1, <2>1, DatabaseGoodSteps
    <2>3. "database" \notin Quiet /\ Then(u)
        BY <1>2, <2>1 DEF Quiet, Actions
    <2> QED
        BY <1>1, <1>2, <2>2, <2>3, EnterGood
<1>3. CASE At("clone_db") /\ Then(DatabaseSteps(FALSE))
    <2>1. PICK u : u = DatabaseSteps(FALSE)
        OBVIOUS
    <2>2. Good(u) /\ u \in Seq(Quiet) /\ Then(u)
        BY <1>1, <1>3, <2>1, DatabaseGoodSteps
    <2> QED
        BY <1>1, <1>3, <2>2, EnterGood
<1>4. CASE At("files") /\ Then(FilesSteps(TRUE))
    <2>1. PICK u : u = FilesSteps(TRUE)
        OBVIOUS
    <2>2. /\ Good(u) /\ (options.dry => u \in Seq(Quiet))
          /\ project.files # 0 => \E i \in 1 .. Len(u) : u[i] = "release"
        BY <1>1, <2>1, FilesGoodSteps
    <2>3. "files" \notin Quiet /\ Then(u)
        BY <1>4, <2>1 DEF Quiet, Actions
    <2> QED
        BY <1>1, <1>4, <2>2, <2>3, EnterGood
<1>5. CASE At("clone_files") /\ Then(FilesSteps(FALSE))
    <2>1. PICK u : u = FilesSteps(FALSE)
        OBVIOUS
    <2>2. Good(u) /\ u \in Seq(Quiet) /\ Then(u)
        BY <1>1, <1>5, <2>1, FilesGoodSteps
    <2> QED
        BY <1>1, <1>5, <2>2, EnterGood
<1>6. CASE At("clone_all") /\ Then(DatabaseSteps(FALSE) \o FilesSteps(FALSE))
    <2>1. PICK u : u = DatabaseSteps(FALSE) \o FilesSteps(FALSE)
        OBVIOUS
    <2>2. Good(u) /\ u \in Seq(Quiet) /\ Then(u)
        BY <1>1, <1>6, <2>1, BothSteps
    <2> QED
        BY <1>1, <1>6, <2>2, EnterGood
<1> QED
    BY <1>2, <1>3, <1>4, <1>5, <1>6 DEF Enter

LEMMA ReturnStep == ASSUME PipeInv, Return PROVE PipeInv'
<1>1. /\ At("js") /\ Then(<<>>)
      /\ UNCHANGED <<project, options, calls, borrowed, outcome, dump, database, batch, synced,
                     fileStats, manifest, trace>>
    BY DEF Return, effects
<1>2. /\ Types /\ Complete /\ ManifestIsOfThisRun /\ todo # <<>> /\ todo[1] = "js"
      /\ project \in Projects
    BY <1>1, FirstStep DEF PipeInv, Types
<1>3. <<>> \in Seq(Steps) /\ Len(<<>>) = 0 /\ Fits(<<>>)
    BY <1>2, EmptySeq, FitsEmpty
<1>4. Owed(<<>>, "restore", {"fetch"}) /\ \A i \in 1 .. Len(<<>>) : <<>>[i] # "manifest"
    BY <1>3 DEF Owed
<1>5. Complete'
    BY <1>1, <1>2, <1>3, <1>4, OrdinaryThen
<1>6. calls' \in 0 .. MaxCalls /\ trace' \in Seq(Steps) /\ ManifestIsOfThisRun'
    BY <1>1, <1>2, ManifestKept DEF Types
<1> QED
    BY <1>1, <1>3, <1>4, <1>5, <1>6, Goes DEF Before

LEMMA WriteManifestStep == ASSUME PipeInv, WriteManifest PROVE PipeInv'
<1>1. /\ At("manifest") /\ Then(<<>>)
      /\ manifest' = [dump |-> IF project.database /\ project.remote THEN dump ELSE "none",
                      files |-> fileStats]
      /\ UNCHANGED <<project, options, calls, borrowed, outcome, dump, database, batch, synced,
                     fileStats, trace>>
    BY DEF WriteManifest
<1>2. /\ Types /\ Complete /\ Stats /\ Fresh /\ todo # <<>> /\ todo[1] = "manifest"
      /\ project \in Projects /\ todo \in Seq(Steps)
    BY <1>1, FirstStep DEF PipeInv, Types
<1>3. <<>> \in Seq(Steps) /\ Len(<<>>) = 0 /\ Fits(<<>>)
    BY <1>2, EmptySeq, FitsEmpty
<1>4. Owed(<<>>, "restore", {"fetch"}) /\ \A i \in 1 .. Len(<<>>) : <<>>[i] # "manifest"
    BY <1>3 DEF Owed
<1>5. Complete'
    BY <1>1, <1>2, <1>3, <1>4, OrdinaryThen
<1>6. \A steps : ~Owed(todo, "manifest", steps)
    <2>1. 1 \in 1 .. Len(todo)
        BY <1>1, FirstStep, <1>2
    <2> QED
        BY <1>2, <2>1 DEF Owed, Due
<1>7. ManifestIsOfThisRun'
    <2>1. ASSUME ~options.dry PROVE fileStats \subseteq synced
        BY <1>2, <2>1 DEF Stats
    <2>2. ASSUME ~options.dry, ~project.execute, ~options.skipFiles
          PROVE  fileStats = 1 .. project.files
        BY <1>2, <1>6, <2>2 DEF Complete
    <2>3. ASSUME ~options.dry, ~project.execute, ~options.skipDatabase, project.database
          PROVE  dump = "new" /\ project.remote
        BY <1>2, <1>6, <2>3 DEF Complete, Fresh
    <2>4. manifest'.files = fileStats
        BY <1>1
    <2>5. project.database /\ project.remote => manifest'.dump = dump
        BY <1>1
    <2> QED
        BY <1>1, <2>1, <2>2, <2>3, <2>4, <2>5 DEF ManifestIsOfThisRun
<1>8. calls' \in 0 .. MaxCalls /\ trace' \in Seq(Steps)
    BY <1>1, <1>2 DEF Types
<1> QED
    BY <1>1, <1>3, <1>4, <1>5, <1>7, <1>8, Goes DEF Before

\* What is true of the steps to come after any step that is done and goes.
LEMMA Pops ==
    ASSUME PipeInv, NEW h, At(h), Then(<<>>), UNCHANGED <<project, options>>
    PROVE  /\ todo # <<>> /\ todo[1] = h /\ todo \in Seq(Steps)
           /\ todo' \in Seq(Steps) /\ Lined'
           /\ <<>> \in Seq(Steps) /\ \A i \in 1 .. Len(<<>>) : <<>>[i] # "manifest"
           /\ todo' # <<>> =>
                /\ todo'[1] = "fetch" => h = "dump"
                /\ todo'[1] = "restore" => h = "reset"
                /\ todo'[1] = "afterRestore" => h = "restore"
                /\ todo'[1] = "release" => h = "sync"
                /\ todo'[1] = "sync" => h = "sync" \/ Syncs(todo', 1, project.files)
           /\ h # "fetch" /\ Owed(todo, "restore", {"fetch"}) => Owed(todo', "restore", {"fetch"})
<1>1. /\ Types /\ Lined /\ project \in Projects
      /\ todo # <<>> /\ todo[1] = h /\ todo \in Seq(Steps)
    BY FirstStep DEF PipeInv, Types
<1>2. todo' \in Seq(Steps) /\ Lined'
    BY <1>1, FitsEmpty, LinedThen
<1>3. <<>> \in Seq(Steps) /\ \A i \in 1 .. Len(<<>>) : <<>>[i] # "manifest"
    BY EmptySeq
<1>4. ASSUME todo' # <<>>
      PROVE  /\ todo'[1] = "fetch" => h = "dump"
             /\ todo'[1] = "restore" => h = "reset"
             /\ todo'[1] = "afterRestore" => h = "restore"
             /\ todo'[1] = "release" => h = "sync"
             /\ todo'[1] = "sync" => h = "sync" \/ Syncs(todo', 1, project.files)
    BY <1>1, <1>4, Popped
<1>5. ASSUME h # "fetch", Owed(todo, "restore", {"fetch"}) PROVE Owed(todo', "restore", {"fetch"})
    <2>1. CASE todo' = <<>>
        BY <2>1, EmptySeq DEF Owed
    <2>2. CASE todo' # <<>>
        BY <1>1, <1>5, <2>2, Popped
    <2> QED
        BY <2>1, <2>2
<1> QED
    BY <1>1, <1>2, <1>3, <1>4, <1>5

\* The state is not borrowed at a step that is neither "sync" nor "release".
LEMMA NoBatch ==
    ASSUME PipeInv, todo # <<>>, todo[1] \notin {"sync", "release"}
    PROVE  batch = 0 /\ ~borrowed /\ project.files \in Nat
<1>1. /\ batch \in Nat /\ project.files \in Nat
      /\ borrowed <=> batch > 0
      /\ batch > 0 => todo[1] \in {"sync", "release"}
    BY BoundsAssumption DEF PipeInv, Types, Projects, Borrows
<1> QED
    BY <1>1

LEMMA DumpStep == ASSUME PipeInv, Dump PROVE PipeInv'
<1>1. /\ At("dump") /\ project.remote /\ Then(<<>>)
      /\ UNCHANGED <<project, options, calls, borrowed, outcome, dump, database, batch, synced,
                     fileStats, manifest, trace>>
    BY DEF Dump, effects
<1>2. /\ Types /\ Complete /\ Stats /\ Fresh /\ ManifestIsOfThisRun /\ ScriptNeverPanics
    BY DEF PipeInv
<1>3. /\ todo # <<>> /\ todo[1] = "dump" /\ todo \in Seq(Steps) /\ todo' \in Seq(Steps) /\ Lined'
      /\ <<>> \in Seq(Steps) /\ \A i \in 1 .. Len(<<>>) : <<>>[i] # "manifest"
      /\ todo' # <<>> =>
            /\ todo'[1] \notin {"restore", "afterRestore", "release"}
            /\ todo'[1] = "sync" => Syncs(todo', 1, project.files)
      /\ Owed(todo, "restore", {"fetch"}) => Owed(todo', "restore", {"fetch"})
    BY <1>1, Pops
<1>4. batch = 0 /\ ~borrowed /\ project.files \in Nat
    BY <1>3, NoBatch
<1>5. Types'
    BY <1>1, <1>2, <1>3 DEF Types
<1>6. Heads'
    BY <1>1, <1>3, <1>4 DEF Heads
<1>7. Borrows'
    BY <1>1, <1>4 DEF Borrows
<1>8. Fresh'
    BY <1>1, <1>2, <1>3 DEF Fresh
<1>9. Complete'
    BY <1>1, <1>2, <1>3, OrdinaryThen
<1>10. Stats' /\ ManifestIsOfThisRun' /\ ScriptNeverPanics'
    BY <1>1, <1>2, ManifestKept DEF Stats, ScriptNeverPanics, At
<1> QED
    BY <1>3, <1>5, <1>6, <1>7, <1>8, <1>9, <1>10 DEF PipeInv

LEMMA FetchStep == ASSUME PipeInv, Fetch PROVE PipeInv'
<1>1. /\ At("fetch") /\ dump' = (IF options.dry THEN dump ELSE "new") /\ Then(<<>>)
      /\ UNCHANGED <<project, options, calls, borrowed, outcome, database, batch, synced,
                     fileStats, manifest, trace>>
    BY DEF Fetch
<1>2. /\ Types /\ Complete /\ Stats /\ Fresh /\ Heads /\ ManifestIsOfThisRun /\ ScriptNeverPanics
    BY DEF PipeInv
<1>3. /\ todo # <<>> /\ todo[1] = "fetch" /\ todo \in Seq(Steps) /\ todo' \in Seq(Steps) /\ Lined'
      /\ <<>> \in Seq(Steps) /\ \A i \in 1 .. Len(<<>>) : <<>>[i] # "manifest"
      /\ todo' # <<>> =>
            /\ todo'[1] \notin {"fetch", "restore", "afterRestore", "release"}
            /\ todo'[1] = "sync" => Syncs(todo', 1, project.files)
    BY <1>1, Pops
<1>4. batch = 0 /\ ~borrowed /\ project.files \in Nat
    BY <1>3, NoBatch
<1>5. Types'
    BY <1>1, <1>2, <1>3 DEF Types
<1>6. Heads'
    BY <1>1, <1>3, <1>4 DEF Heads
<1>7. Borrows'
    BY <1>1, <1>4 DEF Borrows
<1>8. Fresh'
    BY <1>1, <1>2, <1>3 DEF Fresh, Heads
<1>9. Complete'
    <2>1. Owed(<<>>, "manifest", {"files", "release"})
        BY <1>3 DEF Owed
    <2> QED
        BY <1>1, <1>2, <1>3, <2>1, CompleteThen
<1>10. Stats' /\ ManifestIsOfThisRun' /\ ScriptNeverPanics'
    BY <1>1, <1>2, ManifestKept DEF Stats, ScriptNeverPanics, At
<1> QED
    BY <1>3, <1>5, <1>6, <1>7, <1>8, <1>9, <1>10 DEF PipeInv

LEMMA ResetStep == ASSUME PipeInv, Reset PROVE PipeInv'
<1>1. /\ At("reset") /\ Then(<<>>)
      /\ database' = (IF project.reset = "none" \/ options.dry THEN database ELSE {})
      /\ UNCHANGED <<project, options, calls, borrowed, outcome, dump, batch, synced,
                     fileStats, manifest, trace>>
    BY DEF Reset
<1>2. /\ Types /\ Complete /\ Stats /\ Fresh /\ ManifestIsOfThisRun /\ ScriptNeverPanics
    BY DEF PipeInv
<1>3. /\ todo # <<>> /\ todo[1] = "reset" /\ todo \in Seq(Steps) /\ todo' \in Seq(Steps) /\ Lined'
      /\ <<>> \in Seq(Steps) /\ \A i \in 1 .. Len(<<>>) : <<>>[i] # "manifest"
      /\ todo' # <<>> =>
            /\ todo'[1] \notin {"fetch", "afterRestore", "release"}
            /\ todo'[1] = "sync" => Syncs(todo', 1, project.files)
      /\ Owed(todo, "restore", {"fetch"}) => Owed(todo', "restore", {"fetch"})
    BY <1>1, Pops
<1>4. batch = 0 /\ ~borrowed /\ project.files \in Nat
    BY <1>3, NoBatch
<1>5. Types'
    BY <1>1, <1>2, <1>3 DEF Types
<1>6. Fresh'
    BY <1>1, <1>2, <1>3 DEF Fresh
<1>7. ASSUME todo' # <<>>, todo'[1] = "restore", ~options.dry PROVE dump = "new"
    <2>1. Len(todo') \in Nat /\ Len(todo') > 0
        BY <1>3, <1>7, LenProperties, EmptySeq
    <2>2. ~Owed(todo', "restore", {"fetch"})
        BY <1>7, <2>1 DEF Owed, Due
    <2> QED
        BY <1>1, <1>6, <1>7, <2>2 DEF Fresh
<1>8. Heads'
    BY <1>1, <1>3, <1>4, <1>7 DEF Heads
<1>9. Borrows'
    BY <1>1, <1>4 DEF Borrows
<1>10. Complete'
    BY <1>1, <1>2, <1>3, OrdinaryThen
<1>11. Stats' /\ ManifestIsOfThisRun' /\ ScriptNeverPanics'
    BY <1>1, <1>2, ManifestKept DEF Stats, ScriptNeverPanics, At
<1> QED
    BY <1>3, <1>5, <1>6, <1>8, <1>9, <1>10, <1>11 DEF PipeInv

LEMMA Marked ==
    ASSUME Types, NEW step \in Steps, Mark(step)
    PROVE  trace' \in Seq(Steps)
<1>1. trace \in Seq(Steps)
    BY DEF Types
<1>2. Append(trace, step) \in Seq(Steps)
    BY <1>1, AppendProperties
<1> QED
    BY <1>1, <1>2 DEF Mark

LEMMA RestoreStep == ASSUME PipeInv, Restore PROVE PipeInv'
<1>1. /\ At("restore") /\ Then(<<>>) /\ Mark("restore")
      /\ database' = (IF options.dry THEN database ELSE database \cup {dump})
      /\ UNCHANGED <<project, options, calls, borrowed, outcome, dump, batch, synced,
                     fileStats, manifest>>
    BY DEF Restore
<1>2. /\ Types /\ Complete /\ Stats /\ Fresh /\ Heads /\ ManifestIsOfThisRun /\ ScriptNeverPanics
    BY DEF PipeInv
<1>3. /\ todo # <<>> /\ todo[1] = "restore" /\ todo \in Seq(Steps) /\ todo' \in Seq(Steps) /\ Lined'
      /\ <<>> \in Seq(Steps) /\ \A i \in 1 .. Len(<<>>) : <<>>[i] # "manifest"
      /\ todo' # <<>> =>
            /\ todo'[1] \notin {"fetch", "restore", "release"}
            /\ todo'[1] = "sync" => Syncs(todo', 1, project.files)
      /\ Owed(todo, "restore", {"fetch"}) => Owed(todo', "restore", {"fetch"})
    BY <1>1, Pops
<1>4. batch = 0 /\ ~borrowed /\ project.files \in Nat
    BY <1>3, NoBatch
<1>5. ~options.dry => dump = "new" /\ (project.reset # "none" => database = {})
    BY <1>2, <1>3 DEF Heads
<1>6. Types'
    <2>1. trace' \in Seq(Steps)
        BY <1>1, <1>2, Marked DEF Steps
    <2>2. database' \subseteq {"local", "old", "new"}
        BY <1>1, <1>2, <1>5 DEF Types
    <2> QED
        BY <1>1, <1>2, <1>3, <2>1, <2>2 DEF Types
<1>7. ASSUME todo' # <<>>, todo'[1] = "afterRestore" PROVE ~options.dry
    <2>1. Len(todo') \in Nat /\ Len(todo') > 0
        BY <1>3, <1>7, LenProperties, EmptySeq
    <2>2. ~Dry(todo')
        BY <1>7, <2>1 DEF Dry, HookNames
    <2> QED
        BY <1>1, <1>3, <2>2 DEF Lined
<1>8. Heads'
    BY <1>1, <1>3, <1>4, <1>5, <1>7 DEF Heads
<1>9. Borrows'
    BY <1>1, <1>4 DEF Borrows
<1>10. Fresh'
    BY <1>1, <1>2, <1>3 DEF Fresh
<1>11. Complete'
    BY <1>1, <1>2, <1>3, OrdinaryThen
<1>12. Stats' /\ ManifestIsOfThisRun' /\ ScriptNeverPanics'
    BY <1>1, <1>2, ManifestKept DEF Stats, ScriptNeverPanics, At
<1> QED
    BY <1>3, <1>6, <1>8, <1>9, <1>10, <1>11, <1>12 DEF PipeInv

\* One entry goes from the front of what is left of a block.
LEMMA SyncsNext ==
    ASSUME PipeInv, At("sync"), Then(<<>>), UNCHANGED <<project, options>>
    PROVE  /\ batch \in Nat /\ batch + 1 \in 0 .. project.files
           /\ todo' # <<>>
           /\ \/ todo'[1] = "sync" /\ Syncs(todo', 1, project.files - (batch + 1))
              \/ todo'[1] = "release" /\ batch + 1 = project.files
<1>1. /\ Types /\ Lined /\ Heads /\ todo # <<>> /\ todo[1] = "sync" /\ todo \in Seq(Steps)
      /\ todo' \in Seq(Steps)
    BY Pops DEF PipeInv
<1>2. PICK m : m = project.files - batch
    OBVIOUS
<1>3. /\ batch \in 0 .. project.files /\ project.files \in Nat /\ m \in Nat
      /\ Len(todo) \in Nat /\ Len(todo') \in Nat
    BY <1>1, <1>2, BoundsAssumption, LenProperties DEF Types, Projects
<1>4. Syncs(todo, 1, m)
    BY <1>1, <1>2 DEF Heads
<1>5. m > 0
    <2>1. CASE m = 0
        <3>1. todo[1] = "release"
            BY <1>4, <2>1 DEF Syncs
        <3> QED
            BY <1>1, <3>1
    <2> QED
        BY <1>3, <2>1
<1>6. todo' # <<>>
    <2>1. Len(todo) >= 2
        BY <1>3, <1>4, <1>5 DEF Syncs
    <2>2. Len(todo') = Len(todo) - 1
        BY <1>1, EmptySeq, Replaced DEF Then
    <2>3. Len(todo') > 0 /\ Len(<<>>) = 0
        BY <1>3, <2>1, <2>2, EmptySeq
    <2>4. ASSUME todo' = <<>> PROVE FALSE
        BY <2>3, <2>4
    <2> QED
        BY <2>4
<1>7. Syncs(todo', 1, m - 1)
    BY <1>1, <1>3, <1>4, <1>5, <1>6, Popped
<1>8. m - 1 = project.files - (batch + 1) /\ batch + 1 \in 0 .. project.files
    BY <1>2, <1>3, <1>5
<1>9. IF m - 1 = 0 THEN todo'[1] = "release" ELSE todo'[1] = "sync"
    <2>1. CASE m - 1 = 0
        BY <1>7, <2>1 DEF Syncs
    <2>2. CASE m - 1 # 0
        <3>1. 1 \in 1 .. 1 + (m - 1) - 1
            BY <1>3, <1>5, <2>2
        <3> QED
            BY <1>7, <2>2, <3>1 DEF Syncs
    <2> QED
        BY <2>1, <2>2
<1> QED
    BY <1>3, <1>6, <1>7, <1>8, <1>9

LEMMA SyncStep == ASSUME PipeInv, Sync PROVE PipeInv'
<1>1. /\ At("sync") /\ Then(<<>>)
      /\ borrowed' = TRUE /\ batch' = batch + 1
      /\ synced' = (IF options.dry THEN synced ELSE synced \cup {batch'})
      /\ UNCHANGED <<project, options, calls, loaded, outcome, trace, dump, database,
                     fileStats, manifest>>
    BY DEF Sync
<1>2. /\ Types /\ Complete /\ Stats /\ Fresh /\ ManifestIsOfThisRun /\ ScriptNeverPanics
    BY DEF PipeInv
<1>3. /\ todo # <<>> /\ todo[1] = "sync" /\ todo \in Seq(Steps) /\ todo' \in Seq(Steps) /\ Lined'
      /\ <<>> \in Seq(Steps) /\ \A i \in 1 .. Len(<<>>) : <<>>[i] # "manifest"
      /\ Owed(todo, "restore", {"fetch"}) => Owed(todo', "restore", {"fetch"})
    BY <1>1, Pops
<1>4. /\ batch \in Nat /\ batch' \in 0 .. project.files /\ batch' > 0
      /\ todo' # <<>>
      /\ \/ todo'[1] = "sync" /\ Syncs(todo', 1, project.files - batch')
         \/ todo'[1] = "release" /\ batch' = project.files
    BY <1>1, SyncsNext
<1>5. project.files \in Nat /\ batch' \in 1 .. project.files
    BY <1>2, <1>4, BoundsAssumption DEF Types, Projects
<1>6. Types'
    BY <1>1, <1>2, <1>3, <1>5 DEF Types
<1>7. Heads'
    BY <1>1, <1>4 DEF Heads
<1>8. Borrows'
    BY <1>1, <1>4 DEF Borrows
<1>9. Fresh'
    BY <1>1, <1>2, <1>3 DEF Fresh
<1>10. Complete'
    BY <1>1, <1>2, <1>3, OrdinaryThen
<1>11. Stats'
    <2>1. 1 .. batch' = (1 .. batch) \cup {batch'}
        BY <1>1, <1>4
    <2> QED
        BY <1>1, <1>2, <2>1 DEF Stats
<1>12. ManifestIsOfThisRun' /\ ScriptNeverPanics'
    BY <1>1, <1>2 DEF ManifestIsOfThisRun, ScriptNeverPanics, At
<1> QED
    BY <1>3, <1>6, <1>7, <1>8, <1>9, <1>10, <1>11, <1>12 DEF PipeInv

LEMMA ReleaseStep == ASSUME PipeInv, Release PROVE PipeInv'
<1>1. /\ At("release") /\ Then(<<>>) /\ Mark("sync")
      /\ borrowed' = FALSE /\ batch' = 0 /\ fileStats' = 1 .. batch
      /\ UNCHANGED <<project, options, calls, loaded, outcome, dump, database, synced, manifest>>
    BY DEF Release
<1>2. /\ Types /\ Complete /\ Stats /\ Fresh /\ Heads /\ ManifestIsOfThisRun /\ ScriptNeverPanics
    BY DEF PipeInv
<1>3. /\ todo # <<>> /\ todo[1] = "release" /\ todo \in Seq(Steps) /\ todo' \in Seq(Steps) /\ Lined'
      /\ <<>> \in Seq(Steps) /\ \A i \in 1 .. Len(<<>>) : <<>>[i] # "manifest"
      /\ todo' # <<>> =>
            /\ todo'[1] \notin {"fetch", "restore", "afterRestore", "release"}
            /\ todo'[1] = "sync" => Syncs(todo', 1, project.files)
      /\ Owed(todo, "restore", {"fetch"}) => Owed(todo', "restore", {"fetch"})
    BY <1>1, Pops
<1>4. project.files \in Nat /\ batch = project.files /\ fileStats' = 1 .. project.files
    BY <1>1, <1>2, <1>3, BoundsAssumption DEF Types, Projects, Heads
<1>5. Types'
    <2>1. trace' \in Seq(Steps)
        BY <1>1, <1>2, Marked DEF Steps
    <2>2. fileStats' \subseteq 1 .. project.files /\ batch' \in 0 .. project.files
        BY <1>1, <1>4
    <2> QED
        BY <1>1, <1>2, <1>3, <2>1, <2>2 DEF Types
<1>6. Heads'
    <2>1. project.files - batch' = project.files /\ project' = project
        BY <1>1, <1>4
    <2> QED
        BY <1>1, <1>3, <2>1 DEF Heads
<1>7. Borrows'
    BY <1>1 DEF Borrows
<1>8. Fresh'
    BY <1>1, <1>2, <1>3 DEF Fresh
<1>9. Complete'
    <2>1. Owed(<<>>, "manifest", {"database", "fetch"})
        BY <1>3 DEF Owed
    <2> QED
        BY <1>1, <1>2, <1>3, <1>4, <2>1, CompleteThen
<1>10. Stats'
    <2>1. 1 .. batch' = {}
        BY <1>1
    <2> QED
        BY <1>1, <1>2, <2>1 DEF Stats
<1>11. ManifestIsOfThisRun' /\ ScriptNeverPanics'
    BY <1>1, <1>2, ManifestKept DEF ScriptNeverPanics, At
<1> QED
    BY <1>3, <1>5, <1>6, <1>7, <1>8, <1>9, <1>10, <1>11 DEF PipeInv
-------------------------------------------------------------------------------------
(* The script, errors, and the end.                                                  *)

LEMMA CallBackStep == ASSUME PipeInv, NEW action \in Actions, CallBack(action) PROVE PipeInv'
<1>1. /\ At("js") /\ calls > 0 /\ calls' = calls - 1 /\ todo' = <<action>> \o todo
      /\ UNCHANGED <<project, options, borrowed, outcome, dump, database, batch, synced,
                     fileStats, manifest, trace>>
    BY DEF CallBack, effects
<1>2. /\ Types /\ Lined /\ Complete /\ Stats /\ Fresh /\ ManifestIsOfThisRun /\ ScriptNeverPanics
      /\ todo # <<>> /\ todo[1] = "js" /\ todo \in Seq(Steps)
    BY <1>1, FirstStep DEF PipeInv, Types
<1>3. batch = 0 /\ ~borrowed /\ project.files \in Nat
    BY <1>2, NoBatch
<1>4. action \in Steps /\ action \in Quiet \ Inner /\ action \notin {"sync", "restore", "manifest"}
    BY DEF Actions, Steps, Quiet, Inner
<1>5. Shaped(todo, project.files) /\ OneScript(todo) /\ Begins(todo, 1, project.files)
    BY <1>2 DEF Lined, Begins, Inner
<1>6. PICK n : n = project.files
    OBVIOUS
<1>7. /\ todo' \in Seq(Steps) /\ todo' # <<>> /\ todo'[1] = action
      /\ Shaped(todo', n) /\ OneScript(todo') /\ (Dry(todo) => Dry(todo'))
      /\ \A step \in Steps, steps \in SUBSET Steps :
            action # step /\ Owed(todo, step, steps) => Owed(todo', step, steps)
    BY <1>1, <1>2, <1>3, <1>4, <1>5, <1>6, Pushed
<1>8. Types'
    <2>1. calls \in 0 .. MaxCalls /\ MaxCalls \in Nat
        BY <1>2, BoundsAssumption DEF Types
    <2>2. calls' \in 0 .. MaxCalls
        BY <1>1, <2>1
    <2> QED
        BY <1>1, <1>2, <1>7, <2>2 DEF Types
<1>9. Lined'
    BY <1>1, <1>2, <1>6, <1>7 DEF Lined
<1>10. Heads'
    <2>1. todo'[1] \notin {"fetch", "restore", "afterRestore", "release", "sync"}
        BY <1>4, <1>7 DEF Inner
    <2> QED
        BY <2>1 DEF Heads
<1>11. Borrows'
    BY <1>1, <1>3 DEF Borrows
<1>12. Fresh'
    <2>1. "restore" \in Steps /\ {"fetch"} \in SUBSET Steps
        BY DEF Steps
    <2>2. Owed(todo, "restore", {"fetch"}) => Owed(todo', "restore", {"fetch"})
        BY <1>4, <1>7, <2>1
    <2> QED
        BY <1>1, <1>2, <2>2 DEF Fresh
<1>13. Complete'
    <2>1. "manifest" \in Steps /\ {"database", "fetch"} \in SUBSET Steps
          /\ {"files", "release"} \in SUBSET Steps
        BY DEF Steps
    <2>2. /\ Owed(todo, "manifest", {"database", "fetch"}) => Owed(todo', "manifest", {"database", "fetch"})
          /\ Owed(todo, "manifest", {"files", "release"}) => Owed(todo', "manifest", {"files", "release"})
        BY <1>4, <1>7, <2>1
    <2> QED
        BY <1>1, <1>2, <2>2 DEF Complete
<1>14. Stats' /\ ManifestIsOfThisRun' /\ ScriptNeverPanics'
    BY <1>1, <1>2, ManifestKept DEF Stats, ScriptNeverPanics, At
<1> QED
    BY <1>8, <1>9, <1>10, <1>11, <1>12, <1>13, <1>14 DEF PipeInv

LEMMA CommandStep == ASSUME PipeInv, NEW command \in Commands, Command(command) PROVE PipeInv'
<1>1. /\ calls > 0 /\ calls' = calls - 1
      /\ UNCHANGED <<project, options, todo, loaded, borrowed, outcome, dump, database, batch,
                     synced, fileStats, manifest, trace>>
    BY DEF Command, effects
<1>2. calls \in 0 .. MaxCalls /\ MaxCalls \in Nat
    BY BoundsAssumption DEF PipeInv, Types
<1>3. calls' \in 0 .. MaxCalls
    BY <1>1, <1>2
<1>4. Types' /\ Lined' /\ Heads' /\ Borrows'
    BY <1>1, <1>3 DEF PipeInv, Types, Lined, Heads, Borrows
<1>5. Fresh' /\ Complete' /\ Stats'
    BY <1>1 DEF PipeInv, Fresh, Complete, Stats
<1>6. ManifestIsOfThisRun' /\ ScriptNeverPanics'
    BY <1>1 DEF PipeInv, ManifestIsOfThisRun, ScriptNeverPanics
<1> QED
    BY <1>4, <1>5, <1>6 DEF PipeInv

LEMMA ExitStep == ASSUME PipeInv, Exit PROVE PipeInv'
<1>1. /\ outcome' = "ok"
      /\ UNCHANGED <<project, options, todo, calls, loaded, borrowed, dump, database, batch,
                     synced, fileStats, manifest, trace>>
    BY DEF Exit, effects
<1>2. Types' /\ Lined' /\ Heads' /\ Borrows'
    BY <1>1 DEF PipeInv, Types, Lined, Heads, Borrows
<1>3. Fresh' /\ Complete' /\ Stats'
    BY <1>1 DEF PipeInv, Fresh, Complete, Stats
<1>4. ManifestIsOfThisRun' /\ ScriptNeverPanics'
    BY <1>1 DEF PipeInv, ManifestIsOfThisRun, ScriptNeverPanics
<1> QED
    BY <1>2, <1>3, <1>4 DEF PipeInv

\* Nothing is left to do, and nobody has the state.
LEMMA Ends ==
    ASSUME PipeInv, todo' = <<>>, batch' = 0, ~borrowed',
           outcome' \in {"failed", "panic"}, loaded' => outcome' # "panic",
           UNCHANGED <<project, options, calls, trace, dump, database, synced, fileStats, manifest>>
    PROVE  PipeInv'
<1>1. todo' \in Seq(Steps) /\ Len(todo') = 0 /\ project.files \in Nat /\ 1 .. 0 = {}
    BY EmptySeq, BoundsAssumption DEF PipeInv, Types, Projects
<1>2. Types'
    BY <1>1 DEF PipeInv, Types
<1>3. Lined'
    BY <1>1 DEF Lined, Shaped, OneScript, Dry
<1>4. Heads' /\ Borrows'
    BY DEF Heads, Borrows
<1>5. Fresh' /\ Complete'
    BY <1>1 DEF PipeInv, Fresh, Complete, Owed
<1>6. Stats'
    BY <1>1 DEF PipeInv, Stats
<1>7. ManifestIsOfThisRun' /\ ScriptNeverPanics'
    BY ManifestKept DEF PipeInv, ScriptNeverPanics
<1> QED
    BY <1>2, <1>3, <1>4, <1>5, <1>6, <1>7 DEF PipeInv

LEMMA PanicStep == ASSUME PipeInv, NEW action, Panic(action) PROVE PipeInv'
<1>1. /\ At("js") /\ (IF loaded THEN borrowed ELSE action = "clone_files")
      /\ outcome' = "panic" /\ todo' = <<>>
      /\ UNCHANGED <<project, options, calls, loaded, borrowed, dump, database, batch, synced,
                     fileStats, manifest, trace>>
    BY DEF Panic, effects
<1>2. todo # <<>> /\ todo[1] = "js"
    BY <1>1, FirstStep DEF PipeInv
<1>3. batch = 0 /\ ~borrowed
    BY <1>2, NoBatch
<1>4. loaded' => outcome' # "panic"
    BY <1>1, <1>3
<1> QED
    BY <1>1, <1>3, <1>4, Ends

\* An error that a function catches drops the steps that stand before it.
LEMMA Raised ==
    ASSUME PipeInv, outcome = "running", Raise,
           UNCHANGED <<project, options, calls, loaded, trace, dump, database, synced, fileStats,
                       manifest>>
    PROVE  PipeInv'
<1>1. batch' = 0 /\ borrowed' = FALSE
    BY DEF Raise
<1>2. CASE outcome' = "failed" /\ todo' = <<>>
    BY <1>1, <1>2, Ends
<1>3. ASSUME NEW p \in 1 .. Len(todo), todo[p] = "js", todo' = SubSeq(todo, p, Len(todo)),
             UNCHANGED outcome
      PROVE  PipeInv'
    <2>1. /\ Types /\ Lined /\ Complete /\ Stats /\ Fresh /\ ManifestIsOfThisRun
          /\ todo \in Seq(Steps)
        BY DEF PipeInv, Types
    <2>2. PICK n : n = project.files
        OBVIOUS
    <2>3. n \in Nat /\ Shaped(todo, n) /\ OneScript(todo)
        BY <2>1, <2>2, BoundsAssumption DEF Types, Projects, Lined
    <2>4. todo' \in Seq(Steps) /\ todo' # <<>>
        BY <1>3, <2>1, Dropped
    <2>5. /\ todo'[1] = "js" /\ Shaped(todo', n) /\ OneScript(todo') /\ (Dry(todo) => Dry(todo'))
          /\ \A step \in Steps, steps \in SUBSET Steps :
                "js" # step /\ Owed(todo, step, steps) => Owed(todo', step, steps)
        BY <1>3, <2>1, <2>3, AfterDrop
    <2>6. Types'
        BY <1>1, <1>3, <2>1, <2>2, <2>3, <2>4 DEF Types
    <2>7. Lined'
        BY <2>1, <2>2, <2>5 DEF Lined
    <2>8. Heads' /\ Borrows'
        BY <1>1, <2>5 DEF Heads, Borrows
    <2>9. Fresh'
        <3>1. "restore" \in Steps /\ {"fetch"} \in SUBSET Steps
            BY DEF Steps
        <3>2. Owed(todo, "restore", {"fetch"}) => Owed(todo', "restore", {"fetch"})
            BY <2>5, <3>1
        <3> QED
            BY <2>1, <3>2 DEF Fresh
    <2>10. Complete'
        <3>1. "manifest" \in Steps /\ {"database", "fetch"} \in SUBSET Steps
              /\ {"files", "release"} \in SUBSET Steps
            BY DEF Steps
        <3>2. /\ Owed(todo, "manifest", {"database", "fetch"})
                    => Owed(todo', "manifest", {"database", "fetch"})
              /\ Owed(todo, "manifest", {"files", "release"})
                    => Owed(todo', "manifest", {"files", "release"})
            BY <2>5, <3>1
        <3> QED
            BY <2>1, <3>2 DEF Complete
    <2>11. Stats'
        <3>1. 1 .. batch' = {}
            BY <1>1
        <3> QED
            BY <2>1, <3>1 DEF Stats
    <2>12. ManifestIsOfThisRun' /\ ScriptNeverPanics'
        BY <1>3, <2>1, ManifestKept DEF ScriptNeverPanics
    <2> QED
        BY <2>6, <2>7, <2>8, <2>9, <2>10, <2>11, <2>12 DEF PipeInv
<1> QED
    BY <1>2, <1>3 DEF Raise

LEMMA FailSteps == ASSUME PipeInv, Fail \/ Throw PROVE PipeInv'
<1>1. Raise /\ UNCHANGED <<project, options, calls, loaded, trace, dump, database, synced,
                           fileStats, manifest>>
    BY DEF Fail, Throw
<1>2. outcome = "running"
    BY DEF Fail, Throw, At
<1> QED
    BY <1>1, <1>2, Raised

LEMMA InitPipe == Init => PipeInv
<1> SUFFICES ASSUME Init PROVE PipeInv
    OBVIOUS
<1>1. /\ todo = <<"js", "build">> /\ calls = MaxCalls /\ outcome = "running"
      /\ project \in Projects /\ options \in RunOptions
      /\ ~borrowed /\ dump \in {"none", "old"} /\ database = {"local"} /\ batch = 0
      /\ synced = {} /\ fileStats = {} /\ manifest = NoManifest /\ trace = <<>>
    BY DEF Init, Projects
<1>2. /\ Len(todo) = 2 /\ todo[1] = "js" /\ todo[2] = "build" /\ todo # <<>>
      /\ todo \in Seq(Steps) /\ trace \in Seq(Steps)
    BY <1>1 DEF Steps
<1>3. project.files \in Nat /\ 1 .. 0 = {}
    BY <1>1, BoundsAssumption DEF Projects
<1>4. Types
    BY <1>1, <1>2, <1>3, BoundsAssumption DEF Types
<1>5. Lined
    BY <1>2 DEF Lined, Shaped, Placed, OneScript, Dry, HookNames
<1>6. Heads /\ Borrows
    BY <1>1, <1>2 DEF Heads, Borrows
<1>7. Fresh /\ Complete
    BY <1>1, <1>2 DEF Fresh, Complete, Owed
<1>8. Stats
    BY <1>1, <1>3 DEF Stats
<1>9. ManifestIsOfThisRun /\ ScriptNeverPanics
    BY <1>1 DEF ManifestIsOfThisRun, ScriptNeverPanics
<1> QED
    BY <1>4, <1>5, <1>6, <1>7, <1>8, <1>9 DEF PipeInv

LEMMA PipeStep == PipeInv /\ [Next]_vars => PipeInv'
<1> SUFFICES ASSUME PipeInv, [Next]_vars PROVE PipeInv'
    OBVIOUS
<1>1. CASE Build
    BY <1>1, BuildStep
<1>2. CASE Enter
    BY <1>2, EnterStep
<1>3. CASE Dump \/ Fetch \/ Reset \/ Restore
    BY <1>3, DumpStep, FetchStep, ResetStep, RestoreStep
<1>4. CASE Sync \/ Release
    BY <1>4, SyncStep, ReleaseStep
<1>5. CASE WriteManifest \/ Return \/ Exit
    BY <1>5, WriteManifestStep, ReturnStep, ExitStep
<1>6. CASE Fail \/ Throw
    BY <1>6, FailSteps
<1>7. CASE \E name \in HookNames \cup {"execute"} : Call(name)
    BY <1>7, CallStep
<1>8. CASE \E action \in Actions : CallBack(action)
    BY <1>8, CallBackStep
<1>9. CASE \E command \in Commands : Command(command)
    BY <1>9, CommandStep
<1>10. CASE \E call \in Actions \cup Commands : Panic(call)
    BY <1>10, PanicStep
<1>11. CASE UNCHANGED vars
    <2>1. UNCHANGED <<project, options, todo, calls, loaded, borrowed, outcome, dump, database,
                      batch, synced, fileStats, manifest, trace>>
        BY <1>11 DEF vars, control, effects
    <2>2. Types' /\ Lined' /\ Heads' /\ Borrows'
        BY <2>1 DEF PipeInv, Types, Lined, Heads, Borrows
    <2>3. Fresh' /\ Complete' /\ Stats'
        BY <2>1 DEF PipeInv, Fresh, Complete, Stats
    <2>4. ManifestIsOfThisRun' /\ ScriptNeverPanics'
        BY <2>1 DEF PipeInv, ManifestIsOfThisRun, ScriptNeverPanics
    <2> QED
        BY <2>2, <2>3, <2>4 DEF PipeInv
<1> QED
    BY <1>1, <1>2, <1>3, <1>4, <1>5, <1>6, <1>7, <1>8, <1>9, <1>10, <1>11 DEF Next

LEMMA PipeAlways == Spec => []PipeInv
<1> QED
    BY InitPipe, PipeStep, PTL DEF Spec

\* Steps in front of a running function are quiet, and "js" is not.
LEMMA OneFunction ==
    ASSUME Types, Lined
    PROVE  Cardinality({i \in 1 .. Len(todo) : todo[i] = "js"}) <= 1
<1> DEFINE running == {i \in 1 .. Len(todo) : todo[i] = "js"}
<1>1. \A i, j \in running : ~(i < j)
    BY DEF Lined, OneScript, Quiet, Actions
<1>2. \A i, j \in running : i = j
    <2>1. running \subseteq Int
        OBVIOUS
    <2> QED
        BY <1>1, <2>1
<1>3. CASE running = {}
    BY <1>3, FS_EmptySet
<1>4. CASE running # {}
    <2>1. PICK i : running = {i}
        BY <1>2, <1>4
    <2>2. Cardinality({i}) = 1
        BY FS_Singleton
    <2> HIDE DEF running
    <2>3. Cardinality(running) <= 1
        BY <2>1, <2>2
    <2> QED
        BY <2>3 DEF running
<1> QED
    BY <1>3, <1>4
-------------------------------------------------------------------------------------
(* The diagram.  A place is a position in it.                                        *)

Place(step) ==
    CASE step = "beforeAll" -> 1     [] step = "beforeDatabase" -> 2
      [] step = "beforeRestore" -> 3 [] step = "restore" -> 4
      [] step = "afterRestore" -> 5  [] step = "afterDatabase" -> 6
      [] step = "beforeFiles" -> 7   [] step = "sync" -> 8
      [] step = "afterFiles" -> 9    [] step = "afterAll" -> 10
      [] step = "extension" -> 11    [] OTHER -> 0

\* The places that a step of the default pipeline still fills, itself or with the steps it
\* is made of.
Fills(step) ==
    CASE step = "build" -> 1 .. 11
      [] step = "database" -> 2 .. 6
      [] step = "files" -> 7 .. 9
      [] step = "release" -> {8}
      [] step \in HookNames \cup {"restore"} -> {Place(step)}
      [] OTHER -> {}

\* From position i on, s is the pipeline's own: no function that runs has it in hand.
Own(s, i) == \A j \in i .. Len(s) : s[j] # "js"

\* Own steps fill later places than those before them, and are all in L.
Queued(s, L) ==
    /\ \A i, j \in 1 .. Len(s) :
          i < j /\ Own(s, i) => \A p \in Fills(s[i]), q \in Fills(s[j]) : p < q
    /\ \A i \in 1 .. Len(s) : Own(s, i) => s[i] \in L

\* Places to come.
Left(s) == {p \in 1 .. 11 : \E i \in 1 .. Len(s) : Own(s, i) /\ p \in Fills(s[i])}

\* Places behind.
Done(tr) == {Place(tr[k]) : k \in 1 .. Len(tr)}

\* A trace through the diagram that leaves out none of the places in W before its last.
Traces(tr, W) ==
    /\ \A k \in 1 .. Len(tr) : Place(tr[k]) \in W /\ tr[k] = Diagram[Place(tr[k])]
    /\ \A k, l \in 1 .. Len(tr) : k < l => Place(tr[k]) < Place(tr[l])
    /\ \A p \in W, q \in Done(tr) : p < q => p \in Done(tr)

\* u does what a step that fills the places of C stands for.
Stands(u, C, W, L) ==
    /\ \A i \in 1 .. Len(u) : u[i] # "js" /\ u[i] \in L /\ Fills(u[i]) \subseteq C
    /\ \A i, j \in 1 .. Len(u) : i < j => \A p \in Fills(u[i]), q \in Fills(u[j]) : p < q
    /\ \A p \in C \cap W : \E i \in 1 .. Len(u) : p \in Fills(u[i])

\* The places that this run is to fill.
Wanted == {p \in 1 .. 11 : Applies(Diagram[p])}

\* What the default pipeline of this run may be made of.
Lawful ==
    {step \in Steps :
        /\ step \notin {"execute", "clone_db", "clone_files", "clone_all"}
        /\ step \in project.hooks \cup {"restore"} => Applies(step)
        /\ step = "release" => Applies("sync")
        /\ step = "database" => ~options.skipDatabase
        /\ step = "files" => ~options.skipFiles}

\* The trace so far, and behind it, in the order of the diagram, what is left of it; as
\* long as nothing has failed, nothing is missing.
Diagrammed ==
    project.execute = FALSE /\ options.mode # "validate" =>
        /\ Queued(todo, Lawful)
        /\ Traces(trace, Wanted)
        /\ \A p \in Done(trace), q \in Left(todo) : p < q
        /\ outcome \in {"running", "ok"} => Wanted \subseteq Done(trace) \cup Left(todo)
        /\ outcome = "ok" => todo = <<>>

LEMMA FillsAre ==
    /\ \A step \in Steps : Fills(step) \subseteq 1 .. 11
    /\ Fills("js") = {} /\ Fills("build") = 1 .. 11
    /\ Fills("database") = 2 .. 6 /\ Fills("files") = 7 .. 9 /\ Fills("release") = {8}
    /\ \A step \in HookNames \cup {"restore"} : Fills(step) = {Place(step)}
    /\ \A step \in {"execute", "clone_db", "clone_files", "clone_all", "reset", "dump", "fetch",
                    "sync", "manifest"} : Fills(step) = {}
<1>1. /\ Fills("js") = {} /\ Fills("build") = 1 .. 11
      /\ Fills("database") = 2 .. 6 /\ Fills("files") = 7 .. 9 /\ Fills("release") = {8}
    BY DEF Fills, HookNames
<1>2. \A step \in HookNames \cup {"restore"} :
            Fills(step) = {Place(step)} /\ Place(step) \in 1 .. 11
    BY DEF Fills, Place, HookNames
<1>3. \A step \in {"execute", "clone_db", "clone_files", "clone_all", "reset", "dump", "fetch",
                   "sync", "manifest"} : Fills(step) = {}
    BY DEF Fills, HookNames
<1>4. ASSUME NEW step \in Steps PROVE Fills(step) \subseteq 1 .. 11
    <2>1. step \in HookNames \cup {"restore"} \cup
            {"execute", "clone_db", "clone_files", "clone_all", "reset", "dump", "fetch",
             "sync", "manifest"} \cup {"js", "build", "database", "files", "release"}
        BY DEF Steps, Actions
    <2>2. CASE step \in HookNames \cup {"restore"}
        BY <1>2, <2>2
    <2>3. CASE step \in {"js", "build", "database", "files", "release"}
        BY <1>1, <2>3
    <2>4. CASE step \in {"execute", "clone_db", "clone_files", "clone_all", "reset", "dump",
                         "fetch", "sync", "manifest"}
        BY <1>3, <2>4
    <2> QED
        BY <2>1, <2>2, <2>3, <2>4
<1> QED
    BY <1>1, <1>2, <1>3, <1>4

LEMMA PlacesAre ==
    /\ \A step \in HookNames \cup {"restore", "sync"} :
            Place(step) \in 1 .. 11 /\ Diagram[Place(step)] = step
    /\ \A p \in 1 .. 11 : Place(Diagram[p]) = p
    /\ Len(Diagram) = 11
<1>1. /\ Place("beforeAll") = 1 /\ Place("beforeDatabase") = 2 /\ Place("beforeRestore") = 3
      /\ Place("restore") = 4 /\ Place("afterRestore") = 5 /\ Place("afterDatabase") = 6
      /\ Place("beforeFiles") = 7 /\ Place("sync") = 8 /\ Place("afterFiles") = 9
      /\ Place("afterAll") = 10 /\ Place("extension") = 11
    BY DEF Place
<1>2. /\ Diagram[1] = "beforeAll" /\ Diagram[2] = "beforeDatabase"
      /\ Diagram[3] = "beforeRestore" /\ Diagram[4] = "restore" /\ Diagram[5] = "afterRestore"
      /\ Diagram[6] = "afterDatabase" /\ Diagram[7] = "beforeFiles" /\ Diagram[8] = "sync"
      /\ Diagram[9] = "afterFiles" /\ Diagram[10] = "afterAll" /\ Diagram[11] = "extension"
      /\ Len(Diagram) = 11
    BY DEF Diagram
<1>3. \A p \in 1 .. 11 : Place(Diagram[p]) = p
    <2> TAKE p \in 1 .. 11
    <2>1. p \in {1, 2, 3, 4, 5, 6, 7, 8, 9, 10, 11}
        OBVIOUS
    <2> QED
        BY <1>1, <1>2, <2>1
<1>4. \A step \in HookNames \cup {"restore", "sync"} :
            Place(step) \in 1 .. 11 /\ Diagram[Place(step)] = step
    <2> TAKE step \in HookNames \cup {"restore", "sync"}
    <2>1. step \in {"beforeAll", "beforeDatabase", "beforeRestore", "restore", "afterRestore",
                    "afterDatabase", "beforeFiles", "sync", "afterFiles", "afterAll", "extension"}
        BY DEF HookNames
    <2> QED
        BY <1>1, <1>2, <2>1
<1> QED
    BY <1>2, <1>3, <1>4

\* In t, u has taken the place of the first step of s.
Taken(t, u, s) ==
    /\ t \in Seq(Steps)
    /\ Len(u) \in Nat /\ Len(s) \in Nat /\ Len(s) > 0 /\ Len(t) = Len(u) + Len(s) - 1
    /\ \A i \in 2 .. Len(s) :
         /\ Len(u) + i - 1 \in 1 .. Len(t) /\ t[Len(u) + i - 1] = s[i]
         /\ Own(t, Len(u) + i - 1) <=> Own(s, i)
    /\ \A i \in 1 .. Len(u) :
         /\ i \in 1 .. Len(t) /\ t[i] = u[i]
         /\ Own(t, i) <=> Own(u, i) /\ \A j \in 2 .. Len(s) : s[j] # "js"
    /\ \A i \in 1 .. Len(t) :
         i \in 1 .. Len(u) \/ (i - Len(u) + 1 \in 2 .. Len(s)
                               /\ Len(u) + (i - Len(u) + 1) - 1 = i)

LEMMA OwnThen ==
    ASSUME NEW u \in Seq(Steps), NEW s \in Seq(Steps), s # <<>>, NEW t, t = u \o Tail(s)
    PROVE  Taken(t, u, s)
<1>1. /\ t \in Seq(Steps)
      /\ Len(u) \in Nat /\ Len(s) \in Nat /\ Len(s) > 0 /\ Len(t) = Len(u) + Len(s) - 1
      /\ \A i \in 1 .. Len(u) : t[i] = u[i]
      /\ \A i \in 2 .. Len(s) : t[Len(u) + i - 1] = s[i]
      /\ \A i \in Len(u) + 1 .. Len(t) : t[i] = s[i - Len(u) + 1]
    BY Replaced
<1>2. ASSUME NEW i \in 2 .. Len(s)
      PROVE  /\ Len(u) + i - 1 \in 1 .. Len(t)
             /\ Own(t, Len(u) + i - 1) <=> Own(s, i)
    <2>1. \A j \in i .. Len(s) : j \in 2 .. Len(s) /\ Len(u) + j - 1 \in Len(u) + i - 1 .. Len(t)
        BY <1>1
    <2>2. \A j \in Len(u) + i - 1 .. Len(t) :
                j \in Len(u) + 1 .. Len(t) /\ j - Len(u) + 1 \in i .. Len(s)
        BY <1>1
    <2>3. Own(t, Len(u) + i - 1) => Own(s, i)
        BY <1>1, <2>1 DEF Own
    <2>4. Own(s, i) => Own(t, Len(u) + i - 1)
        BY <1>1, <2>2 DEF Own
    <2> QED
        BY <1>1, <2>3, <2>4
<1>3. ASSUME NEW i \in 1 .. Len(u)
      PROVE  /\ i \in 1 .. Len(t)
             /\ Own(t, i) <=> Own(u, i) /\ \A j \in 2 .. Len(s) : s[j] # "js"
    <2>1. /\ i \in 1 .. Len(t)
          /\ \A j \in i .. Len(u) : j \in 1 .. Len(u) /\ j \in i .. Len(t)
          /\ \A j \in 2 .. Len(s) : Len(u) + j - 1 \in i .. Len(t)
          /\ \A j \in i .. Len(t) : j \in i .. Len(u) \/ j \in Len(u) + 1 .. Len(t)
          /\ \A j \in Len(u) + 1 .. Len(t) : j - Len(u) + 1 \in 2 .. Len(s)
        BY <1>1
    <2>2. Own(t, i) => Own(u, i)
        BY <1>1, <2>1 DEF Own
    <2>3. ASSUME Own(t, i), NEW j \in 2 .. Len(s) PROVE s[j] # "js"
        <3>1. Len(u) + j - 1 \in i .. Len(t) /\ t[Len(u) + j - 1] = s[j]
            BY <1>1, <2>1
        <3> QED
            BY <2>3, <3>1 DEF Own
    <2>4. Own(u, i) /\ (\A j \in 2 .. Len(s) : s[j] # "js") => Own(t, i)
        BY <1>1, <2>1 DEF Own
    <2> QED
        BY <2>1, <2>2, <2>3, <2>4
<1>4. \A i \in 1 .. Len(t) :
            i \in 1 .. Len(u) \/ (i - Len(u) + 1 \in 2 .. Len(s)
                                  /\ Len(u) + (i - Len(u) + 1) - 1 = i)
    BY <1>1
<1> QED
    BY <1>1, <1>2, <1>3, <1>4 DEF Taken

LEMMA OwnFirst ==
    ASSUME NEW s \in Seq(Steps), s # <<>>
    PROVE  Own(s, 1) <=> s[1] # "js" /\ \A j \in 2 .. Len(s) : s[j] # "js"
<1>1. Len(s) \in Nat /\ Len(s) > 0
    BY LenProperties, EmptySeq
<1>2. 1 \in 1 .. Len(s) /\ (\A j \in 2 .. Len(s) : j \in 1 .. Len(s))
      /\ \A j \in 1 .. Len(s) : j = 1 \/ j \in 2 .. Len(s)
    BY <1>1
<1> QED
    BY <1>2 DEF Own

\* A step gives way to what it stands for, or a function that returns to nothing.
LEMMA Given ==
    ASSUME NEW u \in Seq(Steps), NEW s \in Seq(Steps), s # <<>>, NEW t, t = u \o Tail(s),
           NEW W, NEW L, Queued(s, L), s[1] = "js" => u = <<>>,
           Own(s, 1) => Stands(u, Fills(s[1]), W, L)
    PROVE  Queued(t, L) /\ Left(t) \subseteq Left(s) /\ Left(s) \cap W \subseteq Left(t)
<1>1. /\ t \in Seq(Steps)
      /\ Len(u) \in Nat /\ Len(s) \in Nat /\ Len(s) > 0 /\ Len(t) = Len(u) + Len(s) - 1
      /\ \A i \in 2 .. Len(s) :
            /\ Len(u) + i - 1 \in 1 .. Len(t) /\ t[Len(u) + i - 1] = s[i]
            /\ Own(t, Len(u) + i - 1) <=> Own(s, i)
      /\ \A i \in 1 .. Len(u) :
            /\ i \in 1 .. Len(t) /\ t[i] = u[i]
            /\ Own(t, i) <=> Own(u, i) /\ \A j \in 2 .. Len(s) : s[j] # "js"
      /\ \A i \in 1 .. Len(t) :
            i \in 1 .. Len(u) \/ (i - Len(u) + 1 \in 2 .. Len(s)
                                  /\ Len(u) + (i - Len(u) + 1) - 1 = i)
    <2>1. Taken(t, u, s)
        BY OwnThen
    <2> QED
        BY <2>1 DEF Taken
<1>2. Own(s, 1) <=> s[1] # "js" /\ \A j \in 2 .. Len(s) : s[j] # "js"
    BY OwnFirst
<1>3. \A i \in 1 .. Len(u) : Own(t, i) => Own(s, 1) /\ s[1] # "js"
    <2> TAKE i \in 1 .. Len(u)
    <2>1. u # <<>>
        BY EmptySeq
    <2> QED
        BY <1>1, <1>2, <2>1
<1>4. ASSUME NEW i \in 1 .. Len(t), Own(t, i), i \notin 1 .. Len(u)
      PROVE  \E m \in 2 .. Len(s) : i = Len(u) + m - 1 /\ t[i] = s[m] /\ Own(s, m)
    <2>1. PICK m : m = i - Len(u) + 1
        OBVIOUS
    <2>2. m \in 2 .. Len(s) /\ i = Len(u) + m - 1
        BY <1>1, <1>4, <2>1
    <2>3. t[Len(u) + m - 1] = s[m] /\ (Own(t, Len(u) + m - 1) <=> Own(s, m))
        BY <1>1, <2>2
    <2> QED
        BY <1>4, <2>2, <2>3
<1>5. ASSUME NEW i \in 1 .. Len(t), NEW j \in 1 .. Len(t), i < j, Own(t, i),
             NEW p \in Fills(t[i]), NEW q \in Fills(t[j])
      PROVE  p < q
    <2>1. CASE i \in 1 .. Len(u) /\ j \in 1 .. Len(u)
        <3>1. t[i] = u[i] /\ t[j] = u[j] /\ Stands(u, Fills(s[1]), W, L)
            BY <1>1, <1>3, <1>5, <2>1
        <3> QED
            BY <1>5, <2>1, <3>1 DEF Stands
    <2>2. CASE i \in 1 .. Len(u) /\ j \notin 1 .. Len(u)
        <3>1. j - Len(u) + 1 \in 2 .. Len(s) /\ Len(u) + (j - Len(u) + 1) - 1 = j
            BY <1>1, <2>2
        <3>2. PICK m \in 2 .. Len(s) : t[j] = s[m]
            BY <1>1, <3>1
        <3>3. Own(s, 1) /\ p \in Fills(s[1])
            BY <1>1, <1>3, <1>5, <2>2 DEF Stands
        <3>4. 1 \in 1 .. Len(s) /\ m \in 1 .. Len(s) /\ 1 < m
            BY <1>1
        <3> QED
            BY <1>5, <3>2, <3>3, <3>4 DEF Queued
    <2>3. CASE i \notin 1 .. Len(u)
        <3>1. PICK k \in 2 .. Len(s) : i = Len(u) + k - 1 /\ t[i] = s[k] /\ Own(s, k)
            BY <1>4, <1>5, <2>3
        <3>2. j - Len(u) + 1 \in 2 .. Len(s) /\ Len(u) + (j - Len(u) + 1) - 1 = j
            BY <1>1, <1>5, <2>3
        <3>3. PICK m \in 2 .. Len(s) : j = Len(u) + m - 1 /\ t[j] = s[m]
            <4>1. PICK m : m = j - Len(u) + 1
                OBVIOUS
            <4>2. m \in 2 .. Len(s) /\ j = Len(u) + m - 1
                BY <3>2, <4>1
            <4>3. t[Len(u) + m - 1] = s[m]
                BY <1>1, <4>2
            <4> QED
                BY <4>2, <4>3
        <3>4. k \in 1 .. Len(s) /\ m \in 1 .. Len(s) /\ k < m
            BY <1>1, <1>5, <3>1, <3>3
        <3> QED
            BY <1>5, <3>1, <3>3, <3>4 DEF Queued
    <2> QED
        BY <2>1, <2>2, <2>3
<1>6. ASSUME NEW i \in 1 .. Len(t), Own(t, i) PROVE t[i] \in L
    <2>1. CASE i \in 1 .. Len(u)
        BY <1>1, <1>3, <1>6, <2>1 DEF Stands
    <2>2. CASE i \notin 1 .. Len(u)
        <3>1. PICK k \in 2 .. Len(s) : t[i] = s[k] /\ Own(s, k)
            BY <1>4, <1>6, <2>2
        <3>2. k \in 1 .. Len(s)
            BY <1>1
        <3> QED
            BY <3>1, <3>2 DEF Queued
    <2> QED
        BY <2>1, <2>2
<1>7. ASSUME NEW p \in Left(t) PROVE p \in Left(s)
    <2>1. PICK i \in 1 .. Len(t) : Own(t, i) /\ p \in Fills(t[i])
        BY DEF Left
    <2>2. CASE i \in 1 .. Len(u)
        <3>1. Own(s, 1) /\ p \in Fills(s[1]) /\ 1 \in 1 .. Len(s)
            BY <1>1, <1>3, <2>1, <2>2 DEF Stands
        <3> QED
            BY <3>1 DEF Left
    <2>3. CASE i \notin 1 .. Len(u)
        <3>1. PICK k \in 2 .. Len(s) : t[i] = s[k] /\ Own(s, k)
            BY <1>4, <2>1, <2>3
        <3>2. k \in 1 .. Len(s)
            BY <1>1
        <3> QED
            BY <2>1, <3>1, <3>2 DEF Left
    <2> QED
        BY <2>2, <2>3
<1>8. ASSUME NEW p \in Left(s) \cap W PROVE p \in Left(t)
    <2>1. PICK k \in 1 .. Len(s) : Own(s, k) /\ p \in Fills(s[k])
        BY DEF Left
    <2>2. CASE k = 1
        <3>1. Own(s, 1) /\ p \in Fills(s[1])
            BY <2>1, <2>2
        <3>2. PICK i \in 1 .. Len(u) : p \in Fills(u[i])
            BY <1>8, <3>1 DEF Stands
        <3>3. \A j \in i .. Len(u) : j \in 1 .. Len(u)
            BY <1>1
        <3>4. Own(u, i)
            BY <3>1, <3>3 DEF Own, Stands
        <3>5. Own(t, i) /\ i \in 1 .. Len(t) /\ t[i] = u[i]
            BY <1>1, <1>2, <3>1, <3>4
        <3> QED
            BY <3>2, <3>5 DEF Left
    <2>3. CASE k # 1
        <3>1. k \in 2 .. Len(s)
            BY <1>1, <2>3
        <3>2. Len(u) + k - 1 \in 1 .. Len(t) /\ t[Len(u) + k - 1] = s[k] /\ Own(t, Len(u) + k - 1)
            BY <1>1, <2>1, <3>1
        <3> QED
            BY <2>1, <3>2 DEF Left
    <2> QED
        BY <2>2, <2>3
<1> QED
    BY <1>5, <1>6, <1>7, <1>8 DEF Queued

\* An own step is done, if need be by a function that runs now.
LEMMA Consumed ==
    ASSUME NEW u \in Seq(Steps), NEW s \in Seq(Steps), s # <<>>, NEW t, t = u \o Tail(s),
           NEW L, Queued(s, L), Own(s, 1), \A i \in 1 .. Len(u) : u[i] = "js"
    PROVE  /\ Queued(t, L)
           /\ Left(s) \subseteq Left(t) \cup Fills(s[1])
           /\ \A p \in Fills(s[1]), q \in Left(t) : p < q
           /\ Left(t) \subseteq Left(s)
<1>1. /\ t \in Seq(Steps)
      /\ Len(u) \in Nat /\ Len(s) \in Nat /\ Len(s) > 0 /\ Len(t) = Len(u) + Len(s) - 1
      /\ \A i \in 2 .. Len(s) :
            /\ Len(u) + i - 1 \in 1 .. Len(t) /\ t[Len(u) + i - 1] = s[i]
            /\ Own(t, Len(u) + i - 1) <=> Own(s, i)
      /\ \A i \in 1 .. Len(u) :
            /\ i \in 1 .. Len(t) /\ t[i] = u[i]
            /\ Own(t, i) <=> Own(u, i) /\ \A j \in 2 .. Len(s) : s[j] # "js"
      /\ \A i \in 1 .. Len(t) :
            i \in 1 .. Len(u) \/ (i - Len(u) + 1 \in 2 .. Len(s)
                                  /\ Len(u) + (i - Len(u) + 1) - 1 = i)
    <2>1. Taken(t, u, s)
        BY OwnThen
    <2> QED
        BY <2>1 DEF Taken
<1>2. \A i \in 1 .. Len(u) : ~Own(u, i)
    <2> TAKE i \in 1 .. Len(u)
    <2>1. i \in i .. Len(u)
        BY <1>1
    <2> QED
        BY <2>1 DEF Own
<1>3. ASSUME NEW i \in 1 .. Len(t), Own(t, i)
      PROVE  \E m \in 2 .. Len(s) : i = Len(u) + m - 1 /\ t[i] = s[m] /\ Own(s, m)
    <2>1. PICK m : m = i - Len(u) + 1
        OBVIOUS
    <2>2. m \in 2 .. Len(s) /\ i = Len(u) + m - 1
        BY <1>1, <1>2, <1>3, <2>1
    <2>3. t[Len(u) + m - 1] = s[m] /\ (Own(t, Len(u) + m - 1) <=> Own(s, m))
        BY <1>1, <2>2
    <2> QED
        BY <1>3, <2>2, <2>3
<1>4. \A m \in 2 .. Len(s) : m \in 1 .. Len(s) /\ 1 < m
    BY <1>1
<1>5. ASSUME NEW i \in 1 .. Len(t), NEW j \in 1 .. Len(t), i < j, Own(t, i),
             NEW p \in Fills(t[i]), NEW q \in Fills(t[j])
      PROVE  p < q
    <2>1. PICK k \in 2 .. Len(s) : i = Len(u) + k - 1 /\ t[i] = s[k] /\ Own(s, k)
        BY <1>3, <1>5
    <2>2. \A l \in j .. Len(t) : l \in i .. Len(t)
        BY <1>5
    <2>3. Own(t, j)
        BY <1>5, <2>2 DEF Own
    <2>4. PICK m \in 2 .. Len(s) : j = Len(u) + m - 1 /\ t[j] = s[m] /\ Own(s, m)
        BY <1>3, <2>3
    <2>5. k \in 1 .. Len(s) /\ m \in 1 .. Len(s) /\ k < m
        BY <1>1, <1>4, <1>5, <2>1, <2>4
    <2> QED
        BY <1>5, <2>1, <2>4, <2>5 DEF Queued
<1>6. ASSUME NEW i \in 1 .. Len(t), Own(t, i) PROVE t[i] \in L
    <2>1. PICK m \in 2 .. Len(s) : t[i] = s[m] /\ Own(s, m)
        BY <1>3, <1>6
    <2> QED
        BY <1>4, <2>1 DEF Queued
<1>7. ASSUME NEW p \in Left(s), p \notin Fills(s[1]) PROVE p \in Left(t)
    <2>1. PICK k \in 1 .. Len(s) : Own(s, k) /\ p \in Fills(s[k])
        BY DEF Left
    <2>2. k \in 2 .. Len(s)
        BY <1>1, <1>7, <2>1
    <2>3. Len(u) + k - 1 \in 1 .. Len(t) /\ t[Len(u) + k - 1] = s[k] /\ Own(t, Len(u) + k - 1)
        BY <1>1, <2>1, <2>2
    <2> QED
        BY <2>1, <2>3 DEF Left
<1>8. ASSUME NEW p \in Fills(s[1]), NEW q \in Left(t) PROVE p < q
    <2>1. PICK i \in 1 .. Len(t) : Own(t, i) /\ q \in Fills(t[i])
        BY DEF Left
    <2>2. PICK m \in 2 .. Len(s) : t[i] = s[m] /\ Own(s, m)
        BY <1>3, <2>1
    <2>3. 1 \in 1 .. Len(s) /\ m \in 1 .. Len(s) /\ 1 < m
        BY <1>1, <1>4
    <2> QED
        BY <2>1, <2>2, <2>3 DEF Queued
<1>9. ASSUME NEW p \in Left(t) PROVE p \in Left(s)
    <2>1. PICK i \in 1 .. Len(t) : Own(t, i) /\ p \in Fills(t[i])
        BY DEF Left
    <2>2. PICK m \in 2 .. Len(s) : t[i] = s[m] /\ Own(s, m)
        BY <1>3, <2>1
    <2> QED
        BY <1>4, <2>1, <2>2 DEF Left
<1> QED
    BY <1>5, <1>6, <1>7, <1>8, <1>9 DEF Queued

\* Dropping the steps before a function drops none of the pipeline's own.
LEMMA OwnDropped ==
    ASSUME NEW s \in Seq(Steps), NEW c \in 1 .. Len(s), s[c] = "js",
           NEW t, t = SubSeq(s, c, Len(s)), NEW L, Queued(s, L)
    PROVE  Queued(t, L) /\ Left(t) = Left(s)
<1>1. /\ Len(s) \in Nat /\ Len(t) = Len(s) - c + 1
      /\ \A i \in 1 .. Len(t) : t[i] = s[c + i - 1]
    BY Dropped
<1>2. ASSUME NEW i \in 1 .. Len(t)
      PROVE  c + i - 1 \in 1 .. Len(s) /\ (Own(t, i) <=> Own(s, c + i - 1))
    <2>1. c + i - 1 \in 1 .. Len(s)
        BY <1>1
    <2>2. ASSUME Own(s, c + i - 1), NEW j \in i .. Len(t) PROVE t[j] # "js"
        <3>1. c + j - 1 \in c + i - 1 .. Len(s) /\ j \in 1 .. Len(t)
            BY <1>1
        <3> QED
            BY <1>1, <2>2, <3>1 DEF Own
    <2>3. ASSUME Own(t, i), NEW j \in c + i - 1 .. Len(s) PROVE s[j] # "js"
        <3>1. PICK k : k = j - c + 1
            OBVIOUS
        <3>2. k \in i .. Len(t) /\ k \in 1 .. Len(t) /\ c + k - 1 = j
            BY <1>1, <3>1
        <3>3. t[k] = s[c + k - 1]
            BY <1>1, <3>2
        <3> QED
            BY <2>3, <3>2, <3>3 DEF Own
    <2> QED
        BY <2>1, <2>2, <2>3 DEF Own
<1>3. ASSUME NEW k \in 1 .. Len(s), Own(s, k)
      PROVE  \E i \in 1 .. Len(t) : t[i] = s[k] /\ Own(t, i)
    <2>1. k > c
        <3>1. ASSUME k <= c PROVE FALSE
            <4>1. c \in k .. Len(s)
                BY <3>1
            <4> QED
                BY <1>3, <4>1 DEF Own
        <3> QED
            BY <3>1
    <2>2. PICK i : i = k - c + 1
        OBVIOUS
    <2>3. i \in 1 .. Len(t) /\ c + i - 1 = k
        BY <1>1, <2>1, <2>2
    <2>4. t[i] = s[c + i - 1]
        BY <1>1, <2>3
    <2>5. Own(t, i) <=> Own(s, c + i - 1)
        BY <1>2, <2>3
    <2> QED
        BY <1>3, <2>3, <2>4, <2>5
<1>4. ASSUME NEW i \in 1 .. Len(t), NEW j \in 1 .. Len(t), i < j, Own(t, i),
             NEW p \in Fills(t[i]), NEW q \in Fills(t[j])
      PROVE  p < q
    <2>1. c + i - 1 \in 1 .. Len(s) /\ c + j - 1 \in 1 .. Len(s) /\ c + i - 1 < c + j - 1
        BY <1>1, <1>2, <1>4
    <2>2. Own(s, c + i - 1) /\ t[i] = s[c + i - 1] /\ t[j] = s[c + j - 1]
        BY <1>1, <1>2, <1>4
    <2> QED
        BY <1>4, <2>1, <2>2 DEF Queued
<1>5. \A i \in 1 .. Len(t) : Own(t, i) => t[i] \in L
    BY <1>1, <1>2 DEF Queued
<1>6. Left(t) \subseteq Left(s)
    BY <1>1, <1>2 DEF Left
<1>7. Left(s) \subseteq Left(t)
    <2>1. ASSUME NEW p \in Left(s) PROVE p \in Left(t)
        <3>1. PICK k \in 1 .. Len(s) : Own(s, k) /\ p \in Fills(s[k])
            BY DEF Left
        <3>2. PICK i \in 1 .. Len(t) : t[i] = s[k] /\ Own(t, i)
            BY <1>3, <3>1
        <3> QED
            BY <3>1, <3>2 DEF Left
    <2> QED
        BY <2>1
<1> QED
    BY <1>4, <1>5, <1>6, <1>7 DEF Queued

\* What a function calls is not the pipeline's own.
LEMMA OwnPushed ==
    ASSUME NEW a \in Steps, NEW s \in Seq(Steps), s # <<>>, s[1] = "js",
           NEW t, t = <<a>> \o s, NEW L, Queued(s, L)
    PROVE  Queued(t, L) /\ Left(t) = Left(s)
<1>1. /\ t \in Seq(Steps) /\ Len(s) \in Nat /\ Len(t) = 1 + Len(s)
      /\ \A i \in 1 .. Len(s) : t[1 + i] = s[i]
    <2>1. <<a>> \in Seq(Steps) /\ Len(<<a>>) = 1
        OBVIOUS
    <2> QED
        BY <2>1, Joined
<1>2. Len(s) > 0
    BY EmptySeq, LenProperties
<1>3. ~Own(t, 1)
    <2>1. 1 + 1 \in 1 .. Len(t) /\ t[1 + 1] = s[1]
        BY <1>1, <1>2
    <2> QED
        BY <2>1 DEF Own
<1>4. ASSUME NEW i \in 1 .. Len(s) PROVE 1 + i \in 1 .. Len(t) /\ (Own(t, 1 + i) <=> Own(s, i))
    <2>1. ASSUME Own(t, 1 + i), NEW j \in i .. Len(s) PROVE s[j] # "js"
        <3>1. j \in 1 .. Len(s) /\ 1 + j \in 1 + i .. Len(t)
            BY <1>1
        <3> QED
            BY <1>1, <2>1, <3>1 DEF Own
    <2>2. ASSUME Own(s, i), NEW j \in 1 + i .. Len(t) PROVE t[j] # "js"
        <3>1. j - 1 \in i .. Len(s) /\ j - 1 \in 1 .. Len(s) /\ 1 + (j - 1) = j
            BY <1>1
        <3>2. t[1 + (j - 1)] = s[j - 1]
            BY <1>1, <3>1
        <3> QED
            BY <2>2, <3>1, <3>2 DEF Own
    <2> QED
        BY <1>1, <2>1, <2>2 DEF Own
<1>5. ASSUME NEW i \in 1 .. Len(t), Own(t, i)
      PROVE  \E k \in 1 .. Len(s) : i = 1 + k /\ t[i] = s[k] /\ Own(s, k)
    <2>1. i - 1 \in 1 .. Len(s) /\ i = 1 + (i - 1)
        BY <1>1, <1>3, <1>5
    <2>2. t[1 + (i - 1)] = s[i - 1] /\ (Own(t, 1 + (i - 1)) <=> Own(s, i - 1))
        BY <1>1, <1>4, <2>1
    <2> QED
        BY <1>5, <2>1, <2>2
<1>6. ASSUME NEW i \in 1 .. Len(t), NEW j \in 1 .. Len(t), i < j, Own(t, i),
             NEW p \in Fills(t[i]), NEW q \in Fills(t[j])
      PROVE  p < q
    <2>1. PICK k \in 1 .. Len(s) : i = 1 + k /\ t[i] = s[k] /\ Own(s, k)
        BY <1>5, <1>6
    <2>2. \A l \in j .. Len(t) : l \in i .. Len(t)
        BY <1>6
    <2>3. Own(t, j)
        BY <1>6, <2>2 DEF Own
    <2>4. PICK m \in 1 .. Len(s) : j = 1 + m /\ t[j] = s[m]
        BY <1>5, <2>3
    <2>5. k < m
        BY <1>6, <2>1, <2>4
    <2> QED
        BY <1>6, <2>1, <2>4, <2>5 DEF Queued
<1>7. \A i \in 1 .. Len(t) : Own(t, i) => t[i] \in L
    BY <1>5 DEF Queued
<1>8. Left(t) \subseteq Left(s)
    BY <1>5 DEF Left
<1>9. Left(s) \subseteq Left(t)
    BY <1>1, <1>4 DEF Left
<1> QED
    BY <1>6, <1>7, <1>8, <1>9 DEF Queued

\* u fills the places from lo to hi.
Piece(u, lo, hi, W, L) == u \in Seq(Steps) /\ Stands(u, lo .. hi, W, L)

LEMMA PieceNone ==
    ASSUME NEW lo \in Int, NEW hi \in Int, NEW W, NEW L, (lo .. hi) \cap W = {}
    PROVE  Piece(<<>>, lo, hi, W, L)
<1>1. <<>> \in Seq(Steps) /\ Len(<<>>) = 0
    BY EmptySeq
<1> QED
    BY <1>1 DEF Piece, Stands

LEMMA PieceOne ==
    ASSUME NEW lo \in Int, NEW hi \in Int, NEW W, NEW L, NEW e \in Steps, e # "js", e \in L,
           Fills(e) \subseteq lo .. hi, (lo .. hi) \cap W \subseteq Fills(e)
    PROVE  Piece(<<e>>, lo, hi, W, L)
<1>1. PICK s : s = <<e>>
    OBVIOUS
<1>2. s \in Seq(Steps) /\ Len(s) = 1 /\ s[1] = e
    BY <1>1
<1>3. 1 \in 1 .. Len(s) /\ \A i \in 1 .. Len(s) : i = 1
    BY <1>2
<1>4. Stands(s, lo .. hi, W, L)
    <2>1. \A i \in 1 .. Len(s) : s[i] # "js" /\ s[i] \in L /\ Fills(s[i]) \subseteq lo .. hi
        BY <1>2, <1>3
    <2>2. \A i, j \in 1 .. Len(s) : i < j => FALSE
        BY <1>3
    <2>3. \A p \in (lo .. hi) \cap W : \E i \in 1 .. Len(s) : p \in Fills(s[i])
        BY <1>2, <1>3
    <2> QED
        BY <2>1, <2>2, <2>3 DEF Stands
<1> QED
    BY <1>1, <1>2, <1>4 DEF Piece

LEMMA PieceOnly ==
    ASSUME NEW lo \in Int, NEW hi \in Int, NEW W, NEW L, NEW c \in BOOLEAN, NEW s,
           c => Piece(s, lo, hi, W, L), ~c => (lo .. hi) \cap W = {}
    PROVE  Piece(Only(c, s), lo, hi, W, L)
<1>1. CASE c
    BY <1>1 DEF Only
<1>2. CASE ~c
    <2>1. Only(c, s) = <<>>
        BY <1>2 DEF Only
    <2> QED
        BY <1>2, <2>1, PieceNone
<1> QED
    BY <1>1, <1>2

LEMMA PieceCat ==
    ASSUME NEW lo \in Int, NEW m \in Int, NEW hi \in Int, lo <= m + 1, m <= hi, NEW W, NEW L,
           NEW u, NEW v, Piece(u, lo, m, W, L), Piece(v, m + 1, hi, W, L)
    PROVE  Piece(u \o v, lo, hi, W, L)
<1>1. u \in Seq(Steps) /\ v \in Seq(Steps) /\ Stands(u, lo .. m, W, L)
      /\ Stands(v, m + 1 .. hi, W, L)
    BY DEF Piece
<1>2. PICK t : t = u \o v
    OBVIOUS
<1>3. /\ t \in Seq(Steps) /\ Len(u) \in Nat /\ Len(v) \in Nat /\ Len(t) = Len(u) + Len(v)
      /\ \A i \in 1 .. Len(u) : t[i] = u[i]
      /\ \A i \in 1 .. Len(v) : t[Len(u) + i] = v[i]
    BY <1>1, <1>2, Joined
<1>4. ASSUME NEW i \in 1 .. Len(t), i \notin 1 .. Len(u)
      PROVE  \E k \in 1 .. Len(v) : i = Len(u) + k /\ t[i] = v[k]
    <2>1. i - Len(u) \in 1 .. Len(v) /\ i = Len(u) + (i - Len(u))
        BY <1>3, <1>4
    <2>2. t[Len(u) + (i - Len(u))] = v[i - Len(u)]
        BY <1>3, <2>1
    <2> QED
        BY <2>1, <2>2
<1>5. \A i \in 1 .. Len(u) : u[i] # "js" /\ u[i] \in L /\ Fills(u[i]) \subseteq lo .. m
    BY <1>1 DEF Stands
<1>6. \A i \in 1 .. Len(v) : v[i] # "js" /\ v[i] \in L /\ Fills(v[i]) \subseteq m + 1 .. hi
    BY <1>1 DEF Stands
<1>7. ASSUME NEW i \in 1 .. Len(t)
      PROVE  t[i] # "js" /\ t[i] \in L /\ Fills(t[i]) \subseteq lo .. hi
    <2>1. CASE i \in 1 .. Len(u)
        <3>1. t[i] = u[i] /\ lo .. m \subseteq lo .. hi
            BY <1>3, <2>1
        <3> QED
            BY <1>5, <2>1, <3>1
    <2>2. CASE i \notin 1 .. Len(u)
        <3>1. PICK k \in 1 .. Len(v) : t[i] = v[k]
            BY <1>4, <2>2
        <3>2. m + 1 .. hi \subseteq lo .. hi
            OBVIOUS
        <3> QED
            BY <1>6, <3>1, <3>2
    <2> QED
        BY <2>1, <2>2
<1>8. ASSUME NEW i \in 1 .. Len(t), NEW j \in 1 .. Len(t), i < j,
             NEW p \in Fills(t[i]), NEW q \in Fills(t[j])
      PROVE  p < q
    <2>1. CASE j \in 1 .. Len(u)
        <3>1. i \in 1 .. Len(u)
            BY <1>3, <1>8, <2>1
        <3>2. t[i] = u[i] /\ t[j] = u[j]
            BY <1>3, <2>1, <3>1
        <3> QED
            BY <1>1, <1>8, <2>1, <3>1, <3>2 DEF Stands
    <2>2. CASE j \notin 1 .. Len(u)
        <3>1. PICK l \in 1 .. Len(v) : j = Len(u) + l /\ t[j] = v[l]
            BY <1>4, <2>2
        <3>2. CASE i \in 1 .. Len(u)
            <4>1. p \in lo .. m /\ q \in m + 1 .. hi
                <5>1. t[i] = u[i]
                    BY <1>3, <3>2
                <5> QED
                    BY <1>5, <1>6, <1>8, <3>1, <3>2, <5>1
            <4> QED
                BY <4>1
        <3>3. CASE i \notin 1 .. Len(u)
            <4>1. PICK k \in 1 .. Len(v) : i = Len(u) + k /\ t[i] = v[k]
                BY <1>4, <3>3
            <4>2. k < l
                BY <1>3, <1>8, <3>1, <4>1
            <4> QED
                BY <1>1, <1>8, <3>1, <4>1, <4>2 DEF Stands
        <3> QED
            BY <3>2, <3>3
    <2> QED
        BY <2>1, <2>2
<1>9. ASSUME NEW p \in (lo .. hi) \cap W PROVE \E i \in 1 .. Len(t) : p \in Fills(t[i])
    <2>1. CASE p <= m
        <3>1. p \in (lo .. m) \cap W
            BY <1>9, <2>1
        <3>2. PICK i \in 1 .. Len(u) : p \in Fills(u[i])
            BY <1>1, <3>1 DEF Stands
        <3>3. i \in 1 .. Len(t) /\ t[i] = u[i]
            BY <1>3
        <3> QED
            BY <3>2, <3>3
    <2>2. CASE ~(p <= m)
        <3>1. p \in (m + 1 .. hi) \cap W
            BY <1>9, <2>2
        <3>2. PICK i \in 1 .. Len(v) : p \in Fills(v[i])
            BY <1>1, <3>1 DEF Stands
        <3>3. Len(u) + i \in 1 .. Len(t) /\ t[Len(u) + i] = v[i]
            BY <1>3
        <3> QED
            BY <3>2, <3>3
    <2> QED
        BY <2>1, <2>2
<1>10. Stands(t, lo .. hi, W, L)
    BY <1>7, <1>8, <1>9 DEF Stands
<1> QED
    BY <1>2, <1>3, <1>10 DEF Piece

\* What the options and the project leave of the diagram.
LEMMA WantedAre ==
    ASSUME project \in Projects, options \in RunOptions
    PROVE  /\ Wanted \subseteq 1 .. 11
           /\ options.dry => Wanted \cap {1, 2, 3, 5, 6, 7, 9, 10} = {}
           /\ ~project.database \/ options.skipDatabase => Wanted \cap (2 .. 6) = {}
           /\ options.mode = "backup" => Wanted \cap (3 .. 5) = {}
           /\ project.files = 0 \/ options.skipFiles => Wanted \cap (7 .. 9) = {}
           /\ \A h \in HookNames : h \notin project.hooks => Place(h) \notin Wanted
           /\ \A e \in HookNames \cup {"restore", "sync"} : Applies(e) <=> Place(e) \in Wanted
<1>1. /\ Diagram[1] = "beforeAll" /\ Diagram[2] = "beforeDatabase"
      /\ Diagram[3] = "beforeRestore" /\ Diagram[4] = "restore" /\ Diagram[5] = "afterRestore"
      /\ Diagram[6] = "afterDatabase" /\ Diagram[7] = "beforeFiles" /\ Diagram[8] = "sync"
      /\ Diagram[9] = "afterFiles" /\ Diagram[10] = "afterAll" /\ Diagram[11] = "extension"
    BY DEF Diagram
<1>2. \A e \in HookNames \cup {"restore", "sync"} : Applies(e) <=> Place(e) \in Wanted
    BY PlacesAre DEF Wanted
<1>3. options.dry => Wanted \cap {1, 2, 3, 5, 6, 7, 9, 10} = {}
    BY <1>1 DEF Wanted, Applies, HookNames
<1>4. ~project.database \/ options.skipDatabase => Wanted \cap (2 .. 6) = {}
    <2>1. \A p \in 2 .. 6 : p \in {2, 3, 4, 5, 6}
        OBVIOUS
    <2> QED
        BY <1>1, <2>1 DEF Wanted, Applies
<1>5. options.mode = "backup" => Wanted \cap (3 .. 5) = {}
    <2>1. \A p \in 3 .. 5 : p \in {3, 4, 5}
        OBVIOUS
    <2> QED
        BY <1>1, <2>1 DEF Wanted, Applies
<1>6. project.files = 0 \/ options.skipFiles => Wanted \cap (7 .. 9) = {}
    <2>1. \A p \in 7 .. 9 : p \in {7, 8, 9}
        OBVIOUS
    <2> QED
        BY <1>1, <2>1 DEF Wanted, Applies
<1>7. \A h \in HookNames : h \notin project.hooks => Place(h) \notin Wanted
    BY PlacesAre DEF Wanted, Applies
<1> QED
    BY <1>2, <1>3, <1>4, <1>5, <1>6, <1>7 DEF Wanted

LEMMA LawfulAre ==
    ASSUME project \in Projects, options \in RunOptions
    PROVE  /\ {"manifest", "extension", "dump", "fetch", "reset", "sync"} \subseteq Lawful
           /\ ~options.dry => {"beforeAll", "afterAll"} \subseteq Lawful
           /\ ~options.skipDatabase => "database" \in Lawful
           /\ ~options.skipFiles => "files" \in Lawful
           /\ project.database /\ ~options.skipDatabase =>
                /\ ~options.dry => {"beforeDatabase", "afterDatabase"} \subseteq Lawful
                /\ options.mode # "backup" =>
                        /\ "restore" \in Lawful
                        /\ ~options.dry => {"beforeRestore", "afterRestore"} \subseteq Lawful
           /\ project.files # 0 /\ ~options.skipFiles =>
                /\ "release" \in Lawful
                /\ ~options.dry => {"beforeFiles", "afterFiles"} \subseteq Lawful
<1>1. project.hooks \subseteq HookNames /\ project.files \in Nat
    BY HooksAssumption, BoundsAssumption DEF Projects
<1>2. {"manifest", "extension", "dump", "fetch", "reset", "sync"} \subseteq Lawful
    BY <1>1 DEF Lawful, Steps, Actions, Applies, HookNames
<1>3. ~options.dry => {"beforeAll", "afterAll"} \subseteq Lawful
    BY <1>1 DEF Lawful, Steps, Actions, Applies, HookNames
<1>4. /\ ~options.skipDatabase => "database" \in Lawful
      /\ ~options.skipFiles => "files" \in Lawful
    BY <1>1 DEF Lawful, Steps, Actions, Applies, HookNames
<1>5. ASSUME project.database, ~options.skipDatabase
      PROVE  /\ ~options.dry => {"beforeDatabase", "afterDatabase"} \subseteq Lawful
             /\ options.mode # "backup" =>
                    /\ "restore" \in Lawful
                    /\ ~options.dry => {"beforeRestore", "afterRestore"} \subseteq Lawful
    BY <1>1, <1>5 DEF Lawful, Steps, Actions, Applies, HookNames
<1>6. ASSUME project.files # 0, ~options.skipFiles
      PROVE  /\ "release" \in Lawful
             /\ ~options.dry => {"beforeFiles", "afterFiles"} \subseteq Lawful
    <2>1. project.files > 0
        BY <1>1, <1>6
    <2> QED
        BY <1>1, <1>6, <2>1 DEF Lawful, Steps, Actions, Applies, HookNames
<1> QED
    BY <1>2, <1>3, <1>4, <1>5, <1>6

LEMMA OnePlace ==
    ASSUME NEW W, NEW L, NEW e \in (HookNames \cup {"restore"}) \cap L
    PROVE  Piece(<<e>>, Place(e), Place(e), W, L)
<1>1. e \in Steps /\ e # "js" /\ Fills(e) = {Place(e)} /\ Place(e) \in 1 .. 11
    BY FillsAre, PlacesAre DEF HookNames, Steps
<1>2. Place(e) \in Int /\ Place(e) .. Place(e) = {Place(e)}
    BY <1>1
<1> QED
    BY <1>1, <1>2, PieceOne

LEMMA NoPlace ==
    ASSUME NEW W, NEW L, NEW e \in {"reset", "dump", "fetch", "sync", "manifest"} \cap L,
           NEW p \in Int
    PROVE  Piece(<<e>>, p + 1, p, W, L)
<1>1. e \in Steps /\ e # "js" /\ Fills(e) = {}
    BY FillsAre DEF Steps, Actions
<1>2. p + 1 \in Int /\ p + 1 .. p = {}
    OBVIOUS
<1> QED
    BY <1>1, <1>2, PieceOne

LEMMA Two == ASSUME NEW a \in Steps, NEW b \in Steps PROVE <<a>> \o <<b>> = <<a, b>>
<1>1. PICK u, v, t, r : u = <<a>> /\ v = <<b>> /\ t = u \o v /\ r = <<a, b>>
    OBVIOUS
<1>2. /\ u \in Seq(Steps) /\ Len(u) = 1 /\ u[1] = a
      /\ v \in Seq(Steps) /\ Len(v) = 1 /\ v[1] = b
      /\ r \in Seq(Steps) /\ Len(r) = 2 /\ r[1] = a /\ r[2] = b
    BY <1>1
<1>3. /\ t \in Seq(Steps) /\ Len(t) = 1 + 1
      /\ \A i \in 1 .. Len(u) : t[i] = u[i]
      /\ \A i \in 1 .. Len(v) : t[Len(u) + i] = v[i]
    BY <1>1, <1>2, Joined
<1>4. Len(t) = 2 /\ t[1] = a /\ t[1 + 1] = b
    BY <1>2, <1>3
<1>5. \A i \in 1 .. Len(t) : t[i] = r[i]
    BY <1>2, <1>4
<1>6. t = r
    BY <1>2, <1>3, <1>4, <1>5, SeqEqual
<1> QED
    BY <1>1, <1>6

LEMMA TheDatabasePiece ==
    ASSUME project \in Projects, options \in RunOptions, ~options.skipDatabase
    PROVE  Piece(DatabaseSteps(TRUE), 2, 6, Wanted, Lawful)
<1>1. CASE ~project.database
    <2>1. (2 .. 6) \cap Wanted = {}
        BY <1>1, WantedAre
    <2>2. DatabaseSteps(TRUE) = <<>>
        BY <1>1 DEF DatabaseSteps
    <2>3. Piece(<<>>, 2, 6, Wanted, Lawful)
        BY <2>1, PieceNone
    <2> QED
        BY <2>2, <2>3
<1>2. CASE project.database
    <2>1. PICK c \in BOOLEAN : c = ~options.dry
        BY DEF RunOptions
    <2>2. PICK b \in BOOLEAN : b = (options.mode # "backup")
        OBVIOUS
    <2>3. PICK W, L : W = Wanted /\ L = Lawful
        OBVIOUS
    <2>4. PICK bd, df, br, rr, ar, ad :
            /\ bd = Only(c, <<"beforeDatabase">>) /\ df = <<"dump", "fetch">>
            /\ br = Only(c, <<"beforeRestore">>) /\ rr = <<"reset", "restore">>
            /\ ar = Only(c, <<"afterRestore">>) /\ ad = Only(c, <<"afterDatabase">>)
        OBVIOUS
    <2>5. DatabaseSteps(TRUE) = ((bd \o df) \o Only(b, (br \o rr) \o ar)) \o ad
        BY <1>2, <2>1, <2>2, <2>4 DEF DatabaseSteps, Only
    <2>6. /\ Place("beforeDatabase") = 2 /\ Place("beforeRestore") = 3 /\ Place("restore") = 4
          /\ Place("afterRestore") = 5 /\ Place("afterDatabase") = 6
        BY DEF Place
    <2>7. /\ {"dump", "fetch", "reset"} \subseteq L
          /\ c => {"beforeDatabase", "afterDatabase"} \subseteq L
          /\ b => "restore" \in L /\ (c => {"beforeRestore", "afterRestore"} \subseteq L)
        BY <1>2, <2>1, <2>2, <2>3, LawfulAre
    <2>8. /\ ~c => W \cap {1, 2, 3, 5, 6, 7, 9, 10} = {}
          /\ ~b => W \cap (3 .. 5) = {}
        BY <2>1, <2>2, <2>3, WantedAre
    <2>9. ASSUME NEW h \in HookNames, c => h \in L, Place(h) \in {2, 3, 5, 6}
          PROVE  Piece(Only(c, <<h>>), Place(h), Place(h), W, L)
        <3>1. c => Piece(<<h>>, Place(h), Place(h), W, L)
            BY <2>9, OnePlace
        <3>2. Place(h) \in Int /\ (~c => (Place(h) .. Place(h)) \cap W = {})
            BY <2>8, <2>9
        <3> QED
            BY <3>1, <3>2, PieceOnly
    <2>10. Piece(bd, 2, 2, W, L) /\ Piece(ad, 6, 6, W, L)
        BY <2>4, <2>6, <2>7, <2>9 DEF HookNames
    <2>11. Piece(df, 3, 2, W, L)
        <3>1. Piece(<<"dump">>, 2 + 1, 2, W, L) /\ Piece(<<"fetch">>, 2 + 1, 2, W, L)
            BY <2>7, NoPlace
        <3>2. Piece(<<"dump">> \o <<"fetch">>, 2 + 1, 2, W, L)
            BY <3>1, PieceCat
        <3>3. <<"dump">> \o <<"fetch">> = df
            BY <2>4, Two DEF Steps
        <3>4. 2 + 1 = 3
            OBVIOUS
        <3> QED
            BY <3>2, <3>3, <3>4
    <2>12. Piece(bd \o df, 2, 2, W, L)
        <3>1. Piece(df, 2 + 1, 2, W, L)
            BY <2>11
        <3> QED
            BY <2>10, <3>1, PieceCat
    <2>13. Piece(Only(b, (br \o rr) \o ar), 3, 5, W, L)
        <3>1. ASSUME b PROVE Piece((br \o rr) \o ar, 3, 5, W, L)
            <4>1. Piece(br, 3, 3, W, L) /\ Piece(ar, 5, 5, W, L)
                BY <2>4, <2>6, <2>7, <2>9, <3>1 DEF HookNames
            <4>2. Piece(rr, 4, 4, W, L)
                <5>1. Piece(<<"reset">>, 3 + 1, 3, W, L)
                    BY <2>7, NoPlace
                <5>2. Piece(<<"restore">>, 4, 4, W, L)
                    BY <2>6, <2>7, <3>1, OnePlace
                <5>3. Piece(<<"reset">>, 4, 3, W, L) /\ Piece(<<"restore">>, 3 + 1, 4, W, L)
                    BY <5>1, <5>2
                <5>4. Piece(<<"reset">> \o <<"restore">>, 4, 4, W, L)
                    BY <5>3, PieceCat
                <5>5. <<"reset">> \o <<"restore">> = rr
                    BY <2>4, Two DEF Steps, Actions
                <5> QED
                    BY <5>4, <5>5
            <4>3. Piece(rr, 3 + 1, 4, W, L) /\ Piece(ar, 4 + 1, 5, W, L)
                BY <4>1, <4>2
            <4>4. Piece(br \o rr, 3, 4, W, L)
                BY <4>1, <4>3, PieceCat
            <4> QED
                BY <4>3, <4>4, PieceCat
        <3>2. ~b => (3 .. 5) \cap W = {}
            BY <2>8
        <3> QED
            BY <3>1, <3>2, PieceOnly
    <2>14. Piece((bd \o df) \o Only(b, (br \o rr) \o ar), 2, 5, W, L)
        <3>1. Piece(Only(b, (br \o rr) \o ar), 2 + 1, 5, W, L)
            BY <2>13
        <3> QED
            BY <2>12, <3>1, PieceCat
    <2>15. Piece(((bd \o df) \o Only(b, (br \o rr) \o ar)) \o ad, 2, 6, W, L)
        <3>1. Piece(ad, 5 + 1, 6, W, L)
            BY <2>10
        <3> QED
            BY <2>14, <3>1, PieceCat
    <2> QED
        BY <2>3, <2>5, <2>15
<1>3. project.database \in BOOLEAN
    BY DEF Projects
<1> QED
    BY <1>1, <1>2, <1>3

LEMMA TheFilesPiece ==
    ASSUME project \in Projects, options \in RunOptions, ~options.skipFiles
    PROVE  Piece(FilesSteps(TRUE), 7, 9, Wanted, Lawful)
<1>1. CASE project.files = 0
    <2>1. (7 .. 9) \cap Wanted = {}
        BY <1>1, WantedAre
    <2>2. FilesSteps(TRUE) = <<>>
        BY <1>1 DEF FilesSteps
    <2>3. Piece(<<>>, 7, 9, Wanted, Lawful)
        BY <2>1, PieceNone
    <2> QED
        BY <2>2, <2>3
<1>2. CASE project.files # 0
    <2>1. PICK c \in BOOLEAN : c = ~options.dry
        BY DEF RunOptions
    <2>2. PICK n : n = project.files
        OBVIOUS
    <2>3. PICK W, L : W = Wanted /\ L = Lawful
        OBVIOUS
    <2>4. PICK bf, sy, re, af :
            /\ bf = Only(c, <<"beforeFiles">>) /\ sy = [i \in 1 .. n |-> "sync"]
            /\ re = <<"release">> /\ af = Only(c, <<"afterFiles">>)
        OBVIOUS
    <2>5. FilesSteps(TRUE) = ((bf \o sy) \o re) \o af
        BY <1>2, <2>1, <2>2, <2>4 DEF FilesSteps, Only
    <2>6. Place("beforeFiles") = 7 /\ Place("afterFiles") = 9
        BY DEF Place
    <2>7. /\ {"sync", "release"} \subseteq L
          /\ c => {"beforeFiles", "afterFiles"} \subseteq L
        BY <1>2, <2>1, <2>3, LawfulAre
    <2>8. ~c => W \cap {1, 2, 3, 5, 6, 7, 9, 10} = {}
        BY <2>1, <2>3, WantedAre
    <2>9. ASSUME NEW h \in HookNames, c => h \in L, Place(h) \in {7, 9}
          PROVE  Piece(Only(c, <<h>>), Place(h), Place(h), W, L)
        <3>1. c => Piece(<<h>>, Place(h), Place(h), W, L)
            BY <2>9, OnePlace
        <3>2. Place(h) \in Int /\ (~c => (Place(h) .. Place(h)) \cap W = {})
            BY <2>8, <2>9
        <3> QED
            BY <3>1, <3>2, PieceOnly
    <2>10. Piece(bf, 7, 7, W, L) /\ Piece(af, 9, 9, W, L)
        BY <2>4, <2>6, <2>7, <2>9 DEF HookNames
    <2>11. Piece(sy, 7 + 1, 7, W, L)
        <3>1. n \in Nat /\ "sync" \in Steps /\ Fills("sync") = {}
            BY <2>2, BoundsAssumption, FillsAre DEF Projects, Steps
        <3>2. sy \in Seq(Steps) /\ Len(sy) = n /\ \A i \in 1 .. n : sy[i] = "sync"
            BY <2>4, <3>1
        <3>3. (7 + 1 .. 7) \cap W = {}
            OBVIOUS
        <3>4. Stands(sy, 7 + 1 .. 7, W, L)
            BY <2>7, <3>1, <3>2, <3>3 DEF Stands
        <3> QED
            BY <3>2, <3>4 DEF Piece
    <2>12. Piece(re, 8, 8, W, L)
        <3>1. "release" \in Steps /\ "release" # "js" /\ Fills("release") = {8} /\ 8 .. 8 = {8}
            BY FillsAre DEF Steps
        <3> QED
            BY <2>4, <2>7, <3>1, PieceOne
    <2>13. Piece(bf \o sy, 7, 7, W, L)
        BY <2>10, <2>11, PieceCat
    <2>14. Piece((bf \o sy) \o re, 7, 8, W, L)
        <3>1. Piece(re, 7 + 1, 8, W, L)
            BY <2>12
        <3> QED
            BY <2>13, <3>1, PieceCat
    <2>15. Piece(((bf \o sy) \o re) \o af, 7, 9, W, L)
        <3>1. Piece(af, 8 + 1, 9, W, L)
            BY <2>10
        <3> QED
            BY <2>14, <3>1, PieceCat
    <2> QED
        BY <2>3, <2>5, <2>15
<1> QED
    BY <1>1, <1>2

LEMMA ThePipelinePiece ==
    ASSUME project \in Projects, options \in RunOptions, ~project.execute,
           options.mode # "validate"
    PROVE  Piece(Pipeline, 1, 11, Wanted, Lawful)
<1>1. PICK c \in BOOLEAN : c = ~options.dry
    BY DEF RunOptions
<1>2. PICK d \in BOOLEAN : d = ~options.skipDatabase
    BY DEF RunOptions
<1>3. PICK f \in BOOLEAN : f = ~options.skipFiles
    BY DEF RunOptions
<1>4. PICK m \in BOOLEAN : m = (options.mode = "backup")
    OBVIOUS
<1>5. PICK W, L : W = Wanted /\ L = Lawful
    OBVIOUS
<1>6. PICK ba, db, fi, ma, aa, ex :
        /\ ba = Only(c, <<"beforeAll">>) /\ db = Only(d, <<"database">>)
        /\ fi = Only(f, <<"files">>) /\ ma = Only(m, <<"manifest">>)
        /\ aa = Only(c, <<"afterAll">>) /\ ex = <<"extension">>
    OBVIOUS
<1>7. Pipeline = ((((ba \o db) \o fi) \o ma) \o aa) \o ex
    BY <1>1, <1>2, <1>3, <1>4, <1>6 DEF Pipeline, Only
<1>8. Place("beforeAll") = 1 /\ Place("afterAll") = 10 /\ Place("extension") = 11
    BY DEF Place
<1>9. /\ {"manifest", "extension"} \subseteq L
      /\ c => {"beforeAll", "afterAll"} \subseteq L
      /\ (d => "database" \in L) /\ (f => "files" \in L)
    BY <1>1, <1>2, <1>3, <1>5, LawfulAre
<1>10. /\ ~c => W \cap {1, 2, 3, 5, 6, 7, 9, 10} = {}
       /\ ~d => W \cap (2 .. 6) = {}
       /\ ~f => W \cap (7 .. 9) = {}
    BY <1>1, <1>2, <1>3, <1>5, WantedAre
<1>11. ASSUME NEW h \in HookNames, c => h \in L, Place(h) \in {1, 10}
       PROVE  Piece(Only(c, <<h>>), Place(h), Place(h), W, L)
    <2>1. c => Piece(<<h>>, Place(h), Place(h), W, L)
        BY <1>11, OnePlace
    <2>2. Place(h) \in Int /\ (~c => (Place(h) .. Place(h)) \cap W = {})
        BY <1>10, <1>11
    <2> QED
        BY <2>1, <2>2, PieceOnly
<1>12. Piece(ba, 1, 1, W, L) /\ Piece(aa, 9 + 1, 10, W, L)
    BY <1>6, <1>8, <1>9, <1>11 DEF HookNames
<1>13. Piece(ex, 10 + 1, 11, W, L)
    BY <1>6, <1>8, <1>9, OnePlace DEF HookNames
<1>14. Piece(ma, 9 + 1, 9, W, L)
    <2>1. Piece(<<"manifest">>, 9 + 1, 9, W, L)
        BY <1>9, NoPlace
    <2>2. (9 + 1 .. 9) \cap W = {}
        OBVIOUS
    <2> QED
        BY <1>6, <2>1, <2>2, PieceOnly
<1>15. Piece(db, 1 + 1, 6, W, L)
    <2>1. "database" \in Steps /\ "database" # "js" /\ Fills("database") = 2 .. 6
        BY FillsAre DEF Steps
    <2>2. d => Piece(<<"database">>, 2, 6, W, L)
        BY <1>9, <2>1, PieceOne
    <2>3. Piece(db, 2, 6, W, L)
        BY <1>6, <1>10, <2>2, PieceOnly
    <2> QED
        BY <2>3
<1>16. Piece(fi, 6 + 1, 9, W, L)
    <2>1. "files" \in Steps /\ "files" # "js" /\ Fills("files") = 7 .. 9
        BY FillsAre DEF Steps
    <2>2. f => Piece(<<"files">>, 7, 9, W, L)
        BY <1>9, <2>1, PieceOne
    <2>3. Piece(fi, 7, 9, W, L)
        BY <1>6, <1>10, <2>2, PieceOnly
    <2> QED
        BY <2>3
<1>17. Piece(ba \o db, 1, 6, W, L)
    BY <1>12, <1>15, PieceCat
<1>18. Piece((ba \o db) \o fi, 1, 9, W, L)
    BY <1>16, <1>17, PieceCat
<1>19. Piece(((ba \o db) \o fi) \o ma, 1, 9, W, L)
    BY <1>14, <1>18, PieceCat
<1>20. Piece((((ba \o db) \o fi) \o ma) \o aa, 1, 10, W, L)
    BY <1>12, <1>19, PieceCat
<1>21. Piece(((((ba \o db) \o fi) \o ma) \o aa) \o ex, 1, 11, W, L)
    BY <1>13, <1>20, PieceCat
<1> QED
    BY <1>5, <1>7, <1>21

LEMMA EmptyLeft == ASSUME NEW L PROVE Queued(<<>>, L) /\ Left(<<>>) = {}
<1>1. Len(<<>>) = 0
    BY EmptySeq
<1> QED
    BY <1>1 DEF Queued, Left

LEMMA SameDiagram ==
    ASSUME UNCHANGED <<project, options>>
    PROVE  Wanted' = Wanted /\ Lawful' = Lawful
<1>1. \A e : Applies(e)' <=> Applies(e)
    BY DEF Applies
<1>2. Wanted' = Wanted
    BY <1>1 DEF Wanted
<1>3. Lawful' = Lawful
    BY <1>1 DEF Lawful
<1> QED
    BY <1>2, <1>3

\* The pipeline that this run has, if not execute() in its place.
Default == project.execute = FALSE /\ options.mode # "validate"

\* A step that adds nothing to the trace.
LEMMA DiagramKept ==
    ASSUME Diagrammed, UNCHANGED <<project, options, trace>>,
           Default => Queued(todo', Lawful) /\ Left(todo') \subseteq Left(todo),
           Default /\ outcome' \in {"running", "ok"} =>
                outcome \in {"running", "ok"} /\ Left(todo) \cap Wanted \subseteq Left(todo'),
           Default /\ outcome' = "ok" => todo' = <<>>
    PROVE  Diagrammed'
<1> SUFFICES ASSUME Default
             PROVE  /\ Queued(todo', Lawful')
                    /\ Traces(trace', Wanted')
                    /\ \A p \in Done(trace'), q \in Left(todo') : p < q
                    /\ outcome' \in {"running", "ok"} =>
                            Wanted' \subseteq Done(trace') \cup Left(todo')
                    /\ outcome' = "ok" => todo' = <<>>
    BY DEF Diagrammed, Default
<1>1. Wanted' = Wanted /\ Lawful' = Lawful /\ trace' = trace
    BY SameDiagram
<1>2. /\ Traces(trace, Wanted)
      /\ \A p \in Done(trace), q \in Left(todo) : p < q
      /\ outcome \in {"running", "ok"} => Wanted \subseteq Done(trace) \cup Left(todo)
    BY DEF Diagrammed, Default
<1>3. Queued(todo', Lawful')
    BY <1>1
<1>4. Traces(trace', Wanted')
    BY <1>1, <1>2
<1>5. \A p \in Done(trace'), q \in Left(todo') : p < q
    BY <1>1, <1>2
<1>6. outcome' \in {"running", "ok"} => Wanted' \subseteq Done(trace') \cup Left(todo')
    BY <1>1, <1>2
<1> QED
    BY <1>3, <1>4, <1>5, <1>6

\* The next place is filled.
LEMMA DiagramGrows ==
    ASSUME Types, Diagrammed, Default, UNCHANGED <<project, options, outcome>>,
           outcome = "running",
           NEW e \in HookNames \cup {"restore", "sync"}, trace' = Append(trace, e),
           Place(e) \in Wanted, Place(e) \in Left(todo), Queued(todo', Lawful),
           Left(todo) \subseteq Left(todo') \cup {Place(e)}, Left(todo') \subseteq Left(todo),
           \A q \in Left(todo') : Place(e) < q
    PROVE  Diagrammed'
<1>1. Wanted' = Wanted /\ Lawful' = Lawful
    BY SameDiagram
<1>2. /\ Traces(trace, Wanted)
      /\ \A p \in Done(trace), q \in Left(todo) : p < q
      /\ Wanted \subseteq Done(trace) \cup Left(todo)
    BY DEF Diagrammed, Default
<1>3. PICK n, r, p : n = Len(trace) /\ r = trace' /\ p = Place(e)
    OBVIOUS
<1>4. /\ n \in Nat /\ Len(r) = n + 1 /\ r[n + 1] = e
      /\ \A i \in 1 .. n : r[i] = trace[i]
    <2>1. trace \in Seq(Steps) /\ e \in Steps
        BY DEF Types, Steps, HookNames
    <2> QED
        BY <1>3, <2>1, AppendProperties, LenProperties
<1>5. p \in 1 .. 11 /\ Diagram[p] = e
    BY <1>3, PlacesAre
<1>6. \A i \in 1 .. Len(r) : i \in 1 .. n \/ i = n + 1
    BY <1>4
<1>7. \A i \in 1 .. n : i \in 1 .. Len(trace) /\ i \in 1 .. Len(r)
    BY <1>3, <1>4
<1>8. Done(r) = Done(trace) \cup {p}
    <2>1. Done(r) \subseteq Done(trace) \cup {p}
        BY <1>3, <1>4, <1>6, <1>7 DEF Done
    <2>2. Done(trace) \subseteq Done(r)
        BY <1>3, <1>4, <1>7 DEF Done
    <2>3. p \in Done(r)
        <3>1. n + 1 \in 1 .. Len(r)
            BY <1>4
        <3> QED
            BY <1>3, <1>4, <3>1 DEF Done
    <2> QED
        BY <2>1, <2>2, <2>3
<1>9. Done(trace) \subseteq 1 .. 11 /\ \A q \in Done(trace) : q < p
    <2>1. Wanted \subseteq 1 .. 11
        BY DEF Wanted
    <2>2. Done(trace) \subseteq Wanted
        BY <1>2 DEF Done, Traces
    <2> QED
        BY <1>2, <1>3, <2>1, <2>2
<1>10. Traces(r, Wanted)
    <2>1. ASSUME NEW k \in 1 .. Len(r)
          PROVE  Place(r[k]) \in Wanted /\ r[k] = Diagram[Place(r[k])]
        <3>1. CASE k \in 1 .. n
            BY <1>2, <1>4, <1>7, <3>1 DEF Traces
        <3>2. CASE k = n + 1
            BY <1>3, <1>4, <1>5, <3>2
        <3> QED
            BY <1>6, <3>1, <3>2
    <2>2. ASSUME NEW k \in 1 .. Len(r), NEW l \in 1 .. Len(r), k < l
          PROVE  Place(r[k]) < Place(r[l])
        <3>1. k \in 1 .. n
            BY <1>4, <2>2
        <3>2. CASE l \in 1 .. n
            BY <1>2, <1>4, <1>7, <2>2, <3>1, <3>2 DEF Traces
        <3>3. CASE l = n + 1
            <4>1. Place(r[k]) \in Done(trace)
                BY <1>4, <1>7, <3>1 DEF Done
            <4> QED
                BY <1>3, <1>4, <1>9, <3>3, <4>1
        <3> QED
            BY <1>6, <3>2, <3>3
    <2>3. ASSUME NEW w \in Wanted, NEW q \in Done(r), w < q PROVE w \in Done(r)
        <3>1. CASE q \in Done(trace)
            BY <1>2, <1>8, <2>3, <3>1 DEF Traces
        <3>2. CASE q = p
            <4>1. w \in 1 .. 11 /\ w # p /\ ~(p < w)
                BY <1>5, <2>3, <3>2 DEF Wanted
            <4>2. w \notin Left(todo')
                BY <1>3, <4>1
            <4>3. w \notin Left(todo)
                BY <1>3, <4>1, <4>2
            <4> QED
                BY <1>2, <1>8, <4>3
        <3> QED
            BY <1>8, <3>1, <3>2
    <2> QED
        BY <2>1, <2>2, <2>3 DEF Traces
<1>11. \A d \in Done(r), q \in Left(todo') : d < q
    BY <1>2, <1>3, <1>8
<1>12. Wanted \subseteq Done(r) \cup Left(todo')
    BY <1>2, <1>3, <1>8
<1>13. /\ Queued(todo', Lawful')
       /\ Traces(trace', Wanted')
       /\ \A d \in Done(trace'), q \in Left(todo') : d < q
       /\ Wanted' \subseteq Done(trace') \cup Left(todo')
    BY <1>1, <1>3, <1>10, <1>11, <1>12
<1> QED
    BY <1>13 DEF Diagrammed

\* A step gives way to u.
LEMMA DiagramThen ==
    ASSUME Types, Diagrammed, NEW h, At(h), NEW u \in Seq(Steps), Then(u),
           UNCHANGED <<project, options, outcome, trace>>,
           h = "js" => u = <<>>,
           Default /\ Own(todo, 1) /\ h \in Lawful => Stands(u, Fills(h), Wanted, Lawful)
    PROVE  Diagrammed'
<1>1. todo # <<>> /\ todo[1] = h /\ todo \in Seq(Steps) /\ Len(todo) > 0 /\ Len(todo) \in Nat
    BY FirstStep
<1>2. outcome = "running"
    BY DEF At
<1>3. todo' = u \o Tail(todo)
    BY DEF Then
<1>4. ASSUME Default
      PROVE  /\ Queued(todo', Lawful) /\ Left(todo') \subseteq Left(todo)
             /\ Left(todo) \cap Wanted \subseteq Left(todo')
    <2>1. Queued(todo, Lawful)
        BY <1>4 DEF Diagrammed, Default
    <2>2. ASSUME Own(todo, 1) PROVE Stands(u, Fills(todo[1]), Wanted, Lawful)
        <3>1. 1 \in 1 .. Len(todo)
            BY <1>1
        <3>2. h \in Lawful
            BY <1>1, <2>1, <2>2, <3>1 DEF Queued
        <3> QED
            BY <1>1, <1>4, <2>2, <3>2
    <2> QED
        BY <1>1, <1>3, <2>1, <2>2, Given
<1> QED
    BY <1>2, <1>4, DiagramKept

\* A step of the diagram is done.
LEMMA DiagramDone ==
    ASSUME Types, Diagrammed, Default, NEW h \in HookNames \cup {"restore", "release"}, At(h),
           Own(todo, 1), NEW u \in Seq(Steps), Then(u), \A i \in 1 .. Len(u) : u[i] = "js",
           UNCHANGED <<project, options, outcome>>,
           NEW e \in HookNames \cup {"restore", "sync"}, Fills(h) = {Place(e)},
           trace' = Append(trace, e), h \in Lawful => Applies(e)
    PROVE  Diagrammed'
<1>1. todo # <<>> /\ todo[1] = h /\ todo \in Seq(Steps) /\ Len(todo) > 0 /\ Len(todo) \in Nat
    BY FirstStep
<1>2. outcome = "running" /\ project \in Projects /\ options \in RunOptions
    BY DEF At, Types
<1>3. todo' = u \o Tail(todo)
    BY DEF Then
<1>4. Queued(todo, Lawful) /\ 1 \in 1 .. Len(todo)
    BY <1>1 DEF Diagrammed, Default
<1>5. h \in Lawful
    BY <1>1, <1>4 DEF Queued
<1>6. Place(e) \in Wanted /\ Place(e) \in 1 .. 11
    BY <1>2, <1>5, WantedAre
<1>7. /\ Queued(todo', Lawful)
      /\ Left(todo) \subseteq Left(todo') \cup Fills(todo[1])
      /\ \A p \in Fills(todo[1]), q \in Left(todo') : p < q
      /\ Left(todo') \subseteq Left(todo)
    BY <1>1, <1>3, <1>4, Consumed
<1>8. Place(e) \in Left(todo)
    BY <1>1, <1>4, <1>6 DEF Left
<1>9. /\ Left(todo) \subseteq Left(todo') \cup {Place(e)}
      /\ \A q \in Left(todo') : Place(e) < q
    BY <1>1, <1>7
<1> QED
    BY <1>2, <1>6, <1>7, <1>8, <1>9, DiagramGrows

LEMMA BuildFollows == ASSUME Types, Diagrammed, Build PROVE Diagrammed'
<1>1. /\ At("build") /\ Then(Pipeline) /\ UNCHANGED <<project, options, outcome, trace>>
      /\ project \in Projects /\ options \in RunOptions
    BY DEF Build, Types
<1>2. Pipeline \in Seq(Steps)
    <2>1. project.execute \in BOOLEAN
        BY <1>1, ExecuteAssumption DEF Projects
    <2>2. Pipeline \in Seq(PipelineSteps)
        BY <1>1, <2>1, PipelinePlain
    <2>3. PipelineSteps \subseteq Steps
        BY DEF PipelineSteps, Steps, HookNames
    <2> QED
        BY <2>2, <2>3
<1>3. ASSUME Default PROVE Stands(Pipeline, Fills("build"), Wanted, Lawful)
    <2>1. Piece(Pipeline, 1, 11, Wanted, Lawful)
        BY <1>1, <1>3, ThePipelinePiece DEF Default
    <2> QED
        BY <2>1, FillsAre DEF Piece
<1> QED
    BY <1>1, <1>2, <1>3, DiagramThen

LEMMA EnterFollows == ASSUME Types, Diagrammed, Enter PROVE Diagrammed'
<1>1. /\ UNCHANGED <<project, options, outcome, trace>>
      /\ project \in Projects /\ options \in RunOptions
    BY DEF Enter, Types
<1>2. CASE At("database") /\ Then(DatabaseSteps(TRUE))
    <2>1. PICK u : u = DatabaseSteps(TRUE)
        OBVIOUS
    <2>2. u \in Seq(Steps) /\ Then(u)
        BY <1>2, <2>1, DatabaseGoodSteps DEF Good
    <2>3. ASSUME "database" \in Lawful PROVE Stands(u, Fills("database"), Wanted, Lawful)
        <3>1. Piece(u, 2, 6, Wanted, Lawful)
            BY <1>1, <2>1, <2>3, TheDatabasePiece DEF Lawful
        <3> QED
            BY <3>1, FillsAre DEF Piece
    <2>4. PICK h : h = "database"
        OBVIOUS
    <2>5. At(h) /\ (h = "js" => u = <<>>) /\ (h \in Lawful => Stands(u, Fills(h), Wanted, Lawful))
        BY <1>2, <2>3, <2>4
    <2> QED
        BY <1>1, <2>2, <2>5, DiagramThen
<1>3. CASE At("files") /\ Then(FilesSteps(TRUE))
    <2>1. PICK u : u = FilesSteps(TRUE)
        OBVIOUS
    <2>2. u \in Seq(Steps) /\ Then(u)
        BY <1>3, <2>1, FilesGoodSteps DEF Good
    <2>3. ASSUME "files" \in Lawful PROVE Stands(u, Fills("files"), Wanted, Lawful)
        <3>1. Piece(u, 7, 9, Wanted, Lawful)
            BY <1>1, <2>1, <2>3, TheFilesPiece DEF Lawful
        <3> QED
            BY <3>1, FillsAre DEF Piece
    <2>4. PICK h : h = "files"
        OBVIOUS
    <2>5. At(h) /\ (h = "js" => u = <<>>) /\ (h \in Lawful => Stands(u, Fills(h), Wanted, Lawful))
        BY <1>3, <2>3, <2>4
    <2> QED
        BY <1>1, <2>2, <2>5, DiagramThen
<1>4. CASE \E h \in {"clone_db", "clone_files", "clone_all"} : At(h) /\ \E u : Good(u) /\ Then(u)
    <2>1. PICK h \in {"clone_db", "clone_files", "clone_all"} : At(h) /\ \E u : Good(u) /\ Then(u)
        BY <1>4
    <2>2. PICK u : Good(u) /\ Then(u)
        BY <2>1
    <2>3. u \in Seq(Steps) /\ h \notin Lawful /\ h # "js"
        BY <2>2 DEF Good, Lawful
    <2> QED
        BY <1>1, <2>1, <2>2, <2>3, DiagramThen
<1>5. /\ Good(DatabaseSteps(FALSE)) /\ Good(FilesSteps(FALSE))
      /\ Good(DatabaseSteps(FALSE) \o FilesSteps(FALSE))
    BY DatabaseGoodSteps, FilesGoodSteps, BothSteps
<1> QED
    BY <1>2, <1>3, <1>4, <1>5 DEF Enter

\* A step that no place is made of, or the end of a function.
LEMMA PlainFollows ==
    ASSUME Types, Diagrammed,
           NEW h \in {"dump", "fetch", "reset", "sync", "manifest", "js"}, At(h), Then(<<>>),
           UNCHANGED <<project, options, outcome, trace>>
    PROVE  Diagrammed'
<1>1. <<>> \in Seq(Steps) /\ Fills(h) = {} /\ Len(<<>>) = 0
    BY EmptySeq, FillsAre
<1>2. Stands(<<>>, Fills(h), Wanted, Lawful)
    BY <1>1 DEF Stands
<1> QED
    BY <1>1, <1>2, DiagramThen

LEMMA OwnUnlessCalled ==
    ASSUME Types, NEW h, At(h), h # "js"
    PROVE  Own(todo, 1) <=> ~InScript
<1>1. Len(todo) \in Nat /\ Len(todo) > 0
    BY FirstStep
<1> QED
    BY <1>1 DEF Own, InScript, Contains

LEMMA CallFollows ==
    ASSUME Types, Lined, Diagrammed, NEW h \in HookNames \cup {"execute"}, Call(h)
    PROVE  Diagrammed'
<1>1. /\ At(h) /\ UNCHANGED <<project, options, outcome>>
      /\ project \in Projects /\ options \in RunOptions
    BY DEF Call, Types
<1>2. todo # <<>> /\ todo[1] = h /\ todo \in Seq(Steps) /\ Len(todo) > 0 /\ Len(todo) \in Nat
    BY <1>1, FirstStep
<1>3. Own(todo, 1)
    <2>1. h \notin Quiet /\ h # "js"
        BY DEF Quiet, Actions, HookNames
    <2>2. \A j \in 1 .. Len(todo) : j = 1 \/ (1 < j /\ 1 \in 1 .. Len(todo))
        BY <1>2
    <2>3. \A j \in 1 .. Len(todo) : todo[j] # "js"
        BY <1>2, <2>1, <2>2 DEF Lined, OneScript
    <2> QED
        BY <2>3 DEF Own
<1>4. PICK u : u = <<"js">>
    OBVIOUS
<1>5. u \in Seq(Steps) /\ \A i \in 1 .. Len(u) : u[i] = "js"
    <2>1. <<"js">> \in Seq(Steps) /\ Len(<<"js">>) = 1 /\ <<"js">>[1] = "js"
        BY DEF Steps
    <2> QED
        BY <1>4, <2>1
<1>6. <<>> \in Seq(Steps) /\ Len(<<>>) = 0
    BY EmptySeq
<1>7. CASE Default
    <2>1. h \in Lawful
        <3>1. Queued(todo, Lawful) /\ 1 \in 1 .. Len(todo)
            BY <1>2, <1>7 DEF Diagrammed, Default
        <3> QED
            BY <1>2, <1>3, <3>1 DEF Queued
    <2>2. h \in HookNames /\ Fills(h) = {Place(h)}
        BY <2>1, FillsAre DEF Lawful
    <2>3. CASE h \in project.hooks
        <3>1. Then(u) /\ trace' = Append(trace, h) /\ Applies(h)
            BY <1>4, <2>1, <2>3 DEF Call, Lawful
        <3> QED
            BY <1>1, <1>3, <1>5, <1>7, <2>2, <3>1, DiagramDone
    <2>4. CASE h \notin project.hooks
        <3>1. Then(<<>>) /\ UNCHANGED trace
            BY <2>1, <2>4 DEF Call, Lawful
        <3>2. Fills(h) \cap Wanted = {}
            BY <1>1, <2>2, <2>4, WantedAre
        <3>3. Stands(<<>>, Fills(h), Wanted, Lawful)
            BY <1>6, <3>2 DEF Stands
        <3>4. h # "js"
            BY <2>2 DEF HookNames
        <3> QED
            BY <1>1, <1>6, <3>1, <3>3, <3>4, DiagramThen
    <2> QED
        BY <2>3, <2>4
<1>8. CASE ~Default
    BY <1>1, <1>8 DEF Diagrammed, Default
<1> QED
    BY <1>7, <1>8

\* The restore, or the end of the file step, called or not.
LEMMA MarkFollows ==
    ASSUME Types, Diagrammed, NEW h \in {"restore", "release"}, At(h), Then(<<>>),
           NEW e \in {"restore", "sync"}, h = "restore" <=> e = "restore", Mark(e),
           UNCHANGED <<project, options, outcome>>
    PROVE  Diagrammed'
<1>1. <<>> \in Seq(Steps) /\ \A i \in 1 .. Len(<<>>) : <<>>[i] = "js"
    BY EmptySeq
<1>2. Own(todo, 1) <=> ~InScript
    BY OwnUnlessCalled
<1>3. CASE InScript
    <2>1. UNCHANGED trace /\ ~Own(todo, 1)
        BY <1>2, <1>3 DEF Mark
    <2> QED
        BY <1>1, <2>1, DiagramThen
<1>4. CASE ~InScript
    <2>1. trace' = Append(trace, e) /\ Own(todo, 1)
        BY <1>2, <1>4 DEF Mark
    <2>2. Fills(h) = {Place(e)} /\ (h \in Lawful => Applies(e))
        <3>1. Place("sync") = 8
            BY DEF Place
        <3>2. CASE h = "restore"
            BY <3>2, FillsAre DEF Lawful
        <3>3. CASE h = "release"
            BY <3>1, <3>3, FillsAre DEF Lawful
        <3> QED
            BY <3>2, <3>3
    <2>3. CASE Default
        BY <1>1, <2>1, <2>2, <2>3, DiagramDone
    <2>4. CASE ~Default
        BY <2>4 DEF Diagrammed, Default
    <2> QED
        BY <2>3, <2>4
<1> QED
    BY <1>3, <1>4

\* Nothing is left to do.
LEMMA EndFollows ==
    ASSUME Diagrammed, UNCHANGED <<project, options, trace>>, todo' = <<>>,
           outcome' \in {"failed", "panic"}
    PROVE  Diagrammed'
<1>1. Queued(todo', Lawful) /\ Left(todo') = {}
    BY EmptyLeft
<1> QED
    BY <1>1, DiagramKept

LEMMA RaiseFollows ==
    ASSUME Types, Diagrammed, outcome = "running", Raise, UNCHANGED <<project, options, trace>>
    PROVE  Diagrammed'
<1>1. CASE outcome' = "failed" /\ todo' = <<>>
    BY <1>1, EndFollows
<1>2. ASSUME NEW c \in 1 .. Len(todo), todo[c] = "js", todo' = SubSeq(todo, c, Len(todo)),
             UNCHANGED outcome
      PROVE  Diagrammed'
    <2>1. ASSUME Default PROVE Queued(todo', Lawful) /\ Left(todo') = Left(todo)
        <3>1. Queued(todo, Lawful) /\ todo \in Seq(Steps)
            BY <2>1 DEF Diagrammed, Default, Types
        <3> QED
            BY <1>2, <3>1, OwnDropped
    <2> QED
        BY <1>2, <2>1, DiagramKept
<1> QED
    BY <1>1, <1>2 DEF Raise

LEMMA CallBackFollows ==
    ASSUME Types, Diagrammed, NEW action \in Actions, CallBack(action)
    PROVE  Diagrammed'
<1>1. /\ At("js") /\ todo' = <<action>> \o todo /\ action \in Steps
      /\ UNCHANGED <<project, options, outcome, trace>>
    BY DEF CallBack, Steps
<1>2. todo # <<>> /\ todo[1] = "js" /\ todo \in Seq(Steps) /\ outcome = "running"
    BY <1>1, FirstStep DEF At
<1>3. ASSUME Default PROVE Queued(todo', Lawful) /\ Left(todo') = Left(todo)
    <2>1. Queued(todo, Lawful)
        BY <1>3 DEF Diagrammed, Default
    <2> QED
        BY <1>1, <1>2, <2>1, OwnPushed
<1> QED
    BY <1>1, <1>2, <1>3, DiagramKept

LEMMA InitFollows == Init => Diagrammed
<1> SUFFICES ASSUME Init PROVE Diagrammed
    OBVIOUS
<1>1. /\ todo = <<"js", "build">> /\ outcome = "running" /\ trace = <<>>
      /\ project \in Projects /\ options \in RunOptions
    BY DEF Init, Projects
<1>2. Len(todo) = 2 /\ todo[1] = "js" /\ todo[2] = "build" /\ Len(trace) = 0
    BY <1>1
<1>3. ~Own(todo, 1) /\ Own(todo, 2)
    BY <1>2 DEF Own
<1>4. "build" \in Lawful
    BY <1>1, HooksAssumption DEF Lawful, Steps, Projects, HookNames
<1>5. Queued(todo, Lawful)
    BY <1>2, <1>3, <1>4 DEF Queued
<1>6. Left(todo) = 1 .. 11
    <2>1. Fills("build") = 1 .. 11
        BY FillsAre
    <2> QED
        BY <1>2, <1>3, <2>1 DEF Left
<1>7. Done(trace) = {} /\ Traces(trace, Wanted)
    BY <1>2 DEF Done, Traces
<1>8. Wanted \subseteq Left(todo)
    BY <1>6 DEF Wanted
<1> QED
    BY <1>1, <1>5, <1>7, <1>8 DEF Diagrammed

LEMMA DiagramStep == PipeInv /\ Diagrammed /\ [Next]_vars => Diagrammed'
<1> SUFFICES ASSUME PipeInv, Diagrammed, [Next]_vars PROVE Diagrammed'
    OBVIOUS
<1>1. Types /\ Lined
    BY DEF PipeInv
<1>2. CASE Build \/ Enter
    BY <1>1, <1>2, BuildFollows, EnterFollows
<1>3. CASE Dump \/ Fetch \/ Reset \/ Sync \/ WriteManifest \/ Return
    BY <1>1, <1>3, PlainFollows DEF Dump, Fetch, Reset, Sync, WriteManifest, Return
<1>4. CASE Restore \/ Release
    BY <1>1, <1>4, MarkFollows DEF Restore, Release
<1>5. CASE Fail \/ Throw
    BY <1>1, <1>5, RaiseFollows DEF Fail, Throw, At
<1>6. CASE Exit
    <2>1. outcome = "running" /\ UNCHANGED <<project, options, todo, trace>> /\ todo = <<>>
        BY <1>6 DEF Exit
    <2>2. Default => Queued(todo, Lawful)
        BY DEF Diagrammed, Default
    <2> QED
        BY <2>1, <2>2, DiagramKept
<1>7. CASE \E name \in HookNames \cup {"execute"} : Call(name)
    BY <1>1, <1>7, CallFollows
<1>8. CASE \E action \in Actions : CallBack(action)
    BY <1>1, <1>8, CallBackFollows
<1>9. CASE \E call \in Actions \cup Commands : Panic(call)
    BY <1>9, EndFollows DEF Panic
<1>10. ASSUME UNCHANGED <<project, options, todo, outcome, trace>> PROVE Diagrammed'
    <2>1. Default => Queued(todo, Lawful)
        BY DEF Diagrammed, Default
    <2>2. Default /\ outcome' = "ok" => todo' = <<>>
        BY <1>10 DEF Diagrammed, Default
    <2> QED
        BY <1>10, <2>1, <2>2, DiagramKept
<1>11. CASE \E command \in Commands : Command(command)
    BY <1>10, <1>11 DEF Command
<1>12. CASE UNCHANGED vars
    BY <1>10, <1>12 DEF vars, control
<1> QED
    BY <1>2, <1>3, <1>4, <1>5, <1>6, <1>7, <1>8, <1>9, <1>11, <1>12 DEF Next
-------------------------------------------------------------------------------------
(* The theorems.                                                                     *)

\* Types; at most one function of the project runs at a time, and the state is borrowed
\* exactly while a block of run_files_core is between two of its entries.
THEOREM PipelineTypes == Spec => []TypeOK
<1>1. PipeInv => TypeOK
    <2> SUFFICES ASSUME PipeInv PROVE TypeOK
        OBVIOUS
    <2>1. Types /\ Lined /\ (borrowed <=> batch > 0)
        BY DEF PipeInv, Borrows
    <2> QED
        BY <2>1, OneFunction DEF TypeOK, Types
<1> QED
    BY <1>1, PipeAlways, PTL

\* Whatever failed before it and whatever it caught, a hook or execute() that calls back
\* never finds the state borrowed, for any number of entries and of calls.
THEOREM HooksFindTheStateFree == Spec => []ScriptNeverPanics
<1>1. PipeInv => ScriptNeverPanics
    BY DEF PipeInv
<1> QED
    BY <1>1, PipeAlways, PTL

\* The manifest of a backup that ran the default pipeline describes what this run has
\* brought home: write_manifest comes after the dump and the files, also when hooks
\* clone again or catch what failed.
THEOREM ManifestsAreOwn == Spec => []ManifestIsOfThisRun
<1>1. PipeInv => ManifestIsOfThisRun
    BY DEF PipeInv
<1> QED
    BY <1>1, PipeAlways, PTL

\* When afterRestore runs, the local database holds the dump that this run has fetched,
\* and after a reset nothing else: whatever the hooks before it did.
THEOREM MigratesRestored == Spec => MigratesWhatWasRestored
<1> DEFINE Migrates ==
        trace' # trace /\ trace'[Len(trace')] = "afterRestore" =>
            /\ "new" \in database
            /\ project.reset # "none" => database = {"new"}
<1>1. ASSUME PipeInv, [Next]_vars PROVE [Migrates]_vars
    <2> SUFFICES ASSUME trace' # trace, trace'[Len(trace')] = "afterRestore"
                 PROVE  /\ "new" \in database
                        /\ project.reset # "none" => database = {"new"}
        OBVIOUS
    <2>1. trace \in Seq(Steps)
        BY <1>1 DEF PipeInv, Types
    <2>2. \A e \in Steps : trace' = Append(trace, e) => e = "afterRestore"
        BY <2>1, AppendProperties
    <2>3. PICK e \in HookNames \cup {"execute"} : Call(e) /\ trace' = Append(trace, e)
        <3>1. "restore" \in Steps /\ "sync" \in Steps
            BY DEF Steps
        <3>2. ~Restore /\ ~Release
            BY <2>2, <3>1 DEF Restore, Release, Mark
        <3>3. \E e \in HookNames \cup {"execute"} : Call(e)
            BY <1>1, <3>2 DEF Next, Build, Enter, Dump, Fetch, Reset, Sync, WriteManifest, Fail,
                              Return, Throw, Exit, CallBack, Command, Panic, vars
        <3> QED
            BY <3>3 DEF Call
    <2>4. e = "afterRestore"
        BY <2>2, <2>3 DEF Steps
    <2>5. todo # <<>> /\ todo[1] = "afterRestore"
        BY <1>1, <2>3, <2>4, FirstStep DEF PipeInv, Call
    <2> QED
        BY <1>1, <2>5 DEF PipeInv, Heads
<1> QED
    BY <1>1, PipeAlways, PTL DEF Spec, MigratesWhatWasRestored

\* The default pipeline follows the diagram of the guide: whatever fails, whatever the
\* hooks call, catch and clone again, a step that applies is never left out, swapped or
\* run twice, and a run that succeeds has done them all.
THEOREM FollowsDiagram == Spec => []FollowsTheDiagram
<1>1. ASSUME Types, Diagrammed PROVE FollowsTheDiagram
    <2> SUFFICES ASSUME ~project.execute, options.mode # "validate"
                 PROVE  /\ \A k \in 1 .. Len(trace) : \E p \in 1 .. Len(Diagram) :
                              /\ trace[k] = Diagram[p] /\ Applies(trace[k])
                              /\ {trace[l] : l \in 1 .. k - 1} = Ahead(p)
                        /\ outcome = "ok" => Range(trace) = Ahead(Len(Diagram) + 1)
        BY DEF FollowsTheDiagram
    <2>1. /\ \A k \in 1 .. Len(trace) :
                Place(trace[k]) \in Wanted /\ trace[k] = Diagram[Place(trace[k])]
          /\ \A k, l \in 1 .. Len(trace) : k < l => Place(trace[k]) < Place(trace[l])
          /\ \A p \in Wanted, q \in Done(trace) : p < q => p \in Done(trace)
          /\ outcome = "ok" => Wanted \subseteq Done(trace) \cup Left(todo) /\ todo = <<>>
        <3>1. project.execute = FALSE
            BY <1>1, ExecuteAssumption DEF Types, Projects
        <3> QED
            BY <1>1, <3>1 DEF Diagrammed, Traces
    <2>2. Len(Diagram) = 11 /\ \A p \in 1 .. 11 : Place(Diagram[p]) = p
        BY PlacesAre
    <2>3. \A p \in Wanted : p \in 1 .. 11 /\ Applies(Diagram[p])
        BY DEF Wanted
    <2>4. \A p \in 1 .. 11 : Applies(Diagram[p]) => p \in Wanted
        BY DEF Wanted
    <2>5. Len(trace) \in Nat /\ DOMAIN trace = 1 .. Len(trace)
        BY <1>1, LenProperties DEF Types
    <2>6. ASSUME NEW k \in 1 .. Len(trace)
          PROVE  \E p \in 1 .. Len(Diagram) :
                    /\ trace[k] = Diagram[p] /\ Applies(trace[k])
                    /\ {trace[l] : l \in 1 .. k - 1} = Ahead(p)
        <3>1. PICK p : p = Place(trace[k])
            OBVIOUS
        <3>2. p \in 1 .. 11 /\ trace[k] = Diagram[p] /\ Applies(trace[k]) /\ p \in Done(trace)
            BY <2>1, <2>3, <3>1 DEF Done
        <3>3. ASSUME NEW l \in 1 .. k - 1 PROVE trace[l] \in Ahead(p)
            <4>1. l \in 1 .. Len(trace) /\ l < k
                BY <2>5
            <4>2. PICK q : q = Place(trace[l])
                OBVIOUS
            <4>3. q \in 1 .. 11 /\ Applies(Diagram[q]) /\ trace[l] = Diagram[q] /\ q < p
                BY <2>1, <2>3, <3>1, <4>1, <4>2
            <4>4. q \in 1 .. p - 1
                BY <3>2, <4>3
            <4> QED
                BY <4>3, <4>4 DEF Ahead
        <3>4. ASSUME NEW q \in 1 .. p - 1, Applies(Diagram[q])
              PROVE  \E l \in 1 .. k - 1 : trace[l] = Diagram[q]
            <4>1. q \in 1 .. 11 /\ q < p
                BY <3>2
            <4>2. q \in Wanted
                BY <2>4, <3>4, <4>1
            <4>3. q \in Done(trace)
                BY <2>1, <3>2, <4>1, <4>2
            <4>4. PICK l \in 1 .. Len(trace) : q = Place(trace[l])
                BY <4>3 DEF Done
            <4>5. trace[l] = Diagram[q]
                BY <2>1, <4>4
            <4>6. ~(k < l) /\ k # l
                BY <2>1, <3>1, <4>1, <4>4, <3>2
            <4>7. l \in 1 .. k - 1
                BY <2>5, <4>6
            <4> QED
                BY <4>5, <4>7
        <3>5. Ahead(p) \subseteq {trace[l] : l \in 1 .. k - 1}
            BY <3>4 DEF Ahead
        <3> QED
            BY <2>2, <3>2, <3>3, <3>5
    <2>7. ASSUME outcome = "ok" PROVE Range(trace) = Ahead(Len(Diagram) + 1)
        <3>1. Wanted \subseteq Done(trace)
            BY <2>1, <2>7, EmptyLeft
        <3>2. ASSUME NEW k \in 1 .. Len(trace) PROVE trace[k] \in Ahead(12)
            <4>1. PICK p : p = Place(trace[k])
                OBVIOUS
            <4>2. p \in 1 .. 12 - 1 /\ trace[k] = Diagram[p] /\ Applies(Diagram[p])
                BY <2>1, <2>3, <4>1
            <4> QED
                BY <4>2 DEF Ahead
        <3>3. ASSUME NEW q \in 1 .. 12 - 1, Applies(Diagram[q]) PROVE Diagram[q] \in Range(trace)
            <4>1. q \in 1 .. 11
                OBVIOUS
            <4>2. q \in Wanted
                BY <2>4, <3>3, <4>1
            <4>3. PICK l \in 1 .. Len(trace) : q = Place(trace[l])
                BY <3>1, <4>2 DEF Done
            <4> QED
                BY <2>1, <2>5, <4>3 DEF Range
        <3>4. Range(trace) \subseteq Ahead(12)
            BY <2>5, <3>2 DEF Range
        <3>5. Ahead(12) \subseteq Range(trace)
            BY <3>3 DEF Ahead
        <3>6. Len(Diagram) + 1 = 12
            BY <2>2
        <3> QED
            BY <3>4, <3>5, <3>6
    <2> QED
        BY <2>6, <2>7
<1>2. Types /\ Diagrammed => FollowsTheDiagram
    BY <1>1
<1>3. PipeInv => Types
    BY DEF PipeInv
<1>4. Spec => []Diagrammed
    BY InitFollows, DiagramStep, PipeAlways, PTL DEF Spec
<1> QED
    BY <1>2, <1>3, <1>4, PipeAlways, PTL
=====================================================================================
