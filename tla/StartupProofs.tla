---------------------------- MODULE StartupProofs ----------------------------
(***************************************************************************)
(* Why the start of ehp may crash and what it takes from its arguments and *)
(* its configuration, for any of them and however wide a len_t is.         *)
(***************************************************************************)
EXTENDS Startup, FiniteSetTheorems, TLAPS

\* The loop of config_init is at a line, and a start that has crashed had a
\* cause.
IInv ==
    /\ file \in Seq(Piece) /\ file # <<>>
    /\ pc = "config" => i \in Nat
    /\ CrashExplained

\* A remainder is no more than the number.
LEMMA ModAtMost ==
    ASSUME NEW a \in Nat, NEW b \in Nat \ {0}
    PROVE  a % b \in 0 .. a
  <1>1. a % b \in 0 .. b - 1
    OBVIOUS
  <1>2. CASE a < b
    <2>1. a % b = a
      BY <1>2
    <2> QED
      BY <2>1
  <1>3. CASE a >= b
    BY <1>1, <1>3
  <1> QED
    BY <1>2, <1>3

\* The lines that are read of a file with a newline are before its last two.
LEMMA LineBeforeEnd ==
    ASSUME IInv, pc = "config", i < NLines, Line.kind = "nothing", Len(file) # 1
    PROVE  \E n \in 1 .. Len(file) - 2 : file[n] = Nothing
  <1>1. Len(file) \in Nat /\ Len(file) # 0
    BY DEF IInv
  <1>2. Len(file) - 2 \in Nat /\ i \in Nat
    <2>1. i \in Nat
      BY DEF IInv
    <2>2. Len(file) >= 2
      <3>1. \A n \in Nat : n # 0 /\ n # 1 => n >= 2
        OBVIOUS
      <3> QED
        BY <1>1, <3>1
    <2> QED
      BY <1>1, <2>1, <2>2
  <1>3. NLines \in 0 .. Len(file) - 2
    BY <1>2, ModAtMost, StartupAssumption DEF NLines
  <1>4. i + 1 \in 1 .. Len(file) - 2 /\ i < Len(file) /\ i + 1 \in 1 .. Len(file)
    BY <1>1, <1>2, <1>3
  <1>5. file[i + 1] \in Piece /\ file[i + 1].kind = "nothing"
    BY <1>4 DEF IInv, Line
  <1>6. file[i + 1] = Nothing
    BY <1>5 DEF Piece, Setting, Nothing
  <1> QED
    BY <1>4, <1>6

LEMMA IInvHolds == Spec => []IInv
  <1>1. Init => IInv
    BY StartupAssumption DEF Init, IInv, CrashExplained
  <1>2. IInv /\ [Next]_vars => IInv'
    <2> SUFFICES ASSUME IInv, [Next]_vars PROVE IInv'
      OBVIOUS
    <2>0. pc # "crash" \/ UNCHANGED vars
      BY DEF Next, LongOption, ShortOptions, NoOption, OpenConfig, ReadNothing, ReadComment,
             ReadSetting, ConfigRead, LogInit, HttpInit, PoolInit, Option
    <2>1. ASSUME NEW how, End(how), how # "config", how # "crash" PROVE IInv'
      BY <2>1 DEF End, IInv, CrashExplained
    <2>2. ASSUME NEW field, NEW n, Taken(field, n), pc = "args" PROVE IInv'
      BY <2>2 DEF Taken, IInv, CrashExplained
    <2>3. ASSUME NEW a, TakeFile(a), pc = "args" PROVE IInv'
      BY <2>1, <2>2, <2>3 DEF TakeFile
    <2>4. CASE LongOption
      BY <2>1, <2>2, <2>3, <2>4 DEF LongOption, Option
    <2>5. CASE ShortOptions
      BY <2>1, <2>2, <2>3, <2>5 DEF ShortOptions, Option
    <2>6. CASE NoOption
      BY <2>1, <2>6 DEF NoOption
    <2>7. CASE OpenConfig
      <3>1. CASE args.config \in ConfigFiles
        BY <2>7, <3>1 DEF OpenConfig, IInv, CrashExplained
      <3>2. CASE args.config \notin ConfigFiles
        BY <2>1, <2>7, <3>2 DEF OpenConfig
      <3> QED
        BY <3>1, <3>2
    <2>8. CASE ReadNothing
      <3>1. Len(file) = 1 \/ \E n \in 1 .. Len(file) - 2 : file[n] = Nothing
        BY <2>8, LineBeforeEnd DEF ReadNothing
      <3> QED
        BY <2>8, <3>1 DEF ReadNothing, End, IInv, CrashExplained
    <2>9. CASE ReadComment
      BY <2>9 DEF ReadComment, IInv, CrashExplained
    <2>10. CASE ReadSetting
      BY <2>10 DEF ReadSetting, IInv, CrashExplained
    <2>11. CASE ConfigRead
      BY <2>1, <2>11 DEF ConfigRead
    <2>12. CASE LogInit
      BY <2>1, <2>12 DEF LogInit
    <2>13. CASE HttpInit
      BY <2>13 DEF HttpInit, End, IInv, CrashExplained
    <2>14. CASE PoolInit
      BY <2>14, StartupAssumption DEF PoolInit, End, IInv, CrashExplained
    <2>15. CASE UNCHANGED vars
      BY <2>15 DEF vars, IInv, CrashExplained
    <2> QED
      BY <2>4, <2>5, <2>6, <2>7, <2>8, <2>9, <2>10, <2>11, <2>12, <2>13, <2>14, <2>15
         DEF Next
  <1> QED
    BY <1>1, <1>2, PTL DEF Spec

\* The start ends in a crash only for the causes of CrashExplained: lines that
\* are read past the end of the file are not among them (config_init), unless
\* the file has no newline at all.
THEOREM CrashExplainedHolds == Spec => []CrashExplained
  BY IInvHolds, PTL DEF IInv

----------------------------------------------------------------------------
(* Types.                                                                  *)

Arguments == [is_daemon : BOOLEAN, is_debug : BOOLEAN, config : {DefaultFile} \cup Word]

\* The loop variables stay within the words and the pieces, and a setting is
\* counted for each line that was passed.
TInv ==
    /\ TypeOK
    /\ argv \in Seq(Word) /\ file \in Seq(Piece) /\ file # <<>>
    /\ args \in Arguments
    /\ pc = "args" => i \in 1 .. Len(argv) + 1 /\ len = 0
    /\ pc = "config" => i \in 0 .. Len(file) /\ len <= i

\* A line that is something is within the file.
LEMMA LineWithin ==
    ASSUME TInv, pc = "config", Line.kind # "nothing"
    PROVE  i \in Nat /\ i + 1 \in 1 .. Len(file) /\ Line \in Piece
  <1>1. i \in Nat /\ Len(file) \in Nat
    BY DEF TInv
  <1>2. i < Len(file)
    BY DEF Line, Nothing
  <1>3. i + 1 \in 1 .. Len(file)
    BY <1>1, <1>2
  <1> QED
    BY <1>1, <1>2, <1>3 DEF TInv, Line

LEMMA TInvHolds == Spec => []TInv
  <1>1. Init => TInv
    <2> SUFFICES ASSUME Init PROVE TInv
      OBVIOUS
    <2>1. argv \in Seq(Word) /\ file \in Seq(Piece) /\ file # <<>>
      BY StartupAssumption DEF Init
    <2>2. Len(argv) \in Nat /\ Len(file) \in Nat
      BY <2>1
    <2>3. args \in Arguments
      BY DEF Init, Arguments
    <2>4. i = 1 /\ len = 0 /\ pc = "args"
      BY DEF Init
    <2>5. /\ i \in 0 .. Len(argv) + Len(file) + 1 /\ i \in 1 .. Len(argv) + 1
          /\ len \in 0 .. Len(file)
      BY <2>2, <2>4
    <2>8. factor \in Nat \ {0}
      BY StartupAssumption DEF Init
    <2>6. config \in [Keys -> Values \cup {Cut, NULL}]
      BY DEF Init
    <2>7. args.is_daemon \in BOOLEAN /\ args.is_debug \in BOOLEAN
      BY <2>3 DEF Arguments
    <2> QED
      BY <2>1, <2>3, <2>4, <2>5, <2>6, <2>7, <2>8 DEF TInv, TypeOK
  <1>2. TInv /\ [Next]_vars => TInv'
    <2> SUFFICES ASSUME TInv, [Next]_vars PROVE TInv'
      OBVIOUS
    <2>0. Len(argv) \in Nat /\ Len(file) \in Nat
      BY DEF TInv
    <2>1. ASSUME NEW how, End(how),
                 how \in {"log", "http", "pool", "exit 0", "exit 1", "crash", "running"}
          PROVE  TInv'
      BY <2>1 DEF End, TInv, TypeOK
    <2>2. ASSUME NEW a \in Arguments, NEW n \in 1 .. 2, Taken(a, n), pc = "args",
                 i + n <= Len(argv) + 1
          PROVE  TInv'
      <3>1. i \in Nat /\ i' \in 1 .. Len(argv) + 1
        BY <2>0, <2>2 DEF Taken, TInv
      <3>2. i' \in 0 .. Len(argv) + Len(file) + 1
        BY <2>0, <3>1
      <3>3. a.is_daemon \in BOOLEAN /\ a.is_debug \in BOOLEAN
        BY DEF Arguments
      <3> QED
        BY <2>2, <3>1, <3>2, <3>3 DEF Taken, TInv, TypeOK
    <2>3. ASSUME NEW a \in Arguments, TakeFile(a), pc = "args"
          PROVE  TInv'
      <3>1. CASE i < Len(argv)
        <4>1. i \in 1 .. Len(argv) + 1
          BY <2>3 DEF TInv
        <4>2. i + 1 \in 1 .. Len(argv) /\ i + 2 <= Len(argv) + 1
          BY <2>0, <3>1, <4>1
        <4>3. argv[i + 1] \in Word
          BY <4>2 DEF TInv
        <4>4. [a EXCEPT !.config = argv[i + 1]] \in Arguments
          BY <4>3 DEF Arguments
        <4>5. Taken([a EXCEPT !.config = argv[i + 1]], 2)
          BY <2>3, <3>1 DEF TakeFile
        <4> QED
          BY <2>2, <2>3, <4>2, <4>4, <4>5
      <3>2. CASE ~(i < Len(argv))
        BY <2>1, <2>3, <3>2 DEF TakeFile
      <3> QED
        BY <3>1, <3>2
    <2>4. ASSUME NEW kind, Option(kind)
          PROVE  i + 1 <= Len(argv) + 1 /\ pc = "args"
      <3>1. i \in Nat /\ i <= Len(argv) /\ pc = "args"
        BY <2>4 DEF Option, TInv
      <3> QED
        BY <2>0, <3>1
    <2>5. args \in Arguments
      BY DEF TInv
    <2>6. CASE LongOption
      <3>1. [args EXCEPT !.is_daemon = TRUE] \in Arguments
            /\ [args EXCEPT !.is_debug = TRUE] \in Arguments
        BY <2>5 DEF Arguments
      <3>2. i + 1 <= Len(argv) + 1 /\ pc = "args"
        BY <2>4, <2>6 DEF LongOption
      <3>3. \/ End("exit 0") \/ End("exit 1") \/ TakeFile(args)
            \/ Taken([args EXCEPT !.is_daemon = TRUE], 1)
            \/ Taken([args EXCEPT !.is_debug = TRUE], 1)
        BY <2>6 DEF LongOption
      <3>4. 1 \in 1 .. 2
        OBVIOUS
      <3>5. CASE \E a \in Arguments : Taken(a, 1)
        BY <2>2, <3>2, <3>4, <3>5
      <3> QED
        BY <2>1, <2>3, <2>5, <3>1, <3>2, <3>3, <3>5
    <2>7. CASE ShortOptions
      <3> DEFINE seen(n) == [args EXCEPT !.is_daemon = @ \/ n > 0]
      <3>1. \A n : seen(n) \in Arguments
        BY <2>5 DEF Arguments
      <3>2. i + 1 <= Len(argv) + 1 /\ pc = "args"
        BY <2>4, <2>7 DEF ShortOptions
      <3>3. \/ \E n : Taken(seen(n), 1)
            \/ \E n : TakeFile(seen(n))
            \/ End("exit 1")
        BY <2>7 DEF ShortOptions
      <3> HIDE DEF seen
      <3>4. 1 \in 1 .. 2
        OBVIOUS
      <3>5. CASE \E n : Taken(seen(n), 1)
        BY <2>2, <3>1, <3>2, <3>4, <3>5
      <3>6. CASE \E n : TakeFile(seen(n))
        BY <2>3, <3>1, <3>2, <3>6
      <3> QED
        BY <2>1, <3>3, <3>5, <3>6
    <2>8. CASE NoOption
      BY <2>1, <2>8 DEF NoOption
    <2>9. CASE OpenConfig
      <3>1. CASE args.config \in ConfigFiles
        <4>1. /\ pc' = "config" /\ i' = 0
              /\ UNCHANGED <<argv, file, args, config, len, factor>> /\ len = 0
          BY <2>9, <3>1 DEF OpenConfig, TInv
        <4>2. /\ i' \in 0 .. Len(argv) + Len(file) + 1 /\ i' \in 0 .. Len(file)
              /\ len' \in 0 .. Len(file) /\ len' <= i'
          BY <2>0, <4>1
        <4> QED
          BY <4>1, <4>2 DEF TInv, TypeOK
      <3>2. CASE args.config \notin ConfigFiles
        BY <2>1, <2>9, <3>2 DEF OpenConfig
      <3> QED
        BY <3>1, <3>2
    <2>10. CASE ReadNothing
      BY <2>1, <2>10 DEF ReadNothing
    <2>11. CASE ReadComment
      <3>1. i \in Nat /\ i + 1 \in 1 .. Len(file)
        BY <2>11, LineWithin DEF ReadComment
      <3>2. len \in 0 .. Len(file) /\ len <= i
        BY <2>11 DEF ReadComment, TInv, TypeOK
      <3>3. i' \in 0 .. Len(file) /\ len <= i'
            /\ i' \in 0 .. Len(argv) + Len(file) + 1
        BY <2>0, <2>11, <3>1, <3>2 DEF ReadComment
      <3> QED
        BY <2>11, <3>2, <3>3 DEF ReadComment, TInv, TypeOK
    <2>12. CASE ReadSetting
      <3>1. Line \in Setting /\ pc = "config"
        BY <2>12 DEF ReadSetting
      <3>2. Line.kind \in {"spaced", "tight", "bare"} /\ Line.value \in Values
        BY <3>1 DEF Setting
      <3>3. i \in Nat /\ i + 1 \in 1 .. Len(file)
        BY <3>1, <3>2, LineWithin
      <3>4. len \in 0 .. Len(file) /\ len <= i
        BY <3>1 DEF TInv, TypeOK
      <3>5. i' = i + 1 /\ len' = len + 1
        BY <2>12 DEF ReadSetting
      <3>6. /\ i' \in 0 .. Len(file) /\ len' \in 0 .. Len(file) /\ len' <= i'
            /\ i' \in 0 .. Len(argv) + Len(file) + 1
        BY <2>0, <3>3, <3>4, <3>5
      <3>7. config' \in [Keys -> Values \cup {Cut, NULL}]
        <4>1. Value(Line) \in Values \cup {Cut, NULL}
          BY <3>2 DEF Value
        <4>2. \A k \in Keys : config[k] \in Values \cup {Cut, NULL}
          BY DEF TInv, TypeOK
        <4>3. config' = [k \in Keys |-> IF k = Line.key THEN Value(Line)
                                         ELSE IF len >= factor THEN NULL ELSE config[k]]
          BY <2>12 DEF ReadSetting
        <4> HIDE DEF TInv
        <4> QED
          BY <4>1, <4>2, <4>3
      <3>8. factor' \in Nat \ {0}
        <4>1. factor \in Nat \ {0}
          BY DEF TInv, TypeOK
        <4>2. \A n \in Nat \ {0} : 2 * n \in Nat \ {0}
          OBVIOUS
        <4> QED
          BY <2>12, <4>1, <4>2 DEF ReadSetting
      <3> QED
        BY <2>12, <3>6, <3>7, <3>8 DEF ReadSetting, TInv, TypeOK
    <2>13. CASE ConfigRead
      BY <2>1, <2>13 DEF ConfigRead
    <2>14. CASE LogInit
      BY <2>1, <2>14 DEF LogInit
    <2>15. CASE HttpInit
      BY <2>1, <2>15 DEF HttpInit
    <2>16. CASE PoolInit
      BY <2>1, <2>16 DEF PoolInit
    <2>17. CASE UNCHANGED vars
      BY <2>17 DEF vars, TInv, TypeOK
    <2> QED
      BY <2>6, <2>7, <2>8, <2>9, <2>10, <2>11, <2>12, <2>13, <2>14, <2>15, <2>16, <2>17
         DEF Next
  <1> QED
    BY <1>1, <1>2, PTL DEF Spec

\* The loops of args_init and config_init stay within the words and one past
\* them, and within the pieces; no more settings are counted than there are
\* pieces.
THEOREM TypeOKHolds == Spec => []TypeOK
  BY TInvHolds, PTL DEF TInv

----------------------------------------------------------------------------
(* The settings.                                                           *)

\* A set of numbers has a least one, which Min takes.
LEMMA MinIs ==
    ASSUME NEW S \in SUBSET Nat, S # {}
    PROVE  Min(S) \in S /\ \A y \in S : Min(S) <= y
  <1> DEFINE R == {p \in Nat \X Nat : p[1] < p[2]}
  <1>1. IsWellFoundedOn(R, Nat)
    BY NatLessThanWellFounded DEF OpToRel
  <1> HIDE DEF R
  <1>2. PICK x \in S : \A y \in S : ~(<<y, x>> \in R)
    BY <1>1, WFMin
  <1>3. \A y \in S : x <= y
    <2>1. ASSUME NEW y \in S, y < x PROVE <<y, x>> \in R
      BY <2>1 DEF R
    <2>2. \A y \in S : ~(y < x)
      BY <1>2, <2>1
    <2> QED
      BY <2>2
  <1> QED
    BY <1>3 DEF Min

\* A bounded set of numbers has a greatest one, which Max takes.
LEMMA MaxIs ==
    ASSUME NEW n \in Nat, NEW S \in SUBSET (0 .. n), S # {}
    PROVE  Max(S) \in S /\ \A y \in S : y <= Max(S)
  <1> DEFINE T == {x \in Nat : n - x \in S}
  <1>1. T # {}
    <2>1. PICK x \in S : TRUE
      OBVIOUS
    <2>2. n - x \in T
      BY <2>1
    <2> QED
      BY <2>2
  <1>2. Min(T) \in T /\ \A y \in T : Min(T) <= y
    BY <1>1, MinIs
  <1>3. ASSUME NEW y \in S PROVE y <= n - Min(T)
    <2>1. n - y \in T
      OBVIOUS
    <2> HIDE DEF T
    <2> QED
      BY <1>2, <2>1 DEF T
  <1>4. n - Min(T) \in S
    BY <1>2
  <1> QED
    BY <1>3, <1>4 DEF Max

\* The greatest element of a set that has one more, greater than the others.
LEMMA MaxAdded ==
    ASSUME NEW n \in Nat, NEW S \in SUBSET (0 .. n)
    PROVE  Max(S \cup {n + 1}) = n + 1
  <1> DEFINE T == S \cup {n + 1}
  <1>1. T \in SUBSET (0 .. n + 1) /\ T # {} /\ n + 1 \in T /\ n + 1 \in Nat
    OBVIOUS
  <1> HIDE DEF T
  <1>2. Max(T) \in T /\ n + 1 <= Max(T)
    BY <1>1, MaxIs
  <1>3. Max(T) \in 0 .. n + 1
    BY <1>1, <1>2
  <1> QED
    BY <1>2, <1>3 DEF T

\* The settings among the first m pieces, those of key k, and what the last
\* of them sets it to.
SettingsIn(m) == {n \in 1 .. m : file[n] \in Setting}
LinesOf(k, m) == {n \in 1 .. m : file[n] \in Setting /\ file[n].key = k}
SetTo(k, m)   == IF LinesOf(k, m) = {} THEN NULL ELSE Value(file[Max(LinesOf(k, m))])

\* The map holds what the lines say that were passed.  Until the map grows.
SettingsInv ==
    /\ Len(file) <= LenWord
    /\ pc = "args" => len = 0 /\ factor = Factor /\ \A k \in Keys : config[k] = NULL
    /\ pc = "config" /\ Len(file) > 1 =>
          /\ i <= Len(file) - 2
          /\ len = Cardinality(SettingsIn(i))
          /\ Cardinality(SettingsIn(Len(file))) <= Factor =>
                factor = Factor /\ \A k \in Keys : config[k] = SetTo(k, i)
    /\ SettingsTaken

LEMMA NLinesIs ==
    ASSUME TInv, SettingsInv, Len(file) > 1
    PROVE  NLines = Len(file) - 2 /\ Len(file) - 2 \in Nat
  <1>1. Len(file) \in Nat /\ LenWord \in Nat \ {0} /\ Len(file) <= LenWord
    BY StartupAssumption DEF TInv, SettingsInv
  <1>2. Len(file) - 2 \in 0 .. LenWord - 1
    BY <1>1
  <1>3. \A a \in Nat, b \in Nat \ {0} : a < b => a % b = a
    OBVIOUS
  <1> QED
    BY <1>1, <1>2, <1>3 DEF NLines

LEMMA SettingsFinite ==
    ASSUME TInv, NEW m \in 0 .. Len(file)
    PROVE  /\ IsFiniteSet(SettingsIn(m)) /\ Cardinality(SettingsIn(m)) \in Nat
           /\ SettingsIn(m) \subseteq SettingsIn(Len(file))
           /\ Cardinality(SettingsIn(m)) <= Cardinality(SettingsIn(Len(file)))
  <1>1. Len(file) \in Nat /\ m \in Nat /\ m <= Len(file)
    BY DEF TInv
  <1>2. IsFiniteSet(1 .. Len(file))
    BY <1>1, FS_Interval
  <1>3. SettingsIn(Len(file)) \in SUBSET (1 .. Len(file))
    BY DEF SettingsIn
  <1>4. SettingsIn(m) \in SUBSET SettingsIn(Len(file))
    BY <1>1 DEF SettingsIn
  <1>5. IsFiniteSet(SettingsIn(Len(file)))
    BY <1>2, <1>3, FS_Subset
  <1>6. /\ IsFiniteSet(SettingsIn(m))
        /\ Cardinality(SettingsIn(m)) <= Cardinality(SettingsIn(Len(file)))
    BY <1>4, <1>5, FS_Subset
  <1> QED
    BY <1>4, <1>6, FS_CardinalityType

\* One more piece that is no setting changes nothing.
LEMMA PassedOver ==
    ASSUME NEW m \in Nat, file[m + 1] \notin Setting
    PROVE  /\ SettingsIn(m + 1) = SettingsIn(m)
           /\ \A k \in Keys : SetTo(k, m + 1) = SetTo(k, m)
  <1>1. \A n : n \in 1 .. m + 1 <=> n \in 1 .. m \/ n = m + 1
    OBVIOUS
  <1>2. SettingsIn(m + 1) = SettingsIn(m)
    BY <1>1 DEF SettingsIn
  <1>3. \A k \in Keys : LinesOf(k, m + 1) = LinesOf(k, m)
    BY <1>1 DEF LinesOf
  <1> QED
    BY <1>2, <1>3 DEF SetTo

\* One more setting is counted and sets its key.
LEMMA Passed ==
    ASSUME TInv, NEW m \in Nat, m + 1 <= Len(file), file[m + 1] \in Setting
    PROVE  /\ Cardinality(SettingsIn(m + 1)) = Cardinality(SettingsIn(m)) + 1
           /\ \A k \in Keys : SetTo(k, m + 1) = IF k = file[m + 1].key
                                                THEN Value(file[m + 1]) ELSE SetTo(k, m)
  <1>1. \A n : n \in 1 .. m + 1 <=> n \in 1 .. m \/ n = m + 1
    OBVIOUS
  <1>2. SettingsIn(m + 1) = SettingsIn(m) \cup {m + 1}
    BY <1>1 DEF SettingsIn
  <1>3. m + 1 \notin SettingsIn(m) /\ m \in 0 .. Len(file)
    BY DEF SettingsIn, TInv
  <1>4. Cardinality(SettingsIn(m) \cup {m + 1}) = Cardinality(SettingsIn(m)) + 1
    BY <1>3, SettingsFinite, FS_AddElement
  <1>5. ASSUME NEW k \in Keys, k = file[m + 1].key
        PROVE  SetTo(k, m + 1) = Value(file[m + 1])
    <2>1. LinesOf(k, m + 1) = LinesOf(k, m) \cup {m + 1}
      BY <1>1, <1>5 DEF LinesOf
    <2>2. LinesOf(k, m) \in SUBSET (0 .. m)
      BY DEF LinesOf
    <2>3. Max(LinesOf(k, m) \cup {m + 1}) = m + 1
      BY <2>2, MaxAdded
    <2> QED
      BY <2>1, <2>3 DEF SetTo
  <1>6. ASSUME NEW k \in Keys, k # file[m + 1].key
        PROVE  SetTo(k, m + 1) = SetTo(k, m)
    <2>1. LinesOf(k, m + 1) = LinesOf(k, m)
      BY <1>1, <1>6 DEF LinesOf
    <2> QED
      BY <2>1 DEF SetTo
  <1> QED
    BY <1>2, <1>4, <1>5, <1>6

LEMMA SettingsInvHolds == Spec => []SettingsInv
  <1>1. Init => SettingsInv
    <2> SUFFICES ASSUME Init PROVE SettingsInv
      OBVIOUS
    <2>1. Len(file) <= LenWord
      BY StartupAssumption DEF Init
    <2> QED
      BY <2>1 DEF Init, SettingsInv, SettingsTaken
  <1>2. TInv /\ SettingsInv /\ [Next]_vars => SettingsInv'
    <2> SUFFICES ASSUME TInv, SettingsInv, [Next]_vars PROVE SettingsInv'
      OBVIOUS
    <2>0. Len(file) \in Nat /\ LenWord \in Nat \ {0}
      BY StartupAssumption DEF TInv
    <2>1. ASSUME NEW how, End(how), how \in {"exit 0", "exit 1", "crash"} PROVE SettingsInv'
      BY <2>1 DEF End, SettingsInv, SettingsTaken
    <2>2. ASSUME NEW how, End(how), how \in {"http", "pool", "running", "crash", "exit 1"},
                 pc \in {"log", "http", "pool"}
          PROVE  SettingsInv'
      BY <2>2 DEF End, SettingsInv, SettingsTaken
    <2>3. ASSUME NEW a, NEW n, Taken(a, n), pc = "args" PROVE SettingsInv'
      BY <2>3 DEF Taken, SettingsInv, SettingsTaken
    <2>4. ASSUME NEW a, TakeFile(a), pc = "args" PROVE SettingsInv'
      BY <2>1, <2>3, <2>4 DEF TakeFile
    <2>5. CASE LongOption
      BY <2>1, <2>3, <2>4, <2>5 DEF LongOption, Option
    <2>6. CASE ShortOptions
      BY <2>1, <2>3, <2>4, <2>6 DEF ShortOptions, Option
    <2>7. CASE NoOption
      BY <2>1, <2>7 DEF NoOption
    <2>8. CASE OpenConfig
      <3>1. CASE args.config \in ConfigFiles
        <4>1. /\ pc = "args" /\ pc' = "config" /\ i' = 0
              /\ UNCHANGED <<argv, file, args, config, len, factor>>
          BY <2>8, <3>1 DEF OpenConfig
        <4>2. len = 0 /\ factor = Factor /\ \A k \in Keys : config[k] = NULL
          BY <4>1 DEF SettingsInv
        <4>3. SettingsIn(0) = {} /\ \A k \in Keys : LinesOf(k, 0) = {}
          BY DEF SettingsIn, LinesOf
        <4>4. Cardinality(SettingsIn(0)) = 0
          BY <4>3, FS_EmptySet
        <4>5. \A k \in Keys : SetTo(k, 0) = NULL
          BY <4>3 DEF SetTo
        <4>6. Len(file) > 1 => 0 <= Len(file) - 2
          BY <2>0
        <4>7. /\ \A m : SettingsIn(m)' = SettingsIn(m)
              /\ \A k, m : SetTo(k, m)' = SetTo(k, m)
          BY <4>1 DEF SettingsIn, SetTo, LinesOf
        <4>8. SettingsTaken'
          BY <4>1 DEF SettingsTaken
        <4> QED
          BY <4>1, <4>2, <4>4, <4>5, <4>6, <4>7, <4>8 DEF SettingsInv
      <3>2. CASE args.config \notin ConfigFiles
        BY <2>1, <2>8, <3>2 DEF OpenConfig
      <3> QED
        BY <3>1, <3>2
    <2>9. CASE ReadNothing
      BY <2>1, <2>9 DEF ReadNothing
    <2>10. CASE ReadComment
      <3>1. /\ pc = "config" /\ pc' = "config" /\ i < NLines /\ i' = i + 1
            /\ Line.kind = "comment" /\ UNCHANGED <<argv, file, args, config, len, factor>>
        BY <2>10 DEF ReadComment
      <3>2. i \in Nat /\ i + 1 \in 1 .. Len(file) /\ Line = file[i + 1]
        BY <3>1, LineWithin DEF Line, Nothing
      <3>3. file[i + 1] \notin Setting
        BY <3>1, <3>2 DEF Setting
      <3>4. CASE Len(file) > 1
        <4>1. i + 1 <= Len(file) - 2
          BY <3>1, <3>2, <3>4, NLinesIs
        <4>2. /\ SettingsIn(i + 1) = SettingsIn(i)
              /\ \A k \in Keys : SetTo(k, i + 1) = SetTo(k, i)
          BY <3>2, <3>3, PassedOver
        <4>3. /\ \A m : SettingsIn(m)' = SettingsIn(m')
              /\ \A k, m : SetTo(k, m)' = SetTo(k, m')
          BY <3>1 DEF SettingsIn, SetTo, LinesOf
        <4>4. SettingsTaken'
          BY <3>1 DEF SettingsTaken
        <4> QED
          BY <3>1, <3>4, <4>1, <4>2, <4>3, <4>4 DEF SettingsInv
      <3>5. CASE ~(Len(file) > 1)
        BY <3>1, <3>5 DEF SettingsInv, SettingsTaken
      <3> QED
        BY <3>4, <3>5
    <2>11. CASE ReadSetting
      <3>1. /\ pc = "config" /\ pc' = "config" /\ i < NLines /\ i' = i + 1
            /\ Line \in Setting /\ len' = len + 1 /\ UNCHANGED <<argv, file, args>>
            /\ config' = [k \in Keys |-> IF k = Line.key THEN Value(Line)
                                         ELSE IF len >= factor THEN NULL ELSE config[k]]
            /\ factor' = IF len >= factor THEN 2 * factor ELSE factor
        BY <2>11 DEF ReadSetting
      <3>2. Line.kind # "nothing"
        BY <3>1 DEF Setting
      <3>3. i \in Nat /\ i + 1 \in 1 .. Len(file) /\ Line = file[i + 1]
        BY <3>1, <3>2, LineWithin DEF Line, Nothing
      <3>4. CASE Len(file) > 1
        <4>1. i + 1 <= Len(file) - 2
          BY <3>1, <3>3, <3>4, NLinesIs
        <4>2. i + 1 \in 0 .. Len(file) /\ i \in 0 .. Len(file) /\ i + 1 <= Len(file)
          BY <2>0, <3>3
        <4>3. /\ Cardinality(SettingsIn(i + 1)) = Cardinality(SettingsIn(i)) + 1
              /\ \A k \in Keys : SetTo(k, i + 1) = IF k = Line.key
                                                THEN Value(Line) ELSE SetTo(k, i)
          BY <3>1, <3>3, <4>2, Passed
        <4>4. len = Cardinality(SettingsIn(i))
          BY <3>1, <3>4 DEF SettingsInv
        <4>5. ASSUME Cardinality(SettingsIn(Len(file))) <= Factor
              PROVE  factor' = Factor /\ \A k \in Keys : config'[k] = SetTo(k, i + 1)
          <5>1. Cardinality(SettingsIn(i + 1)) <= Cardinality(SettingsIn(Len(file)))
            BY <4>2, SettingsFinite
          <5>2. /\ Cardinality(SettingsIn(i)) \in Nat
                /\ Cardinality(SettingsIn(Len(file))) \in Nat
            BY <2>0, <4>2, SettingsFinite
          <5>3. len < Factor
            BY <4>3, <4>4, <4>5, <5>1, <5>2, StartupAssumption
          <5>4. factor = Factor /\ \A k \in Keys : config[k] = SetTo(k, i)
            BY <3>1, <3>4, <4>5 DEF SettingsInv
          <5>5. ~(len >= factor)
            BY <4>4, <5>2, <5>3, <5>4, StartupAssumption
          <5> QED
            BY <3>1, <4>3, <5>4, <5>5
        <4>6. /\ \A m : SettingsIn(m)' = SettingsIn(m')
              /\ \A k, m : SetTo(k, m)' = SetTo(k, m')
          BY <3>1 DEF SettingsIn, SetTo, LinesOf
        <4>7. SettingsTaken'
          BY <3>1 DEF SettingsTaken
        <4> QED
          BY <3>1, <3>4, <4>1, <4>3, <4>4, <4>5, <4>6, <4>7 DEF SettingsInv
      <3>5. CASE ~(Len(file) > 1)
        BY <3>1, <3>5 DEF SettingsInv, SettingsTaken
      <3> QED
        BY <3>4, <3>5
    <2>12. CASE ConfigRead
      <3>1. pc = "config" /\ i >= NLines /\ pc' = "log"
            /\ UNCHANGED <<argv, file, i, args, config, len, factor>>
        BY <2>12 DEF ConfigRead, End
      <3>2. ASSUME Len(file) > 1, file[Len(file)] = Nothing, file[Len(file) - 1] = Nothing,
                   Cardinality(SettingsIn(Len(file))) <= Factor, NEW k \in Keys
            PROVE  config[k] = SetTo(k, Len(file))
        <4>1. i <= Len(file) - 2 /\ i \in Nat
          BY <3>1, <3>2 DEF SettingsInv, TInv
        <4>2. i = Len(file) - 2 /\ i \in Nat
          BY <2>0, <3>1, <3>2, <4>1, NLinesIs
        <4>3. i + 1 \in Nat /\ i + 1 = Len(file) - 1 /\ (i + 1) + 1 = Len(file)
          BY <2>0, <4>2
        <4>4. Nothing \notin Setting
          BY DEF Nothing, Setting
        <4>5. SetTo(k, i + 1) = SetTo(k, i)
          BY <3>2, <4>2, <4>3, <4>4, PassedOver
        <4>6. SetTo(k, (i + 1) + 1) = SetTo(k, i + 1)
          BY <3>2, <4>3, <4>4, PassedOver
        <4>7. config[k] = SetTo(k, i)
          BY <3>1, <3>2 DEF SettingsInv
        <4> QED
          BY <4>3, <4>5, <4>6, <4>7
      <3>3. DOMAIN file = 1 .. Len(file)
        BY DEF TInv
      <3>4. SettingsTaken'
        BY <3>1, <3>2, <3>3 DEF SettingsTaken, SettingsIn, LinesOf, SetTo
      <3> QED
        BY <3>1, <3>4 DEF SettingsInv
    <2>13. CASE LogInit
      BY <2>2, <2>13 DEF LogInit
    <2>14. CASE HttpInit
      BY <2>2, <2>14 DEF HttpInit
    <2>15. CASE PoolInit
      BY <2>2, <2>15 DEF PoolInit
    <2>16. CASE UNCHANGED vars
      BY <2>16 DEF vars, SettingsInv, SettingsTaken, SettingsIn, LinesOf, SetTo
    <2> QED
      BY <2>5, <2>6, <2>7, <2>8, <2>9, <2>10, <2>11, <2>12, <2>13, <2>14, <2>15, <2>16
         DEF Next
  <1> QED
    BY <1>1, <1>2, TInvHolds, PTL DEF Spec

\* config_init reads a file that ends as config.in does as it is written, as
\* long as the map does not grow, for any keys, values and number of lines.
THEOREM SettingsTakenHolds == Spec => []SettingsTaken
  BY SettingsInvHolds, PTL DEF SettingsInv

----------------------------------------------------------------------------
(* The arguments.                                                          *)

\* The recursion that defines Options has a solution: a word is an option
\* unless it is the path of the option before it.
LEMMA OptionsAre ==
    ASSUME argv \in Seq(Word)
    PROVE  /\ Options \subseteq 1 .. Len(argv)
           /\ Len(argv) > 0 => 1 \in Options
           /\ \A n \in 1 .. Len(argv) : n + 1 <= Len(argv) =>
                 (n + 1 \in Options <=> n \notin Options \/ ~TakesFile(argv[n]))
  <1> DEFINE N == Len(argv)
             Takes(n) == TakesFile(argv[n])
             Good(O, m) ==
                /\ O \subseteq 1 .. m
                /\ m > 0 => 1 \in O
                /\ \A n \in 1 .. m : n + 1 <= m => (n + 1 \in O <=> n \notin O \/ ~Takes(n))
             Bad == {m \in Nat : ~\E O : Good(O, m)}
  <1>0. N \in Nat /\ DOMAIN argv = 1 .. N
    OBVIOUS
  <1> HIDE DEF N, Takes
  <1>1. \E O : Good(O, 0)
    <2>1. Good({}, 0)
      OBVIOUS
    <2> QED
      BY <2>1
  <1>2. ASSUME NEW m \in Nat, \E O : Good(O, m) PROVE \E O : Good(O, m + 1)
    <2>1. PICK O : Good(O, m)
      BY <1>2
    <2>2. CASE m = 0
      <3>1. Good({1}, m + 1)
        BY <2>2
      <3> QED
        BY <3>1
    <2>3. CASE m # 0 /\ (m \notin O \/ ~Takes(m))
      <3>1. \A n : n \in 1 .. m + 1 <=> n \in 1 .. m \/ n = m + 1
        OBVIOUS
      <3>2. Good(O \cup {m + 1}, m + 1)
        BY <2>1, <2>3, <3>1
      <3> QED
        BY <3>2
    <2>4. CASE m # 0 /\ m \in O /\ Takes(m)
      <3>1. \A n : n \in 1 .. m + 1 <=> n \in 1 .. m \/ n = m + 1
        OBVIOUS
      <3>2. Good(O, m + 1)
        BY <2>1, <2>4, <3>1
      <3> QED
        BY <3>2
    <2> QED
      BY <2>2, <2>3, <2>4
  <1> HIDE DEF Good
  <1>3. Bad = {}
    <2> SUFFICES ASSUME Bad # {} PROVE FALSE
      OBVIOUS
    <2>1. PICK m \in Bad : \A l \in Bad : m <= l
      BY MinIs
    <2>2. m \in Nat /\ m # 0
      BY <1>1
    <2>3. m - 1 \in Nat /\ m - 1 \notin Bad /\ (m - 1) + 1 = m
      BY <2>1, <2>2
    <2> QED
      BY <1>2, <2>3
  <1>4. PICK O : Good(O, N)
    BY <1>0, <1>3
  <1> DEFINE F(f) == [n \in 0 .. N |-> n > 0 => n = 1 \/ ~f[n - 1] \/ ~Takes(n - 1)]
             h == [n \in 0 .. N |-> n > 0 => n \in O]
             is == CHOOSE f : f = F(f)
  <1>5. \A n \in 0 .. N : h[n] = (n > 0 => n = 1 \/ ~h[n - 1] \/ ~Takes(n - 1))
    <2> SUFFICES ASSUME NEW n \in 0 .. N, n > 1
                 PROVE  n \in O <=> n - 1 \notin O \/ ~Takes(n - 1)
      <3>1. \A n \in 0 .. N : n \in Nat /\ (n > 0 /\ n # 1 => n > 1)
        BY <1>0
      <3>2. \A n \in 0 .. N : n > 1 =>
              n - 1 \in 0 .. N /\ n - 1 > 0 /\ n > 0 /\ n # 1
        BY <1>0
      <3>3. 1 \in 0 .. N => 1 \in O
        <4>1. 1 \in 0 .. N => N > 0
          BY <1>0
        <4> QED
          BY <1>4, <4>1 DEF Good
      <3> QED
        BY <3>1, <3>2, <3>3
    <2>1. n - 1 \in 1 .. N /\ (n - 1) + 1 = n /\ (n - 1) + 1 <= N
      BY <1>0
    <2> QED
      BY <1>4, <2>1 DEF Good
  <1>6. h = F(h)
    BY <1>5
  <1>7. is = F(is)
    BY <1>6
  <1>8. Options = {n \in DOMAIN argv : is[n]}
    BY DEF Options, N, Takes
  <1> HIDE DEF is, h
  <1>9. \A n \in 0 .. N : is[n] = (n > 0 => n = 1 \/ ~is[n - 1] \/ ~Takes(n - 1))
    BY <1>7
  <1>10. Options \subseteq 1 .. N /\ (N > 0 => 1 \in Options)
    <2>1. Options \subseteq 1 .. N
      BY <1>0, <1>8
    <2>2. ASSUME N > 0 PROVE 1 \in Options
      <3>1. 1 \in 0 .. N /\ 1 \in 1 .. N /\ 1 > 0
        BY <1>0, <2>2
      <3>2. is[1] = TRUE
        BY <1>9, <3>1
      <3> QED
        BY <1>0, <1>8, <3>1, <3>2
    <2> QED
      BY <2>1, <2>2
  <1>11. ASSUME NEW n \in 1 .. N, n + 1 <= N
         PROVE  n + 1 \in Options <=> n \notin Options \/ ~Takes(n)
    <2>1. n \in 0 .. N /\ n + 1 \in 0 .. N /\ n + 1 \in 1 .. N /\ (n + 1) - 1 = n
          /\ n + 1 > 0 /\ n + 1 # 1
      BY <1>0, <1>11
    <2>2. is[n + 1] = (~is[n] \/ ~Takes(n))
      BY <1>9, <2>1
    <2> QED
      BY <1>0, <1>8, <2>1, <2>2
  <1> QED
    BY <1>10, <1>11 DEF N, Takes

\* The options before word j, and what they say.
Before(j) == {n \in Options : n < j}
Paths(j)  == {n \in Before(j) : TakesFile(argv[n])}
IsLong(n, name) == argv[n] = [kind |-> "long", name |-> name]
Refused(n) == \/ IsLong(n, "help") \/ IsLong(n, "version") \/ IsLong(n, "other")
              \/ argv[n].kind = "plain"

\* They have had their effects.
Done(j) ==
    /\ args.config = IF Paths(j) = {} THEN DefaultFile ELSE argv[Max(Paths(j)) + 1]
    /\ args.is_debug <=> \E n \in Before(j) : IsLong(n, "debug")
    /\ \A n \in Before(j) : ~Refused(n)

\* The loop of args_init is at an option, and those before are done.
ArgumentsInv ==
    /\ pc = "args" => (i <= Len(argv) => i \in Options) /\ Done(i)
    /\ ArgumentsTaken

\* What a word of each kind is.
LEMMA WordIs ==
    ASSUME NEW w \in Word
    PROVE  /\ w.kind \in {"long", "short", "plain"}
           /\ w.kind = "long" =>
                /\ w.name \in Name
                /\ \A name : w = [kind |-> "long", name |-> name] <=> w.name = name
                /\ TakesFile(w) <=> w.name = "config"
           /\ w.kind = "short" =>
                /\ w.letters \in Seq({"d", "c", "other"})
                /\ \A name : w # [kind |-> "long", name |-> name]
                /\ TakesFile(w) <=> \E j \in DOMAIN w.letters : w.letters[j] = "c"
  <1>1. CASE w \in [kind : {"long"}, name : Name]
    <2>1. w.kind = "long" /\ w.name \in Name
      BY <1>1
    <2>2. \A name : w = [kind |-> "long", name |-> name] <=> w.name = name
      BY <1>1
    <2> QED
      BY <2>1, <2>2 DEF TakesFile
  <1>2. CASE w \in [kind : {"short"}, letters : Seq({"d", "c", "other"})]
    <2>1. w.kind = "short" /\ w.letters \in Seq({"d", "c", "other"})
      BY <1>2
    <2>2. \A name : w # [kind |-> "long", name |-> name]
      BY <2>1
    <2> QED
      BY <2>1, <2>2 DEF TakesFile
  <1>3. CASE w \in [kind : {"plain"}]
    BY <1>3
  <1> QED
    BY <1>1, <1>2, <1>3 DEF Word

\* After an option comes the next, behind its path if it takes one.
LEMMA NextOption ==
    ASSUME argv \in Seq(Word), NEW j \in Options
    PROVE  /\ ~TakesFile(argv[j]) =>
                /\ j + 1 <= Len(argv) => j + 1 \in Options
                /\ Before(j + 1) = Before(j) \cup {j}
           /\ TakesFile(argv[j]) =>
                /\ j + 2 <= Len(argv) => j + 2 \in Options
                /\ j < Len(argv) => Before(j + 2) = Before(j) \cup {j}
  <1>1. Len(argv) \in Nat /\ j \in 1 .. Len(argv) /\ \A n \in Options : n \in 1 .. Len(argv)
    BY OptionsAre
  <1>2. j + 1 <= Len(argv) => (j + 1 \in Options <=> ~TakesFile(argv[j]))
    BY <1>1, OptionsAre
  <1>3. Before(j + 1) = Before(j) \cup {j}
    <2>1. \A n \in Options : n < j + 1 <=> n < j \/ n = j
      BY <1>1
    <2> QED
      BY <2>1 DEF Before
  <1>4. ASSUME TakesFile(argv[j]), j + 2 <= Len(argv)
        PROVE  j + 2 \in Options
    <2>1. j + 1 \in 1 .. Len(argv) /\ (j + 1) + 1 = j + 2 /\ j + 1 \notin Options
      BY <1>1, <1>2, <1>4
    <2> QED
      BY <1>4, <2>1, OptionsAre
  <1>5. ASSUME TakesFile(argv[j]), j < Len(argv)
        PROVE  Before(j + 2) = Before(j) \cup {j}
    <2>1. j + 1 \notin Options
      BY <1>1, <1>2, <1>5
    <2>2. \A n \in Options : n < j + 2 <=> n < j \/ n = j
      BY <1>1, <2>1
    <2> QED
      BY <2>2 DEF Before
  <1> QED
    BY <1>2, <1>3, <1>4, <1>5

\* An option has its effect and the loop goes on behind it.
LEMMA Advanced ==
    ASSUME TInv, ArgumentsInv, pc = "args", i \in Options,
           NEW a \in Arguments, NEW n \in 1 .. 2, Taken(a, n),
           TakesFile(argv[i]) => n = 2 /\ i < Len(argv),
           ~TakesFile(argv[i]) => n = 1,
           a.config = IF TakesFile(argv[i]) THEN argv[i + 1] ELSE args.config,
           a.is_debug <=> args.is_debug \/ IsLong(i, "debug"),
           ~Refused(i)
    PROVE  ArgumentsInv'
  <1>1. /\ args' = a /\ i' = i + n /\ UNCHANGED <<pc, argv, file, config, len, factor>>
        /\ argv \in Seq(Word) /\ Len(argv) \in Nat
        /\ i \in 1 .. Len(argv) /\ \A m \in Options : m \in 1 .. Len(argv)
    BY OptionsAre DEF Taken, TInv
  <1>2. (i + n <= Len(argv) => i + n \in Options) /\ Before(i + n) = Before(i) \cup {i}
    BY <1>1, NextOption
  <1>3. Paths(i + n) = IF TakesFile(argv[i]) THEN Paths(i) \cup {i} ELSE Paths(i)
    BY <1>2 DEF Paths
  <1>4. Done(i)
    BY DEF ArgumentsInv
  <1>5. a.config = IF Paths(i + n) = {} THEN DefaultFile ELSE argv[Max(Paths(i + n)) + 1]
    <2>1. CASE TakesFile(argv[i])
      <3>1. PICK p \in Nat : p + 1 = i
        <4>1. i - 1 \in Nat /\ (i - 1) + 1 = i
          BY <1>1
        <4> QED
          BY <4>1
      <3>2. \A m \in Options : m < i => m \in 0 .. p
        BY <1>1, <3>1
      <3>3. Paths(i) \in SUBSET (0 .. p)
        BY <3>2 DEF Paths, Before
      <3>4. Max(Paths(i) \cup {i}) = i
        BY <3>1, <3>3, MaxAdded
      <3> QED
        BY <1>3, <2>1, <3>4
    <2>2. CASE ~TakesFile(argv[i])
      BY <1>3, <1>4, <2>2 DEF Done
    <2> QED
      BY <2>1, <2>2
  <1>6. a.is_debug <=> \E m \in Before(i + n) : IsLong(m, "debug")
    BY <1>2, <1>4 DEF Done
  <1>7. \A m \in Before(i + n) : ~Refused(m)
    BY <1>2, <1>4 DEF Done
  <1>8. Options' = Options
    BY <1>1 DEF Options
  <1>9. /\ Before(i)' = Before(i + n) /\ Paths(i)' = Paths(i + n)
        /\ \A m, name : IsLong(m, name)' = IsLong(m, name)
        /\ \A m : Refused(m)' = Refused(m)
    BY <1>1, <1>8 DEF Before, Paths, IsLong, Refused
  <1>10. Done(i)'
    BY <1>1, <1>5, <1>6, <1>7, <1>9 DEF Done
  <1>11. ArgumentsTaken'
    BY <1>1 DEF ArgumentsTaken
  <1> QED
    BY <1>1, <1>2, <1>8, <1>10, <1>11 DEF ArgumentsInv

LEMMA ArgumentsInvHolds == Spec => []ArgumentsInv
  <1>1. Init => ArgumentsInv
    <2> SUFFICES ASSUME Init PROVE ArgumentsInv
      OBVIOUS
    <2>1. argv \in Seq(Word) /\ i = 1 /\ pc = "args"
          /\ args = [is_daemon |-> FALSE, is_debug |-> FALSE, config |-> DefaultFile]
      BY StartupAssumption DEF Init
    <2>2. i <= Len(argv) => i \in Options
      BY <2>1, OptionsAre
    <2>3. Before(i) = {}
      BY <2>1, OptionsAre DEF Before
    <2>4. Paths(i) = {}
      BY <2>3 DEF Paths
    <2>5. Done(i)
      BY <2>1, <2>3, <2>4 DEF Done
    <2> QED
      BY <2>1, <2>2, <2>5 DEF ArgumentsInv, ArgumentsTaken
  <1>2. TInv /\ ArgumentsInv /\ [Next]_vars => ArgumentsInv'
    <2> SUFFICES ASSUME TInv, ArgumentsInv, [Next]_vars PROVE ArgumentsInv'
      OBVIOUS
    <2>0. /\ argv \in Seq(Word) /\ Len(argv) \in Nat /\ args \in Arguments
          /\ i \in Int
      <3>1. argv \in Seq(Word) /\ Len(argv) \in Nat /\ Len(file) \in Nat /\ args \in Arguments
        BY DEF TInv
      <3>2. i \in 0 .. Len(argv) + Len(file) + 1
        BY DEF TInv, TypeOK
      <3> QED
        BY <3>1, <3>2
    <2>1. ASSUME NEW how, End(how), how \in {"exit 0", "exit 1", "crash"} PROVE ArgumentsInv'
      BY <2>1 DEF End, ArgumentsInv, ArgumentsTaken
    <2>2. ASSUME pc' \in {"config", "log", "http", "pool", "running"},
                 pc \in {"config", "log", "http", "pool", "running"},
                 UNCHANGED <<argv, args>>
          PROVE  ArgumentsInv'
      <3>1. Options' = Options
        BY <2>2 DEF Options
      <3>2. ArgumentsTaken'
        BY <2>2, <3>1 DEF ArgumentsInv, ArgumentsTaken
      <3> QED
        BY <2>2, <3>2 DEF ArgumentsInv
    <2>3. ASSUME NEW kind, Option(kind)
          PROVE  /\ pc = "args" /\ i \in Options /\ i \in 1 .. Len(argv)
                 /\ argv[i] \in Word /\ argv[i].kind = kind
      <3>1. i \in Options /\ argv[i].kind = kind
        BY <2>3 DEF Option, ArgumentsInv
      <3>2. i \in 1 .. Len(argv)
        BY <2>0, <3>1, OptionsAre
      <3> QED
        BY <2>0, <2>3, <3>1, <3>2 DEF Option
    <2>4. ASSUME NEW a \in Arguments, TakeFile(a), pc = "args", i \in Options,
                 i \in 1 .. Len(argv), argv[i] \in Word, TakesFile(argv[i]),
                 a.is_debug <=> args.is_debug \/ IsLong(i, "debug"),
                 ~Refused(i)
          PROVE  ArgumentsInv'
      <3>1. CASE i < Len(argv)
        <4> DEFINE b == [a EXCEPT !.config = argv[i + 1]]
        <4>1. Taken(b, 2)
          BY <2>4, <3>1 DEF TakeFile
        <4>2. argv[i + 1] \in Word
          BY <2>0, <2>4, <3>1
        <4>3. b \in Arguments /\ b.config = argv[i + 1] /\ b.is_debug = a.is_debug
          BY <4>2 DEF Arguments
        <4>4. 2 \in 1 .. 2
          OBVIOUS
        <4> HIDE DEF b
        <4> QED
          BY <2>4, <3>1, <4>1, <4>3, <4>4, Advanced
      <3>2. CASE ~(i < Len(argv))
        BY <2>1, <2>4, <3>2 DEF TakeFile
      <3> QED
        BY <3>1, <3>2
    <2>5. CASE LongOption
      <3> DEFINE name == argv[i].name
      <3>1. /\ pc = "args" /\ i \in Options /\ i \in 1 .. Len(argv)
            /\ argv[i] \in Word /\ argv[i].kind = "long"
        BY <2>3, <2>5 DEF LongOption
      <3>2. /\ name \in Name /\ \A n : IsLong(i, n) <=> name = n
            /\ TakesFile(argv[i]) <=> name = "config"
            /\ argv[i].kind # "plain"
        BY <3>1, WordIs DEF IsLong
      <3>3. /\ [args EXCEPT !.is_daemon = TRUE] \in Arguments
            /\ [args EXCEPT !.is_debug = TRUE] \in Arguments
            /\ 1 \in 1 .. 2
        <4>1. args \in Arguments /\ 1 \in 1 .. 2
          BY <2>0
        <4> QED
          BY <4>1 DEF Arguments
      <3>4. CASE name = "daemon" /\ Taken([args EXCEPT !.is_daemon = TRUE], 1)
        <4> DEFINE a == [args EXCEPT !.is_daemon = TRUE]
        <4>1. /\ a.config = args.config /\ a.is_debug = args.is_debug
              /\ a \in Arguments /\ Taken(a, 1)
          BY <2>0, <3>3, <3>4 DEF Arguments
        <4>2. ~TakesFile(argv[i]) /\ ~Refused(i) /\ ~IsLong(i, "debug")
          BY <3>2, <3>4 DEF Refused
        <4> HIDE DEF a, name
        <4> QED
          BY <3>1, <3>3, <4>1, <4>2, Advanced
      <3>5. CASE name = "debug" /\ Taken([args EXCEPT !.is_debug = TRUE], 1)
        <4> DEFINE a == [args EXCEPT !.is_debug = TRUE]
        <4>1. /\ a.config = args.config /\ a.is_debug = TRUE
              /\ a \in Arguments /\ Taken(a, 1)
          BY <2>0, <3>3, <3>5 DEF Arguments
        <4>2. ~TakesFile(argv[i]) /\ ~Refused(i) /\ IsLong(i, "debug")
          BY <3>2, <3>5 DEF Refused
        <4> HIDE DEF a, name
        <4> QED
          BY <3>1, <3>3, <4>1, <4>2, Advanced
      <3>6. CASE name = "config" /\ TakeFile(args)
        <4>1. TakesFile(argv[i]) /\ ~Refused(i) /\ ~IsLong(i, "debug")
          BY <3>2, <3>6 DEF Refused
        <4> HIDE DEF name
        <4> QED
          BY <2>0, <2>4, <3>1, <3>6, <4>1
      <3>7. CASE End("exit 0") \/ End("exit 1")
        BY <2>1, <3>7
      <3> QED
        BY <2>5, <3>4, <3>5, <3>6, <3>7 DEF LongOption
    <2>6. CASE ShortOptions
      <3> DEFINE letters == argv[i].letters
                 others  == {j \in DOMAIN letters : letters[j] # "d"}
                 seen(n) == [args EXCEPT !.is_daemon = @ \/ n > 0]
      <3>1. /\ pc = "args" /\ i \in Options /\ i \in 1 .. Len(argv)
            /\ argv[i] \in Word /\ argv[i].kind = "short"
        BY <2>3, <2>6 DEF ShortOptions
      <3>2. /\ letters \in Seq({"d", "c", "other"})
            /\ \A name : ~IsLong(i, name)
            /\ TakesFile(argv[i]) <=> \E j \in DOMAIN letters : letters[j] = "c"
        BY <3>1, WordIs DEF IsLong
      <3>3. ~Refused(i)
        BY <3>1, <3>2 DEF Refused
      <3>4. \A n : /\ seen(n) \in Arguments /\ seen(n).config = args.config
                   /\ seen(n).is_debug = args.is_debug
        BY <2>0 DEF Arguments
      <3>5. others \in SUBSET Nat
        BY <3>2
      <3>6. CASE others = {} /\ Taken(seen(Len(letters)), 1)
        <4>1. ~TakesFile(argv[i])
          BY <3>2, <3>6
        <4>2. 1 \in 1 .. 2
          OBVIOUS
        <4> DEFINE a == seen(Len(letters))
        <4>3. /\ a \in Arguments /\ a.config = args.config
              /\ a.is_debug = args.is_debug /\ Taken(a, 1)
          BY <3>4, <3>6
        <4> HIDE DEF a
        <4> QED
          BY <3>1, <3>2, <3>3, <4>1, <4>2, <4>3, Advanced
      <3>7. CASE /\ others # {} /\ letters[Min(others)] = "c"
                 /\ TakeFile(seen(Min(others) - 1))
        <4>1. Min(others) \in others
          <5> HIDE DEF others
          <5> QED
            BY <3>5, <3>7, MinIs
        <4>2. TakesFile(argv[i])
          BY <3>2, <3>7, <4>1
        <4> DEFINE a == seen(Min(others) - 1)
        <4>3. a \in Arguments /\ a.is_debug = args.is_debug /\ TakeFile(a)
          BY <3>4, <3>7
        <4> HIDE DEF a
        <4> QED
          BY <2>4, <3>1, <3>2, <3>3, <4>2, <4>3
      <3>8. CASE End("exit 1")
        BY <2>1, <3>8
      <3> QED
        BY <2>6, <3>6, <3>7, <3>8 DEF ShortOptions
    <2>7. CASE NoOption
      BY <2>1, <2>7 DEF NoOption
    <2>8. CASE OpenConfig
      <3>1. CASE args.config \in ConfigFiles
        <4>1. /\ pc = "args" /\ pc' = "config" /\ i > Len(argv)
              /\ UNCHANGED <<argv, file, args, config, len, factor>>
          BY <2>8, <3>1 DEF OpenConfig
        <4>2. Done(i)
          BY <4>1 DEF ArgumentsInv
        <4>3. Before(i) = Options
          BY <2>0, <4>1, OptionsAre DEF Before
        <4>4. args.is_debug \in BOOLEAN
          BY <2>0 DEF Arguments
        <4>5. Options' = Options
          BY <4>1 DEF Options
        <4>6. ArgumentsTaken'
          <5>1. /\ args.config = IF Paths(i) = {} THEN DefaultFile ELSE argv[Max(Paths(i)) + 1]
                /\ args.is_debug = \E n \in Options : IsLong(n, "debug")
                /\ \A n \in Options : ~Refused(n)
            BY <4>2, <4>3, <4>4 DEF Done
          <5>2. Paths(i) = {n \in Options : TakesFile(argv[n])}
            BY <4>3 DEF Paths
          <5> QED
            BY <4>1, <4>5, <5>1, <5>2
               DEF ArgumentsTaken, IsLong, Refused
        <4> QED
          BY <4>1, <4>6 DEF ArgumentsInv
      <3>2. CASE args.config \notin ConfigFiles
        BY <2>1, <2>8, <3>2 DEF OpenConfig
      <3> QED
        BY <3>1, <3>2
    <2>9. CASE ReadNothing
      BY <2>1, <2>9 DEF ReadNothing
    <2>10. CASE ReadComment
      BY <2>2, <2>10 DEF ReadComment
    <2>11. CASE ReadSetting
      BY <2>2, <2>11 DEF ReadSetting
    <2>12. ASSUME NEW how, End(how), pc \in {"config", "log", "http", "pool"},
                  how \in {"log", "http", "pool", "running"}
           PROVE  ArgumentsInv'
      BY <2>2, <2>12 DEF End
    <2>13. CASE ConfigRead
      BY <2>12, <2>13 DEF ConfigRead
    <2>14. CASE LogInit
      BY <2>1, <2>12, <2>14 DEF LogInit
    <2>15. CASE HttpInit
      BY <2>1, <2>12, <2>15 DEF HttpInit
    <2>16. CASE PoolInit
      BY <2>1, <2>12, <2>16 DEF PoolInit
    <2>17. CASE UNCHANGED vars
      <3>1. Options' = Options
        BY <2>17 DEF vars, Options
      <3> QED
        BY <2>17, <3>1 DEF vars, ArgumentsInv, ArgumentsTaken, Done, Before, Paths, IsLong,
                           Refused
    <2> QED
      BY <2>5, <2>6, <2>7, <2>8, <2>9, <2>10, <2>11, <2>13, <2>14, <2>15, <2>16, <2>17
         DEF Next
  <1> QED
    BY <1>1, <1>2, TInvHolds, PTL DEF Spec

\* args_init gives every option but -d its effect and takes the words behind
\* -c and --config for paths, whatever the words are and however many.
THEOREM ArgumentsTakenHolds == Spec => []ArgumentsTaken
  BY ArgumentsInvHolds, PTL DEF ArgumentsInv
=============================================================================
