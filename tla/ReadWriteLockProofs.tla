------------------------- MODULE ReadWriteLockProofs -------------------------
(***************************************************************************)
(* Ipc::ReadWriteLock is correct for any finite set of users that its      *)
(* counters can count: counters in step with the users, mutual exclusion,  *)
(* one headers updater, no failing assertion and nothing left behind.      *)
(***************************************************************************)
EXTENDS ReadWriteLock, FiniteSetTheorems, TLAPS

-----------------------------------------------------------------------------
(* The inductive invariant: what each field says about where the users are  *)

\* The return address fits the method the user is in.
RetOK ==
    \A u \in Users :
        /\ pc[u] \in {"ls_readLevel", "ls_writeLevel", "ls_appending", "ls_readers", "ls_fail"}
             => ret[u] \in {"shared", "lh_updating"}
        /\ pc[u] \in {"us_readers", "us_readLevel"} => ret[u] \in {"idle", "fx_readLevel", "wl_drop"}
        /\ pc[u] \in {"ux_appending", "ux_writing", "wl_drop"} => ret[u] \in {"idle", "shared"}
        /\ pc[u] \notin {"ls_readLevel", "ls_writeLevel", "ls_appending", "ls_readers", "ls_fail",
                         "us_readers", "us_readLevel", "ux_appending", "ux_writing", "wl_drop"}
             => ret[u] = "idle"

\* Users that leave a writer's lock to go on reading
Switching(u) == pc[u] \in {"ux_appending", "ux_writing", "wl_drop"} /\ ret[u] = "shared"

\* Users that `readers` counts
Reading(u) ==
    \/ pc[u] \in {"lh_updating", "shared", "headers", "us_readers", "uh_updating", "ss_writeLevel"}
    \/ Switching(u)

\* Users that `readLevel` counts
AtReadLevel(u) ==
    \/ Reading(u)
    \/ pc[u] \in {"ls_writeLevel", "ls_appending", "ls_readers", "ls_fail", "us_readLevel", "sx_readers"}

\* Users with `writing` set on their behalf
Writing(u) ==
    pc[u] \in {"exclusive", "appending", "halted", "ux_appending", "ux_writing", "sx_readLevel",
               "sx_readers", "sa_appending", "st_appending", "st_readLevel"}

\* Users that raised writeLevel from zero and have not failed
Winner(u) ==
    \/ Writing(u)
    \/ pc[u] \in {"fx_readLevel", "fx_writing"}
    \/ pc[u] \in {"us_readers", "us_readLevel"} /\ ret[u] = "fx_readLevel"

\* Users that `writeLevel` counts
AtWriteLevel(u) ==
    \/ Winner(u)
    \/ pc[u] = "wl_drop"
    \/ pc[u] \in {"us_readers", "us_readLevel"} /\ ret[u] = "wl_drop"

ReadingSet == {u \in Users : Reading(u)}
ReadLevelSet == {u \in Users : AtReadLevel(u)}
WriteLevelSet == {u \in Users : AtWriteLevel(u)}

\* The counters count.
Counts ==
    /\ readers = Cardinality(ReadingSet)
    /\ readLevel = Cardinality(ReadLevelSet)
    /\ writeLevel = Cardinality(WriteLevelSet)

OneWinner == \A u, v \in Users : Winner(u) /\ Winner(v) => u = v

\* The flags tell the truth.
Flags ==
    /\ writing <=> \E u \in Users : Writing(u)
    /\ appending => \E u \in Users :
          pc[u] \in {"appending", "st_appending", "sx_readLevel", "sx_readers", "ux_appending"}
    /\ \A u \in Users : pc[u] \in {"appending", "st_appending"} => appending
    /\ updating <=> \E u \in Users : pc[u] \in {"headers", "uh_updating"}
    /\ \A u, v \in Users : pc[u] \in {"headers", "uh_updating"} /\ pc[v] \in {"headers", "uh_updating"}
          => u = v

\* A user with exclusive access keeps out everybody who reads or will read
\* without another check of the lock.
Exclusion ==
    \A u, v \in Users : pc[u] \in {"fx_writing", "exclusive", "sa_appending"} =>
        ~ (pc[v] = "ls_readers" \/ Reading(v))

IInv == TypeOK /\ RetOK /\ Counts /\ OneWinner /\ Flags /\ Exclusion

-----------------------------------------------------------------------------
(* Counting users *)

\* The uint32_t increment and decrement are those of the number of users in a
\* set when the set gains or loses one of the users the counter can count.
LEMMA CountChange ==
    ASSUME NEW S \in SUBSET Users, NEW T \in SUBSET Users, NEW u \in Users,
           \A v \in Users \ {u} : v \in S <=> v \in T
    PROVE  /\ Cardinality(S) \in 0..CounterMax
           /\ (u \in S <=> u \in T) => Cardinality(T) = Cardinality(S)
           /\ u \notin S /\ u \in T => Cardinality(T) = Inc(Cardinality(S))
           /\ u \in S /\ u \notin T => Cardinality(T) = Dec(Cardinality(S))
<1>1. IsFiniteSet(S) /\ IsFiniteSet(T) /\ IsFiniteSet(Users)
  BY UsersAssumption, FS_Subset
<1>2. /\ Cardinality(S) \in Nat /\ Cardinality(T) \in Nat /\ Cardinality(Users) \in Nat
      /\ Cardinality(S) <= Cardinality(Users) /\ Cardinality(T) <= Cardinality(Users)
  BY <1>1, FS_Subset, FS_CardinalityType
<1>3. CASE u \in S <=> u \in T
  <2>1. S = T
    BY <1>3
  <2> QED BY <2>1, <1>2, <1>3, CounterAssumption
<1>4. CASE u \notin S /\ u \in T
  <2>1. T = S \cup {u}
    BY <1>4
  <2>2. Cardinality(T) = Cardinality(S) + 1
    BY <2>1, <1>1, <1>4, FS_AddElement
  <2> QED BY <2>2, <1>2, <1>4, CounterAssumption DEF Inc
<1>5. CASE u \in S /\ u \notin T
  <2>1. S = T \cup {u}
    BY <1>5
  <2>2. Cardinality(S) = Cardinality(T) + 1
    BY <2>1, <1>1, <1>5, FS_AddElement
  <2> QED BY <2>2, <1>2, <1>5, CounterAssumption DEF Dec
<1> QED BY <1>3, <1>4, <1>5

\* A counter is zero exactly when it counts nobody.
LEMMA CountZero ==
    ASSUME NEW S \in SUBSET Users
    PROVE  /\ Cardinality(S) \in Nat
           /\ Cardinality(S) = 0 <=> S = {}
<1> QED BY UsersAssumption, FS_Subset, FS_CardinalityType, FS_EmptySet

-----------------------------------------------------------------------------
(* Every step moves one user. *)

\* A step of u changes pc and ret at u only.
LEMMA StepIsLocal ==
    ASSUME TypeOK, NEW u \in Users, Caller(u) \/ Method(u)
    PROVE  /\ DOMAIN pc' = Users /\ DOMAIN ret' = Users
           /\ \A v \in Users \ {u} : pc'[v] = pc[v] /\ ret'[v] = ret[v]
<1>1. CASE Caller(u)
  BY <1>1 DEF TypeOK, Caller, Call, Jump, lockShared, lockHeaders, lockExclusive, unlockShared,
       unlockHeaders, unlockExclusive, switchExclusiveToShared,
       unlockSharedAndSwitchToExclusive, startAppending, stopAppendingAndRestoreExclusive
<1>2. CASE Method(u)
  BY <1>2 DEF TypeOK, Method, Goto, Return, Jump, RaiseReadLevel, CheckWriteLevel,
       CheckAppending, AddReader, FailShared, DropReader, DropReadLevel, TestAndSetUpdating,
       ClearUpdating, RaiseWriteLevel, CheckReadLevel, SetWriting, DropWriteLevel,
       ClearAppending, ClearWriting, SwitchRaiseReadLevel, SwitchAddReader,
       SwitchRaiseWriteLevel, SetAppending, StopAppending, RestoreExclusive
<1> QED BY <1>1, <1>2

\* Inc and Dec stay within a counter.
LEMMA CounterType ==
    ASSUME NEW n \in 0..CounterMax
    PROVE  Inc(n) \in 0..CounterMax /\ Dec(n) \in 0..CounterMax
<1> QED BY CounterAssumption DEF Inc, Dec

\* Every step keeps the types and the return addresses right.
LEMMA TypeStep ==
    ASSUME TypeOK, RetOK, NEW u \in Users, Caller(u) \/ Method(u)
    PROVE  TypeOK' /\ RetOK'
<1> USE CounterType DEF TypeOK, RetOK, Holdings, Accesses
<1>1. CASE Caller(u)
  BY <1>1 DEF Caller, Call, Jump, lock, lockShared, lockHeaders, lockExclusive,
       unlockShared, unlockHeaders, unlockExclusive, switchExclusiveToShared,
       unlockSharedAndSwitchToExclusive, startAppending, stopAppendingAndRestoreExclusive
<1>2. CASE RaiseReadLevel(u)
  BY <1>2 DEF RaiseReadLevel, Goto
<1>3. CASE CheckWriteLevel(u)
  BY <1>3 DEF CheckWriteLevel, Goto, lock
<1>4. CASE CheckAppending(u)
  BY <1>4 DEF CheckAppending, Goto, lock
<1>5. CASE AddReader(u)
  BY <1>5 DEF AddReader, Return, Jump
<1>6. CASE FailShared(u)
  BY <1>6 DEF FailShared, Jump
<1>7. CASE DropReader(u)
  BY <1>7 DEF DropReader, Goto
<1>8. CASE DropReadLevel(u)
  BY <1>8 DEF DropReadLevel, Return, Jump
<1>9. CASE TestAndSetUpdating(u)
  BY <1>9 DEF TestAndSetUpdating, Goto
<1>10. CASE ClearUpdating(u)
  BY <1>10 DEF ClearUpdating, Goto
<1>11. CASE RaiseWriteLevel(u)
  BY <1>11 DEF RaiseWriteLevel, Goto
<1>12. CASE CheckReadLevel(u)
  BY <1>12 DEF CheckReadLevel, Goto, lock
<1>13. CASE SetWriting(u)
  BY <1>13 DEF SetWriting, Goto
<1>14. CASE DropWriteLevel(u)
  BY <1>14 DEF DropWriteLevel, Return, Jump
<1>15. CASE ClearAppending(u)
  BY <1>15 DEF ClearAppending, Goto
<1>16. CASE ClearWriting(u)
  BY <1>16 DEF ClearWriting, Goto
<1>17. CASE SwitchRaiseReadLevel(u)
  BY <1>17 DEF SwitchRaiseReadLevel, Goto
<1>18. CASE SwitchAddReader(u)
  BY <1>18 DEF SwitchAddReader, Jump
<1>19. CASE SwitchRaiseWriteLevel(u)
  BY <1>19 DEF SwitchRaiseWriteLevel, Jump
<1>20. CASE SetAppending(u)
  BY <1>20 DEF SetAppending, Goto
<1>21. CASE StopAppending(u)
  BY <1>21 DEF StopAppending, Goto
<1>22. CASE RestoreExclusive(u)
  BY <1>22 DEF RestoreExclusive, Goto, lock
<1> QED BY <1>1, <1>2, <1>3, <1>4, <1>5, <1>6, <1>7, <1>8, <1>9, <1>10, <1>11, <1>12,
     <1>13, <1>14, <1>15, <1>16, <1>17, <1>18, <1>19, <1>20, <1>21, <1>22 DEF Method

\* Every step keeps the counters in line with the users they count.
LEMMA CountsStep ==
    ASSUME TypeOK, RetOK, Counts, NEW u \in Users, Caller(u) \/ Method(u)
    PROVE  Counts'
<1>r. /\ (Reading(u)' <=> Reading(u)) => Cardinality(ReadingSet') = Cardinality(ReadingSet)
      /\ ~Reading(u) /\ Reading(u)' => Cardinality(ReadingSet') = Inc(Cardinality(ReadingSet))
      /\ Reading(u) /\ ~Reading(u)' => Cardinality(ReadingSet') = Dec(Cardinality(ReadingSet))
  <2>1. ReadingSet \in SUBSET Users /\ ReadingSet' \in SUBSET Users
    BY DEF ReadingSet
  <2>2. \A v \in Users \ {u} : v \in ReadingSet <=> v \in ReadingSet'
    BY StepIsLocal DEF ReadingSet, Switching, Reading, AtReadLevel, Writing, Winner, AtWriteLevel
  <2>3. (u \in ReadingSet <=> Reading(u)) /\ (u \in ReadingSet' <=> Reading(u)')
    BY DEF ReadingSet
  <2> QED BY <2>1, <2>2, <2>3, CountChange
<1>l. /\ (AtReadLevel(u)' <=> AtReadLevel(u)) => Cardinality(ReadLevelSet') = Cardinality(ReadLevelSet)
      /\ ~AtReadLevel(u) /\ AtReadLevel(u)' => Cardinality(ReadLevelSet') = Inc(Cardinality(ReadLevelSet))
      /\ AtReadLevel(u) /\ ~AtReadLevel(u)' => Cardinality(ReadLevelSet') = Dec(Cardinality(ReadLevelSet))
  <2>1. ReadLevelSet \in SUBSET Users /\ ReadLevelSet' \in SUBSET Users
    BY DEF ReadLevelSet
  <2>2. \A v \in Users \ {u} : v \in ReadLevelSet <=> v \in ReadLevelSet'
    BY StepIsLocal DEF ReadLevelSet, Switching, Reading, AtReadLevel, Writing, Winner, AtWriteLevel
  <2>3. (u \in ReadLevelSet <=> AtReadLevel(u)) /\ (u \in ReadLevelSet' <=> AtReadLevel(u)')
    BY DEF ReadLevelSet
  <2> QED BY <2>1, <2>2, <2>3, CountChange
<1>w. /\ (AtWriteLevel(u)' <=> AtWriteLevel(u)) => Cardinality(WriteLevelSet') = Cardinality(WriteLevelSet)
      /\ ~AtWriteLevel(u) /\ AtWriteLevel(u)' => Cardinality(WriteLevelSet') = Inc(Cardinality(WriteLevelSet))
      /\ AtWriteLevel(u) /\ ~AtWriteLevel(u)' => Cardinality(WriteLevelSet') = Dec(Cardinality(WriteLevelSet))
  <2>1. WriteLevelSet \in SUBSET Users /\ WriteLevelSet' \in SUBSET Users
    BY DEF WriteLevelSet
  <2>2. \A v \in Users \ {u} : v \in WriteLevelSet <=> v \in WriteLevelSet'
    BY StepIsLocal DEF WriteLevelSet, Switching, Reading, AtReadLevel, Writing, Winner, AtWriteLevel
  <2>3. (u \in WriteLevelSet <=> AtWriteLevel(u)) /\ (u \in WriteLevelSet' <=> AtWriteLevel(u)')
    BY DEF WriteLevelSet
  <2> QED BY <2>1, <2>2, <2>3, CountChange
<1> USE <1>r, <1>l, <1>w DEF TypeOK, RetOK, Counts, Switching, Reading, AtReadLevel, Writing, Winner,
         AtWriteLevel
<1>1. CASE Caller(u)
  BY <1>1 DEF Caller, Call, Jump, lock, lockShared, lockHeaders, lockExclusive,
       unlockShared, unlockHeaders, unlockExclusive, switchExclusiveToShared,
       unlockSharedAndSwitchToExclusive, startAppending, stopAppendingAndRestoreExclusive
<1>2. CASE RaiseReadLevel(u)
  BY <1>2 DEF RaiseReadLevel, Goto
<1>3. CASE CheckWriteLevel(u)
  BY <1>3 DEF CheckWriteLevel, Goto, lock
<1>4. CASE CheckAppending(u)
  BY <1>4 DEF CheckAppending, Goto, lock
<1>5. CASE AddReader(u)
  BY <1>5 DEF AddReader, Return, Jump
<1>6. CASE FailShared(u)
  BY <1>6 DEF FailShared, Jump
<1>7. CASE DropReader(u)
  BY <1>7 DEF DropReader, Goto
<1>8. CASE DropReadLevel(u)
  BY <1>8 DEF DropReadLevel, Return, Jump
<1>9. CASE TestAndSetUpdating(u)
  BY <1>9 DEF TestAndSetUpdating, Goto
<1>10. CASE ClearUpdating(u)
  BY <1>10 DEF ClearUpdating, Goto
<1>11. CASE RaiseWriteLevel(u)
  BY <1>11 DEF RaiseWriteLevel, Goto
<1>12. CASE CheckReadLevel(u)
  BY <1>12 DEF CheckReadLevel, Goto, lock
<1>13. CASE SetWriting(u)
  BY <1>13 DEF SetWriting, Goto
<1>14. CASE DropWriteLevel(u)
  BY <1>14 DEF DropWriteLevel, Return, Jump
<1>15. CASE ClearAppending(u)
  BY <1>15 DEF ClearAppending, Goto
<1>16. CASE ClearWriting(u)
  BY <1>16 DEF ClearWriting, Goto
<1>17. CASE SwitchRaiseReadLevel(u)
  BY <1>17 DEF SwitchRaiseReadLevel, Goto
<1>18. CASE SwitchAddReader(u)
  BY <1>18 DEF SwitchAddReader, Jump
<1>19. CASE SwitchRaiseWriteLevel(u)
  BY <1>19 DEF SwitchRaiseWriteLevel, Jump
<1>20. CASE SetAppending(u)
  BY <1>20 DEF SetAppending, Goto
<1>21. CASE StopAppending(u)
  BY <1>21 DEF StopAppending, Goto
<1>22. CASE RestoreExclusive(u)
  BY <1>22 DEF RestoreExclusive, Goto, lock
<1> QED BY <1>1, <1>2, <1>3, <1>4, <1>5, <1>6, <1>7, <1>8, <1>9, <1>10, <1>11, <1>12,
     <1>13, <1>14, <1>15, <1>16, <1>17, <1>18, <1>19, <1>20, <1>21, <1>22 DEF Method

\* A level counter that reads zero counts nobody.
LEMMA ZeroLevels ==
    ASSUME Counts
    PROVE  /\ writeLevel = 0 => \A v \in Users : ~AtWriteLevel(v)
           /\ readLevel = 0 => \A v \in Users : ~AtReadLevel(v)
<1>1. WriteLevelSet \in SUBSET Users /\ ReadLevelSet \in SUBSET Users
  BY DEF WriteLevelSet, ReadLevelSet
<1> QED BY <1>1, CountZero DEF Counts, WriteLevelSet, ReadLevelSet

\* No step makes a second winner: a user wins when writeLevel counts nobody.
LEMMA WinnerStep ==
    ASSUME TypeOK, RetOK, Counts, OneWinner, NEW u \in Users, Caller(u) \/ Method(u)
    PROVE  OneWinner'
<1> USE ZeroLevels, StepIsLocal DEF TypeOK, RetOK, OneWinner, Writing, Winner, AtWriteLevel
<1>1. CASE Caller(u)
  BY <1>1 DEF Caller, Call, Jump, lock, lockShared, lockHeaders, lockExclusive,
       unlockShared, unlockHeaders, unlockExclusive, switchExclusiveToShared,
       unlockSharedAndSwitchToExclusive, startAppending, stopAppendingAndRestoreExclusive
<1>2. CASE RaiseReadLevel(u)
  BY <1>2 DEF RaiseReadLevel, Goto
<1>3. CASE CheckWriteLevel(u)
  BY <1>3 DEF CheckWriteLevel, Goto, lock
<1>4. CASE CheckAppending(u)
  BY <1>4 DEF CheckAppending, Goto, lock
<1>5. CASE AddReader(u)
  BY <1>5 DEF AddReader, Return, Jump
<1>6. CASE FailShared(u)
  BY <1>6 DEF FailShared, Jump
<1>7. CASE DropReader(u)
  BY <1>7 DEF DropReader, Goto
<1>8. CASE DropReadLevel(u)
  BY <1>8 DEF DropReadLevel, Return, Jump
<1>9. CASE TestAndSetUpdating(u)
  BY <1>9 DEF TestAndSetUpdating, Goto
<1>10. CASE ClearUpdating(u)
  BY <1>10 DEF ClearUpdating, Goto
<1>11. CASE RaiseWriteLevel(u)
  BY <1>11 DEF RaiseWriteLevel, Goto
<1>12. CASE CheckReadLevel(u)
  BY <1>12 DEF CheckReadLevel, Goto, lock
<1>13. CASE SetWriting(u)
  BY <1>13 DEF SetWriting, Goto
<1>14. CASE DropWriteLevel(u)
  BY <1>14 DEF DropWriteLevel, Return, Jump
<1>15. CASE ClearAppending(u)
  BY <1>15 DEF ClearAppending, Goto
<1>16. CASE ClearWriting(u)
  BY <1>16 DEF ClearWriting, Goto
<1>17. CASE SwitchRaiseReadLevel(u)
  BY <1>17 DEF SwitchRaiseReadLevel, Goto
<1>18. CASE SwitchAddReader(u)
  BY <1>18 DEF SwitchAddReader, Jump
<1>19. CASE SwitchRaiseWriteLevel(u)
  BY <1>19 DEF SwitchRaiseWriteLevel, Jump
<1>20. CASE SetAppending(u)
  BY <1>20 DEF SetAppending, Goto
<1>21. CASE StopAppending(u)
  BY <1>21 DEF StopAppending, Goto
<1>22. CASE RestoreExclusive(u)
  BY <1>22 DEF RestoreExclusive, Goto, lock
<1> QED BY <1>1, <1>2, <1>3, <1>4, <1>5, <1>6, <1>7, <1>8, <1>9, <1>10, <1>11, <1>12,
     <1>13, <1>14, <1>15, <1>16, <1>17, <1>18, <1>19, <1>20, <1>21, <1>22 DEF Method

\* Every step keeps the flags in line with the users that set them.
LEMMA FlagsStep ==
    ASSUME TypeOK, RetOK, OneWinner, Flags, NEW u \in Users, Caller(u) \/ Method(u)
    PROVE  Flags'
<1> USE StepIsLocal DEF TypeOK, RetOK, OneWinner, Flags, Writing, Winner
<1>1. CASE Caller(u)
  BY <1>1 DEF Caller, Call, Jump, lock, lockShared, lockHeaders, lockExclusive,
       unlockShared, unlockHeaders, unlockExclusive, switchExclusiveToShared,
       unlockSharedAndSwitchToExclusive, startAppending, stopAppendingAndRestoreExclusive
<1>2. CASE RaiseReadLevel(u)
  BY <1>2 DEF RaiseReadLevel, Goto
<1>3. CASE CheckWriteLevel(u)
  BY <1>3 DEF CheckWriteLevel, Goto, lock
<1>4. CASE CheckAppending(u)
  BY <1>4 DEF CheckAppending, Goto, lock
<1>5. CASE AddReader(u)
  BY <1>5 DEF AddReader, Return, Jump
<1>6. CASE FailShared(u)
  BY <1>6 DEF FailShared, Jump
<1>7. CASE DropReader(u)
  BY <1>7 DEF DropReader, Goto
<1>8. CASE DropReadLevel(u)
  BY <1>8 DEF DropReadLevel, Return, Jump
<1>9. CASE TestAndSetUpdating(u)
  BY <1>9 DEF TestAndSetUpdating, Goto
<1>10. CASE ClearUpdating(u)
  BY <1>10 DEF ClearUpdating, Goto
<1>11. CASE RaiseWriteLevel(u)
  BY <1>11 DEF RaiseWriteLevel, Goto
<1>12. CASE CheckReadLevel(u)
  BY <1>12 DEF CheckReadLevel, Goto, lock
<1>13. CASE SetWriting(u)
  BY <1>13 DEF SetWriting, Goto
<1>14. CASE DropWriteLevel(u)
  BY <1>14 DEF DropWriteLevel, Return, Jump
<1>15. CASE ClearAppending(u)
  BY <1>15 DEF ClearAppending, Goto
<1>16. CASE ClearWriting(u)
  BY <1>16 DEF ClearWriting, Goto
<1>17. CASE SwitchRaiseReadLevel(u)
  BY <1>17 DEF SwitchRaiseReadLevel, Goto
<1>18. CASE SwitchAddReader(u)
  BY <1>18 DEF SwitchAddReader, Jump
<1>19. CASE SwitchRaiseWriteLevel(u)
  BY <1>19 DEF SwitchRaiseWriteLevel, Jump
<1>20. CASE SetAppending(u)
  BY <1>20 DEF SetAppending, Goto
<1>21. CASE StopAppending(u)
  BY <1>21 DEF StopAppending, Goto
<1>22. CASE RestoreExclusive(u)
  BY <1>22 DEF RestoreExclusive, Goto, lock
<1> QED BY <1>1, <1>2, <1>3, <1>4, <1>5, <1>6, <1>7, <1>8, <1>9, <1>10, <1>11, <1>12,
     <1>13, <1>14, <1>15, <1>16, <1>17, <1>18, <1>19, <1>20, <1>21, <1>22 DEF Method

\* No step lets a reader in next to a user with exclusive access, or the reverse.
LEMMA ExclusionStep ==
    ASSUME TypeOK, RetOK, Counts, OneWinner, Flags, Exclusion, NEW u \in Users, Caller(u) \/ Method(u)
    PROVE  Exclusion'
<1> USE ZeroLevels, StepIsLocal DEF TypeOK, RetOK, OneWinner, Flags, Exclusion, Switching, Reading, AtReadLevel,
         Writing, Winner, AtWriteLevel
<1>1. CASE Caller(u)
  BY <1>1 DEF Caller, Call, Jump, lock, lockShared, lockHeaders, lockExclusive,
       unlockShared, unlockHeaders, unlockExclusive, switchExclusiveToShared,
       unlockSharedAndSwitchToExclusive, startAppending, stopAppendingAndRestoreExclusive
<1>2. CASE RaiseReadLevel(u)
  BY <1>2 DEF RaiseReadLevel, Goto
<1>3. CASE CheckWriteLevel(u)
  BY <1>3 DEF CheckWriteLevel, Goto, lock
<1>4. CASE CheckAppending(u)
  BY <1>4 DEF CheckAppending, Goto, lock
<1>5. CASE AddReader(u)
  BY <1>5 DEF AddReader, Return, Jump
<1>6. CASE FailShared(u)
  BY <1>6 DEF FailShared, Jump
<1>7. CASE DropReader(u)
  BY <1>7 DEF DropReader, Goto
<1>8. CASE DropReadLevel(u)
  BY <1>8 DEF DropReadLevel, Return, Jump
<1>9. CASE TestAndSetUpdating(u)
  BY <1>9 DEF TestAndSetUpdating, Goto
<1>10. CASE ClearUpdating(u)
  BY <1>10 DEF ClearUpdating, Goto
<1>11. CASE RaiseWriteLevel(u)
  BY <1>11 DEF RaiseWriteLevel, Goto
<1>12. CASE CheckReadLevel(u)
  BY <1>12 DEF CheckReadLevel, Goto, lock
<1>13. CASE SetWriting(u)
  BY <1>13 DEF SetWriting, Goto
<1>14. CASE DropWriteLevel(u)
  BY <1>14 DEF DropWriteLevel, Return, Jump
<1>15. CASE ClearAppending(u)
  BY <1>15 DEF ClearAppending, Goto
<1>16. CASE ClearWriting(u)
  BY <1>16 DEF ClearWriting, Goto
<1>17. CASE SwitchRaiseReadLevel(u)
  BY <1>17 DEF SwitchRaiseReadLevel, Goto
<1>18. CASE SwitchAddReader(u)
  BY <1>18 DEF SwitchAddReader, Jump
<1>19. CASE SwitchRaiseWriteLevel(u)
  BY <1>19 DEF SwitchRaiseWriteLevel, Jump
<1>20. CASE SetAppending(u)
  BY <1>20 DEF SetAppending, Goto
<1>21. CASE StopAppending(u)
  BY <1>21 DEF StopAppending, Goto
<1>22. CASE RestoreExclusive(u)
  BY <1>22 DEF RestoreExclusive, Goto, lock
<1> QED BY <1>1, <1>2, <1>3, <1>4, <1>5, <1>6, <1>7, <1>8, <1>9, <1>10, <1>11, <1>12,
     <1>13, <1>14, <1>15, <1>16, <1>17, <1>18, <1>19, <1>20, <1>21, <1>22 DEF Method

-----------------------------------------------------------------------------
(* The theorems *)

\* The inductive invariant holds in every reachable state of the lock.
THEOREM Invariance == Spec => []IInv
<1>1. Init => IInv
  <2> SUFFICES ASSUME Init PROVE IInv
    OBVIOUS
  <2> USE DEF Init, Switching, Reading, AtReadLevel, Writing, Winner, AtWriteLevel
  <2>1. ReadingSet = {} /\ ReadLevelSet = {} /\ WriteLevelSet = {}
    BY DEF ReadingSet, ReadLevelSet, WriteLevelSet
  <2>2. Counts
    BY <2>1, FS_EmptySet DEF Counts
  <2>3. TypeOK /\ RetOK
    <3>1. 0 \in 0..CounterMax
      BY CounterAssumption
    <3>2. TypeOK
      BY <3>1 DEF TypeOK, Holdings
    <3>3. RetOK
      BY DEF RetOK
    <3> QED BY <3>2, <3>3
  <2>4. OneWinner /\ Flags /\ Exclusion
    BY DEF OneWinner, Flags, Exclusion
  <2> QED BY <2>2, <2>3, <2>4 DEF IInv
<1>2. IInv /\ [Next]_vars => IInv'
  <2> SUFFICES ASSUME IInv, [Next]_vars PROVE IInv'
    OBVIOUS
  <2>1. CASE Next
    <3>1. PICK u \in Users : Caller(u) \/ Method(u)
      BY <2>1 DEF Next
    <3> QED BY <3>1, TypeStep, CountsStep, WinnerStep, FlagsStep, ExclusionStep DEF IInv
  <2>2. CASE UNCHANGED vars
    <3> USE <2>2 DEF vars, lock, Switching, Reading, AtReadLevel, Writing, Winner, AtWriteLevel
    <3>1. ReadingSet' = ReadingSet /\ ReadLevelSet' = ReadLevelSet /\ WriteLevelSet' = WriteLevelSet
      BY DEF ReadingSet, ReadLevelSet, WriteLevelSet
    <3>2. Counts'
      BY <3>1 DEF IInv, Counts
    <3>3. TypeOK' /\ RetOK'
      BY DEF IInv, TypeOK, RetOK
    <3>4. OneWinner' /\ Flags' /\ Exclusion'
      BY DEF IInv, OneWinner, Flags, Exclusion
    <3> QED BY <3>2, <3>3, <3>4 DEF IInv
  <2> QED BY <2>1, <2>2
<1> QED BY <1>1, <1>2, PTL DEF Spec

\* At every moment every holder is counted and no counter exceeds the number of
\* users that hold the lock or are in one of its methods: no count is taken back
\* twice and none is forgotten, also while the methods of several users overlap.
THEOREM CountersStayInStep == Spec => []CountersInStep
<1>1. ASSUME IInv PROVE CountersInStep
  <2> DEFINE busy == {u \in Users : pc[u] # "idle"}
             rs == {u \in Users : pc[u] \in Readers}
             ws == {u \in Users : pc[u] \in Writers}
  <2>1. rs \subseteq ReadingSet /\ ReadingSet \subseteq ReadLevelSet
    BY DEF Readers, ReadingSet, ReadLevelSet, Reading, AtReadLevel
  <2>2. ReadLevelSet \subseteq busy
    BY DEF ReadLevelSet, AtReadLevel, Reading, Switching
  <2>3. ws \subseteq WriteLevelSet /\ WriteLevelSet \subseteq busy
    BY DEF Writers, WriteLevelSet, AtWriteLevel, Winner, Writing
  <2>4. IsFiniteSet(busy)
    BY UsersAssumption, FS_Subset
  <2> HIDE DEF busy, rs, ws
  <2>5. IsFiniteSet(ReadLevelSet) /\ IsFiniteSet(ReadingSet) /\ IsFiniteSet(WriteLevelSet)
    BY <2>1, <2>2, <2>3, <2>4, FS_Subset
  <2>6. /\ Cardinality(rs) <= Cardinality(ReadingSet)
        /\ Cardinality(ReadingSet) <= Cardinality(ReadLevelSet)
        /\ Cardinality(ReadLevelSet) <= Cardinality(busy)
        /\ Cardinality(ws) <= Cardinality(WriteLevelSet)
        /\ Cardinality(WriteLevelSet) <= Cardinality(busy)
    BY <2>1, <2>2, <2>3, <2>4, <2>5, FS_Subset
  <2> QED BY <2>6, <1>1 DEF IInv, Counts, CountersInStep, busy, rs, ws
<1> QED BY <1>1, Invariance, PTL

\* Two users never hold conflicting locks, however many users there are.
THEOREM MutualExclusionHolds == Spec => []MutualExclusion
<1>1. IInv => MutualExclusion
  BY DEF IInv, OneWinner, Exclusion, Winner, Writing, Reading, MutualExclusion, Readers, Writers
<1> QED BY <1>1, Invariance, PTL

\* Two readers never both update the headers.
THEOREM HeadersUpdaterIsAlone == Spec => []OneHeadersUpdater
<1>1. IInv => OneHeadersUpdater
  BY DEF IInv, Flags, OneHeadersUpdater
<1> QED BY <1>1, Invariance, PTL

\* No assertion in the lock's methods fails, for any number of users.
THEOREM NoAssertionFails == Spec => []AssertionsHold
<1>1. IInv => AssertionsHold
  <2> SUFFICES ASSUME IInv, NEW u \in Users
               PROVE  /\ pc[u] \in {"us_readers", "ss_writeLevel"} => readers > 0
                      /\ pc[u] = "fx_readLevel" => writeLevel > 0 /\ ~appending
                      /\ pc[u] \in {"ux_appending", "sx_readLevel", "sa_appending", "st_appending"} => writing
                      /\ pc[u] = "st_appending" => appending
                      /\ pc[u] = "uh_updating" => updating
    BY DEF AssertionsHold
  <2>1. Reading(u) => readers > 0
    <3>1. ReadingSet \in SUBSET Users /\ (Reading(u) => u \in ReadingSet)
      BY DEF ReadingSet
    <3> QED BY <3>1, CountZero DEF IInv, Counts
  <2>2. AtWriteLevel(u) => writeLevel > 0
    <3>1. WriteLevelSet \in SUBSET Users /\ (AtWriteLevel(u) => u \in WriteLevelSet)
      BY DEF WriteLevelSet
    <3> QED BY <3>1, CountZero DEF IInv, Counts
  <2>3. pc[u] = "fx_readLevel" => ~appending
    BY DEF IInv, OneWinner, Flags, Winner, Writing
  <2>4. Writing(u) => writing
    BY DEF IInv, Flags
  <2> QED BY <2>1, <2>2, <2>3, <2>4 DEF IInv, Flags, Reading, AtWriteLevel, Winner, Writing
<1> QED BY <1>1, Invariance, PTL

\* When no user holds or wants the lock all its fields are back at zero.
THEOREM NothingLeaks == Spec => []IdleLockIsPristine
<1>1. IInv => IdleLockIsPristine
  <2> SUFFICES ASSUME IInv, \A u \in Users : pc[u] = "idle"
               PROVE  /\ readers = 0 /\ readLevel = 0 /\ writeLevel = 0
                      /\ ~writing /\ ~appending /\ ~updating
    BY DEF IdleLockIsPristine
  <2>1. ReadingSet = {} /\ ReadLevelSet = {} /\ WriteLevelSet = {}
    BY DEF ReadingSet, ReadLevelSet, WriteLevelSet, Switching, Reading, AtReadLevel, Writing,
         Winner, AtWriteLevel
  <2>2. readers = 0 /\ readLevel = 0 /\ writeLevel = 0
    BY <2>1, FS_EmptySet DEF IInv, Counts
  <2>3. ~writing /\ ~appending /\ ~updating
    BY DEF IInv, Flags, Writing
  <2> QED BY <2>2, <2>3
<1> QED BY <1>1, Invariance, PTL

\* A user meets an obstacle only if another user is not idle: an attempt of a
\* user alone succeeds, for any number of users.
THEOREM OnlyOthersRefuse == Spec => RefusalIsJustified
<1> DEFINE Refused(u) ==
      \/ pc[u] = "ls_writeLevel" /\ pc'[u] = "ls_appending"
      \/ pc[u] = "lh_updating" /\ pc'[u] = "us_readers"
      \/ pc[u] \in {"lx_writeLevel", "fx_readLevel"} /\ pc'[u] = "wl_drop"
      \/ pc[u] = "st_readLevel" /\ pc'[u] = "halted"
<1>1. ASSUME IInv, Next, NEW u \in Users, Refused(u)
      PROVE  \E v \in Users \ {u} : pc[v] # "idle"
  <2> SUFFICES ASSUME \A v \in Users \ {u} : pc[v] = "idle" PROVE FALSE
    OBVIOUS
  <2>1. PICK w \in Users : Caller(w) \/ Method(w)
    BY <1>1 DEF Next
  <2>2. w = u /\ Method(u)
    BY <1>1, <2>1, StepIsLocal DEF IInv, Caller, Call, lockShared, lockHeaders, lockExclusive,
         unlockShared, unlockHeaders, unlockExclusive, switchExclusiveToShared,
         unlockSharedAndSwitchToExclusive, startAppending, stopAppendingAndRestoreExclusive
  <2>3. (~AtWriteLevel(u) => WriteLevelSet = {}) /\ (~AtReadLevel(u) => ReadLevelSet = {})
    BY DEF WriteLevelSet, ReadLevelSet, Switching, Reading, AtReadLevel, Writing, Winner, AtWriteLevel
  <2>4. (~AtWriteLevel(u) => writeLevel = 0) /\ (~AtReadLevel(u) => readLevel = 0)
    BY <1>1, <2>3, FS_EmptySet DEF IInv, Counts
  <2>5. pc[u] = "lh_updating" => ~updating
    BY <1>1 DEF IInv, Flags
  <2>6. ret[u] \in {"idle", "shared", "lh_updating"}
    BY <1>1 DEF IInv, RetOK
  <2> QED BY <1>1, <2>2, <2>4, <2>5, <2>6
         DEF IInv, TypeOK, RetOK, Switching, Reading, AtReadLevel, Writing, Winner, AtWriteLevel,
         Method, Goto, Return, Jump, RaiseReadLevel, CheckWriteLevel, CheckAppending, AddReader,
         FailShared, DropReader, DropReadLevel, TestAndSetUpdating, ClearUpdating, RaiseWriteLevel,
         CheckReadLevel, SetWriting, DropWriteLevel, ClearAppending, ClearWriting,
         SwitchRaiseReadLevel, SwitchAddReader, SwitchRaiseWriteLevel, SetAppending, StopAppending,
         RestoreExclusive
<1>2. IInv /\ [Next]_vars => [\A u \in Users : Refused(u) => \E v \in Users \ {u} : pc[v] # "idle"]_vars
  BY <1>1
<1> QED BY <1>2, Invariance, PTL DEF Spec, RefusalIsJustified

-----------------------------------------------------------------------------
(* The lock implements LockPromise *)

\* What a step of u may do to the lock granted to u, in terms of what the other
\* users have been granted.
GrantChange(u) ==
    LET Others(modes) == \A v \in Users \ {u} : Granted(v) \in modes
        Change(from, to) == Granted(u) = from /\ Granted(u)' = to
    IN  \/ Granted(u)' = Granted(u)
        \/ Change("idle", "shared") /\ Others({"idle", "shared", "headers", "appending"})
        \/ Change("shared", "headers") /\ Others(Holdings \ {"headers"})
        \/ Change("idle", "exclusive") /\ Others({"idle"})
        \/ Change("exclusive", "appending")
        \/ Change("appending", "halted")
        \/ Change("halted", "exclusive") /\ Others({"idle"})
        \/ Change("exclusive", "shared") \/ Change("appending", "shared")
        \/ Granted(u) \in Holdings \ {"idle"} /\ Granted(u)' = "idle"

\* Every step changes at most what its own user has been granted, and as GrantChange says.
LEMMA GrantStep ==
    ASSUME IInv, NEW u \in Users, Caller(u) \/ Method(u)
    PROVE  GrantChange(u)
<1> USE ZeroLevels DEF IInv, TypeOK, RetOK, OneWinner, Flags, Switching, Reading, AtReadLevel, Writing,
         Winner, AtWriteLevel, GrantChange, Granted, Holdings, Accesses
<1>1. CASE Caller(u)
  BY <1>1 DEF Caller, Call, Jump, lock, lockShared, lockHeaders, lockExclusive,
       unlockShared, unlockHeaders, unlockExclusive, switchExclusiveToShared,
       unlockSharedAndSwitchToExclusive, startAppending, stopAppendingAndRestoreExclusive
<1>2. CASE RaiseReadLevel(u)
  BY <1>2 DEF RaiseReadLevel, Goto
<1>3. CASE CheckWriteLevel(u)
  BY <1>3 DEF CheckWriteLevel, Goto, lock
<1>4. CASE CheckAppending(u)
  BY <1>4 DEF CheckAppending, Goto, lock
<1>5. CASE AddReader(u)
  BY <1>5 DEF AddReader, Return, Jump
<1>6. CASE FailShared(u)
  BY <1>6 DEF FailShared, Jump
<1>7. CASE DropReader(u)
  BY <1>7 DEF DropReader, Goto
<1>8. CASE DropReadLevel(u)
  BY <1>8 DEF DropReadLevel, Return, Jump
<1>9. CASE TestAndSetUpdating(u)
  BY <1>9 DEF TestAndSetUpdating, Goto
<1>10. CASE ClearUpdating(u)
  BY <1>10 DEF ClearUpdating, Goto
<1>11. CASE RaiseWriteLevel(u)
  BY <1>11 DEF RaiseWriteLevel, Goto
<1>12. CASE CheckReadLevel(u)
  BY <1>12 DEF CheckReadLevel, Goto, lock
<1>13. CASE SetWriting(u)
  BY <1>13 DEF SetWriting, Goto
<1>14. CASE DropWriteLevel(u)
  BY <1>14 DEF DropWriteLevel, Return, Jump
<1>15. CASE ClearAppending(u)
  BY <1>15 DEF ClearAppending, Goto
<1>16. CASE ClearWriting(u)
  BY <1>16 DEF ClearWriting, Goto
<1>17. CASE SwitchRaiseReadLevel(u)
  BY <1>17 DEF SwitchRaiseReadLevel, Goto
<1>18. CASE SwitchAddReader(u)
  BY <1>18 DEF SwitchAddReader, Jump
<1>19. CASE SwitchRaiseWriteLevel(u)
  BY <1>19 DEF SwitchRaiseWriteLevel, Jump
<1>20. CASE SetAppending(u)
  BY <1>20 DEF SetAppending, Goto
<1>21. CASE StopAppending(u)
  BY <1>21 DEF StopAppending, Goto
<1>22. CASE RestoreExclusive(u)
  BY <1>22 DEF RestoreExclusive, Goto, lock
<1> QED BY <1>1, <1>2, <1>3, <1>4, <1>5, <1>6, <1>7, <1>8, <1>9, <1>10, <1>11, <1>12,
     <1>13, <1>14, <1>15, <1>16, <1>17, <1>18, <1>19, <1>20, <1>21, <1>22 DEF Method

\* Spec implements the abstract lock, for any number of users.
THEOREM Refinement == Spec => ImplementsPromise
<1> DEFINE H == [u \in Users |-> Granted(u)]
<1>1. Init => Promise!Init
  BY DEF Init, Promise!Init, Granted, Holdings
<1>2. ASSUME IInv, Next PROVE Promise!Next \/ H' = H
  <2>1. PICK u \in Users : Caller(u) \/ Method(u)
    BY <1>2 DEF Next
  <2>2. \A v \in Users \ {u} : Granted(v)' = Granted(v)
    BY <1>2, <2>1, StepIsLocal DEF IInv, Granted
  <2>3. H' = [H EXCEPT ![u] = Granted(u)']
    BY <2>2
  <2>4. GrantChange(u)
    BY <1>2, <2>1, GrantStep
  <2>5. \A v \in Users : H[v] = Granted(v)
    OBVIOUS
  <2> HIDE DEF H
  <2> QED BY <2>3, <2>4, <2>5 DEF GrantChange, Holdings, H, Promise!Next, Promise!Others,
         Promise!Change, Promise!Modes, Promise!GrantShared, Promise!GrantHeaders,
         Promise!GrantExclusive, Promise!StartAppending, Promise!StopAppending,
         Promise!RestoreExclusive, Promise!StopWriting, Promise!Release
<1>3. UNCHANGED vars => H' = H
  BY DEF vars, Granted
<1>4. IInv /\ [Next]_vars => [Promise!Next]_H
  BY <1>2, <1>3
<1> QED BY <1>1, <1>4, Invariance, PTL DEF Spec, ImplementsPromise, Promise!Spec

-----------------------------------------------------------------------------
(* Methods end *)

\* Accesses to the lock that a method has at most ahead of it
AccessesLeft(l) ==
    CASE l = "ls_readLevel" -> 9
      [] l = "ls_writeLevel" -> 8
      [] l = "ls_appending" -> 7
      [] l = "ls_readers" -> 6
      [] l \in {"lh_updating", "uh_updating", "ss_writeLevel", "sx_readLevel"} -> 5
      [] l \in {"us_readers", "sx_readers"} -> 4
      [] l \in {"us_readLevel", "lx_writeLevel", "ux_appending"} -> 3
      [] l \in {"fx_readLevel", "ux_writing", "st_appending"} -> 2
      [] l \in {"ls_fail", "fx_writing", "wl_drop", "sa_appending", "st_readLevel"} -> 1
      [] OTHER -> 0

\* Whatever the other users do, a user in a method stays where it is or comes closer to
\* the end of the method: the lock is non-blocking.
MethodsAreShort ==
    [][\A u \in Users : pc[u] \in Accesses =>
          \/ pc'[u] = pc[u] /\ ret'[u] = ret[u]
          \/ AccessesLeft(pc'[u]) < AccessesLeft(pc[u])]_vars

\* A method has an access ahead of it until it returns, and never more than nine.
LEMMA AccessesBounded ==
    /\ \A l \in Accesses : AccessesLeft(l) \in 1..9
    /\ \A l \in Holdings : AccessesLeft(l) = 0
BY DEF Accesses, Holdings, AccessesLeft

\* Each access of a method is followed by one closer to the end, or by its return.
LEMMA AccessStep ==
    ASSUME TypeOK, RetOK, NEW u \in Users, Method(u)
    PROVE  AccessesLeft(pc'[u]) < AccessesLeft(pc[u])
<1> USE DEF TypeOK, RetOK, AccessesLeft
<1>1. CASE RaiseReadLevel(u)
  BY <1>1 DEF RaiseReadLevel, Goto
<1>2. CASE CheckWriteLevel(u)
  BY <1>2 DEF CheckWriteLevel, Goto
<1>3. CASE CheckAppending(u)
  BY <1>3 DEF CheckAppending, Goto
<1>4. CASE AddReader(u)
  BY <1>4 DEF AddReader, Return, Jump
<1>5. CASE FailShared(u)
  BY <1>5 DEF FailShared, Jump
<1>6. CASE DropReader(u)
  BY <1>6 DEF DropReader, Goto
<1>7. CASE DropReadLevel(u)
  BY <1>7 DEF DropReadLevel, Return, Jump
<1>8. CASE TestAndSetUpdating(u)
  BY <1>8 DEF TestAndSetUpdating, Goto
<1>9. CASE ClearUpdating(u)
  BY <1>9 DEF ClearUpdating, Goto
<1>10. CASE RaiseWriteLevel(u)
  BY <1>10 DEF RaiseWriteLevel, Goto
<1>11. CASE CheckReadLevel(u)
  BY <1>11 DEF CheckReadLevel, Goto
<1>12. CASE SetWriting(u)
  BY <1>12 DEF SetWriting, Goto
<1>13. CASE DropWriteLevel(u)
  BY <1>13 DEF DropWriteLevel, Return, Jump
<1>14. CASE ClearAppending(u)
  BY <1>14 DEF ClearAppending, Goto
<1>15. CASE ClearWriting(u)
  BY <1>15 DEF ClearWriting, Goto
<1>16. CASE SwitchRaiseReadLevel(u)
  BY <1>16 DEF SwitchRaiseReadLevel, Goto
<1>17. CASE SwitchAddReader(u)
  BY <1>17 DEF SwitchAddReader, Jump
<1>18. CASE SwitchRaiseWriteLevel(u)
  BY <1>18 DEF SwitchRaiseWriteLevel, Jump
<1>19. CASE SetAppending(u)
  BY <1>19 DEF SetAppending, Goto
<1>20. CASE StopAppending(u)
  BY <1>20 DEF StopAppending, Goto
<1>21. CASE RestoreExclusive(u)
  BY <1>21 DEF RestoreExclusive, Goto
<1> QED BY <1>1, <1>2, <1>3, <1>4, <1>5, <1>6, <1>7, <1>8, <1>9, <1>10, <1>11,
     <1>12, <1>13, <1>14, <1>15, <1>16, <1>17, <1>18, <1>19, <1>20, <1>21 DEF Method

\* No method of the lock waits for another user: it returns after at most nine accesses.
THEOREM MethodsEnd == Spec => MethodsAreShort
<1>1. IInv /\ [Next]_vars =>
          [\A u \in Users : pc[u] \in Accesses =>
              \/ pc'[u] = pc[u] /\ ret'[u] = ret[u]
              \/ AccessesLeft(pc'[u]) < AccessesLeft(pc[u])]_vars
  <2>1. ASSUME IInv, NEW v \in Users, Caller(v) \/ Method(v), NEW u \in Users, pc[u] \in Accesses
        PROVE  \/ pc'[u] = pc[u] /\ ret'[u] = ret[u]
               \/ AccessesLeft(pc'[u]) < AccessesLeft(pc[u])
    <3>1. CASE u # v
      BY <2>1, <3>1, StepIsLocal DEF IInv
    <3>2. CASE u = v
      <4>1. ~Caller(u)
        BY <2>1 DEF Accesses, Caller, Call, lockShared, lockHeaders, lockExclusive,
             unlockShared, unlockHeaders, unlockExclusive, switchExclusiveToShared,
             unlockSharedAndSwitchToExclusive, startAppending, stopAppendingAndRestoreExclusive
      <4> QED BY <2>1, <3>2, <4>1, AccessStep DEF IInv
    <3> QED BY <3>1, <3>2
  <2> QED BY <2>1 DEF Next
<1> QED BY <1>1, Invariance, PTL DEF Spec, MethodsAreShort

=============================================================================
