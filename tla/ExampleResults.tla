---------------------------- MODULE ExampleResults ----------------------------
(***************************************************************************)
(* The examples, from their sources to the results their C functions       *)
(* compute: every array of a small size, and what was in the memory behind *)
(* the data.                                                               *)
(***************************************************************************)
EXTENDS LoadedPrograms, ExamplePrograms

\* numbers of a source that are words of the core too: the least word, 0, 1 and Key
Least == 2 * 256^3
Ascending == <<Least, 0, 1, Key>>

NoNumbers(n) == [k \in 1 .. n |-> 0]

FindNumbers == [1 .. FindSize -> {1, Key}]
SortNumbers == [1 .. SortSize -> {Least, 0, 1}]
Descending == [k \in 1 .. SortSize |-> SortSize - k]
CounterBytes == [1 .. CounterSize -> {0, 2, 3}]
SearchNumbers ==
  {[k \in 1 .. SearchSize |-> Ascending[index[k]]] :
     index \in {i \in [1 .. SearchSize -> DOMAIN Ascending] :
                  \A k \in 2 .. SearchSize : i[k - 1] <= i[k]}}

\* the keys binSearch is called with: bs_v10 does not detect another one
SearchKeys(values) ==
  {Ascending[k] : k \in {n \in DOMAIN Ascending :
     \/ \E i \in DOMAIN values : values[i] = Ascending[n]
     \/ \A i \in DOMAIN values : values[i] \notin {Ascending[m] : m \in n .. Len(Ascending)}}}

FindFirstSource == FindFirstData(NoNumbers(FindSize), NoNumbers(FindSize))
SortSource == SortData(NoNumbers(SortSize), NoNumbers(SortSize))
IncrementSource == IncrementData(NoNumbers(CounterSize))
SearchSource == SearchData(NoNumbers(SearchSize), 0)

\* what becomes of each function, with its main and the data both refer to
FindFirst == [f \in FindFirstFunctions |-> LoadedProgram(f[1], FindFirstSource \o FindFirstText(f[2]))]
Sort == [f \in SortFunctions |-> LoadedProgram(f[1], SortSource \o SortText(f[2]))]
Increment == [f \in IncrementFunctions |-> LoadedProgram(f[1], IncrementSource \o IncrementText(f[2]))]
Search == [f \in SearchFunctions |-> LoadedProgram(f[1], SearchSource \o SearchText(f[2]))]

FindFirstPrograms == {FindFirst[f] : f \in FindFirstFunctions}
SortPrograms == {Sort[f] : f \in SortFunctions}
IncrementPrograms == {Increment[f] : f \in IncrementFunctions}
SearchPrograms == {Search[f] : f \in SearchFunctions}
SinglePathPrograms ==
  {FindFirst[f] : f \in FindFirstSinglePath} \cup {Sort[f] : f \in SortSinglePath}
    \cup {Increment[f] : f \in IncrementSinglePath}

\* the image of the data is the same for every target
MemoriesFrom(data) == {LoadedMemory("v8", d, free) : d \in data, free \in FreeBytes}
ExampleImages ==
  (FindFirstPrograms \X MemoriesFrom({FindFirstData(a, b) : a \in FindNumbers, b \in FindNumbers}))
    \cup (SortPrograms \X MemoriesFrom({SortData(a, Descending) : a \in SortNumbers}))
    \cup (IncrementPrograms \X MemoriesFrom({IncrementData(c) : c \in CounterBytes}))
    \cup (SearchPrograms
            \X MemoriesFrom(UNION {{SearchData(a, key) : key \in SearchKeys(a)} : a \in SearchNumbers}))

\* the assembler accepts each source for its target
ASSUME ExamplesAccepted ==
  /\ \A f \in FindFirstFunctions : Meaning!Correct(f[1], FindFirstSource \o FindFirstText(f[2]))
  /\ \A f \in SortFunctions : Meaning!Correct(f[1], SortSource \o SortText(f[2]))
  /\ \A f \in IncrementFunctions : Meaning!Correct(f[1], IncrementSource \o IncrementText(f[2]))
  /\ \A f \in SearchFunctions : Meaning!Correct(f[1], SearchSource \o SearchText(f[2]))
-----------------------------------------------------------------------------
Halts(programs) == status = "halted" /\ program \in programs
OnlyChanged(addresses) == \A a \in Addresses \ addresses : memory[a] = image[a]

(***************************************************************************)
(* main of the find-first examples: for each of two sets of numbers, the   *)
(* answer is the first position of KEY, or SIZE, whether the function      *)
(* breaks out of its loop (with a branch, out of a hardware loop that      *)
(* stays active until the next call) or runs it to its end.                *)
(***************************************************************************)
FirstPositionsFound ==
  Halts(FindFirstPrograms) =>
    /\ \A s \in {0, 1} :
         LET found == {k \in 0 .. FindSize - 1 : InitialWord(8 + 4 * (s * FindSize + k)) = Key}
         IN  WordAt(memory, 4 * s) = Min(found \cup {FindSize})
    /\ OnlyChanged(0 .. 7)

(***************************************************************************)
(* BubbleSort leaves the numbers of each array, in ascending signed order; *)
(* its inner hardware loop is entered again and again, bounded by a        *)
(* register that counts down, from inside a loop made of branches.         *)
(***************************************************************************)
ArraySorted ==
  Halts(SortPrograms) =>
    LET Was(s, k) == Signed(InitialWord(4 * (s * SortSize + k)))
        Now(s, k) == Signed(WordAt(memory, 4 * (s * SortSize + k)))
        positions == 0 .. SortSize - 1
    IN  /\ \A s \in {0, 1} :
             /\ \A k \in positions \ {0} : Now(s, k - 1) <= Now(s, k)
             /\ \A k \in positions :
                  Cardinality({i \in positions : Now(s, i) = Now(s, k)})
                    = Cardinality({i \in positions : Was(s, i) = Now(s, k)})
        /\ OnlyChanged(0 .. 8 * SortSize - 1)

\* the counter in the memory m, its lowest byte first
CounterIn(m) == MapThenSumSet(LAMBDA a : m[a] * ByteRange ^ a, 0 .. CounterSize - 1)

(***************************************************************************)
(* inc_counter, called twice, adds two to a counter of several bytes: each *)
(* carry goes on exactly through the bytes that become zero.               *)
(***************************************************************************)
CounterIncremented ==
  Halts(IncrementPrograms) =>
    /\ CounterIn(memory) = (CounterIn(image) + 2) % ByteRange ^ CounterSize
    /\ OnlyChanged(0 .. CounterSize - 1)

(***************************************************************************)
(* binSearch returns a position where the key is, or -1 for a key above    *)
(* all values, by branches as well as on the single path of bs_v10.        *)
(***************************************************************************)
SearchFinds ==
  Halts(SearchPrograms) =>
    LET position == WordAt(memory, 0)
        Value(k) == InitialWord(4 * (k + 1))
        key == Value(SearchSize)
        occurrences == {k \in 0 .. SearchSize - 1 : Value(k) = key}
    IN  /\ IF occurrences = {} THEN position = Modulus - 1 ELSE position \in occurrences
        /\ OnlyChanged(0 .. 3)

(***************************************************************************)
(* What the single-path forms are for: a function without data-dependent   *)
(* branches takes the same number of cycles for every input, whichever of  *)
(* its instructions are predicated off or move nothing.  Each main calls   *)
(* its function twice, with different data, and prints both times.         *)
(***************************************************************************)
SinglePathTakesSameTime ==
  Halts(SinglePathPrograms) => Len(printed) = 2 /\ printed[1] = printed[2]
=============================================================================
