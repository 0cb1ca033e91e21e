------------------------- MODULE DiaInterfaceProofs -------------------------
(***************************************************************************)
(* Proofs about DiaInterface, for any PDBs and any number of calls: type   *)
(* correctness and the COM session; then the map CreateTypeSymbol fills,   *)
(* with the names of pointers, the recursion, and the references of the    *)
(* USYM that is handed out.  What the symbols hold is the matter of        *)
(* DiaContentsProofs, which rests on this module.                          *)
(***************************************************************************)
EXTENDS DiaInterface, TLAPS, SequenceTheorems

-----------------------------------------------------------------------------
(* Sequences used as a stack *)

(* What is left below the top of a stack. *)
LEMMA Popped ==
  ASSUME NEW S, NEW s \in Seq(S), s # << >>
  PROVE  /\ Len(s) \in Nat \ {0}
         /\ s[Len(s)] \in S
         /\ SubSeq(s, 1, Len(s) - 1) \in Seq(S)
         /\ Len(SubSeq(s, 1, Len(s) - 1)) = Len(s) - 1
         /\ \A i \in 1..(Len(s) - 1) : SubSeq(s, 1, Len(s) - 1)[i] = s[i]
<1>. DEFINE n == Len(s) - 1
            r == SubSeq(s, 1, n)
<1>1. Len(s) \in Nat \ {0} /\ n \in Nat /\ n + 1 = Len(s)
  BY EmptySeq, LenProperties
<1>2. \A i \in 1..Len(s) : s[i] \in S
  OBVIOUS
<1>3. \A i \in 1..n : s[i] \in S
  BY <1>1, <1>2
<1>. HIDE DEF n
<1>4. /\ r \in Seq(S)
      /\ Len(r) = IF 1 <= n THEN n - 1 + 1 ELSE 0
      /\ \A i \in 1..(n - 1 + 1) : r[i] = s[1 + i - 1]
  BY <1>1, <1>3, SubSeqProperties
<1>. HIDE DEF r
<1>5. Len(r) = n
  BY <1>1, <1>4
<1>6. \A i \in 1..n : r[i] = s[i]
  <2>. SUFFICES ASSUME NEW i \in 1..n
                PROVE  r[i] = s[i]
    OBVIOUS
  <2>1. i \in 1..(n - 1 + 1) /\ 1 + i - 1 = i
    BY <1>1
  <2>. QED
    BY <1>4, <2>1
<1>7. s[Len(s)] \in S
  BY <1>1, <1>2
<1>8. /\ r \in Seq(S) /\ Len(r) = n
      /\ \A i \in 1..n : r[i] = s[i]
  BY <1>4, <1>5, <1>6
<1>. QED
  BY <1>1, <1>7, <1>8 DEF n, r

(* A stack whose top has been replaced. *)
LEMMA Replaced ==
  ASSUME NEW S, NEW s \in Seq(S), s # << >>, NEW e \in S
  PROVE  /\ Append(SubSeq(s, 1, Len(s) - 1), e) \in Seq(S)
         /\ Append(SubSeq(s, 1, Len(s) - 1), e) # << >>
         /\ Len(Append(SubSeq(s, 1, Len(s) - 1), e)) = Len(s)
         /\ Append(SubSeq(s, 1, Len(s) - 1), e)[Len(s)] = e
         /\ \A i \in 1..(Len(s) - 1) : Append(SubSeq(s, 1, Len(s) - 1), e)[i] = s[i]
<1>. DEFINE r == SubSeq(s, 1, Len(s) - 1)
<1>1. r \in Seq(S) /\ Len(r) = Len(s) - 1 /\ Len(s) \in Nat \ {0}
      /\ \A i \in 1..(Len(s) - 1) : r[i] = s[i]
  BY Popped
<1>. HIDE DEF r
<1>2. /\ Append(r, e) \in Seq(S) /\ Append(r, e) # << >>
      /\ Len(Append(r, e)) = Len(r) + 1
      /\ Append(r, e)[Len(r) + 1] = e
      /\ \A i \in 1..Len(r) : Append(r, e)[i] = r[i]
  BY <1>1, AppendProperties
<1>3. Len(r) + 1 = Len(s)
  BY <1>1
<1>4. /\ Append(r, e) \in Seq(S) /\ Append(r, e) # << >> /\ Len(Append(r, e)) = Len(s)
      /\ Append(r, e)[Len(s)] = e
      /\ \A i \in 1..(Len(s) - 1) : Append(r, e)[i] = s[i]
  BY <1>1, <1>2, <1>3
<1>. QED
  BY <1>4 DEF r

-----------------------------------------------------------------------------
(* Symbols *)

(* What the getters of a PDB's symbols answer. *)
LEMMA SymbolAnswers ==
  ASSUME IsPdb(Names, pdb), NEW o \in DOMAIN pdb.symbols
  PROVE  /\ o \in Nat /\ o # 0
         /\ Sym(o).tag \in SymTags \cup {"fail"}
         /\ Sym(o).hasId \in BOOLEAN /\ Sym(o).hasLength \in BOOLEAN
         /\ Sym(o).name \in Names
         /\ Sym(o).length \in Nat
         /\ Sym(o).type \in DOMAIN pdb.symbols \cup {0}
         /\ Sym(o).members \in Seq(DiaMembers(Names, DOMAIN pdb.symbols))
         /\ AnswersItsTag(Sym(o))
<1>1. Sym(o) \in DiaTypes(Names, DOMAIN pdb.symbols)
  BY DEF IsPdb, Sym
<1>2. o \in Nat /\ o # 0 /\ AnswersItsTag(Sym(o))
  BY DEF IsPdb, Sym
<1>. QED
  BY <1>1, <1>2 DEF DiaTypes

(* What the getters of a member answer. *)
LEMMA MemberAnswers ==
  ASSUME IsPdb(Names, pdb), NEW o \in DOMAIN pdb.symbols,
         NEW i \in 1..Len(Sym(o).members)
  PROVE  /\ Sym(o).members[i].id \in Nat
         /\ Sym(o).members[i].name \in Names
         /\ Sym(o).members[i].offset \in Nat
         /\ Sym(o).members[i].type \in DOMAIN pdb.symbols \cup {0}
<1>1. Sym(o).members[i] \in DiaMembers(Names, DOMAIN pdb.symbols)
  BY SymbolAnswers
<1>. QED
  BY <1>1 DEF DiaMembers

(* What the getters of a function answer. *)
LEMMA FunctionAnswers ==
  ASSUME IsPdb(Names, pdb), NEW h \in DOMAIN pdb.functions
  PROVE  /\ h \in Nat
         /\ pdb.functions[h].id \in Nat
         /\ pdb.functions[h].name \in Names
         /\ pdb.functions[h].hasType \in BOOLEAN /\ pdb.functions[h].hasCount \in BOOLEAN
         /\ pdb.functions[h].count \in Nat
         /\ pdb.functions[h].returnType \in DOMAIN pdb.symbols \cup {0}
         /\ pdb.functions[h].this \in DOMAIN pdb.symbols \cup {0}
         /\ pdb.functions[h].arguments \in Seq(DOMAIN pdb.symbols)
         /\ pdb.functions[h].convention \in CallConventions
         /\ pdb.functions[h].address \in Nat
<1>1. pdb.functions[h] \in DiaFunctions(Names, DOMAIN pdb.symbols)
  BY DEF IsPdb
<1>2. h \in Nat
  BY DEF IsPdb
<1>. QED
  BY <1>1, <1>2 DEF DiaFunctions

(* A closed file is a PDB without symbols. *)
LEMMA NoPdbIsPdb == IsPdb(Names, NoPdb)
<1>1. DOMAIN NoPdb.symbols = {} /\ DOMAIN NoPdb.functions = {}
  BY DEF NoPdb, EmptyMap
<1>2. /\ NoPdb.symbols \in [DOMAIN NoPdb.symbols -> DiaTypes(Names, DOMAIN NoPdb.symbols)]
      /\ NoPdb.functions \in [DOMAIN NoPdb.functions -> DiaFunctions(Names, DOMAIN NoPdb.symbols)]
      /\ NoPdb.global = {} /\ NoPdb.machine \in MachineTypes
  BY <1>1 DEF NoPdb, EmptyMap, MachineTypes
<1>3. TypedefsEnd(NoPdb.symbols)
  BY <1>1 DEF TypedefsEnd
<1>. QED
  BY <1>1, <1>2, <1>3 DEF IsPdb

(* Symbols stay symbols when there are more names. *)
LEMMA SymbolsGrow ==
  ASSUME NEW M, NEW N, M \subseteq N
  PROVE  TypeSymbols(M) \subseteq TypeSymbols(N)
<1>1. FieldSymbols(M) \subseteq FieldSymbols(N)
  BY DEF FieldSymbols
<1>2. Seq(FieldSymbols(M)) \subseteq Seq(FieldSymbols(N))
  BY <1>1, SeqMonotonic
<1>. QED
  BY <1>2 DEF TypeSymbols

(* The name of a base type does not depend on its size beyond 8 bytes. *)
LEMMA BaseNameTyped ==
  ASSUME NEW b \in BasicTypes, NEW size \in Nat
  PROVE  GetBaseName(b, size) \in SymbolNames
<1>. DEFINE n == IF size \in {1, 2, 4, 8} THEN size ELSE 0
<1>1. GetBaseName(b, size) = GetBaseName(b, n)
  <2>1. CASE size \in {1, 2, 4, 8}
    BY <2>1
  <2>2. CASE size \notin {1, 2, 4, 8}
    <3>1. n = 0 /\ n \notin {1, 2, 4, 8} /\ size # 4 /\ n # 4
      BY <2>2
    <3>. HIDE DEF n
    <3>. QED
      BY <2>2, <3>1 DEF GetBaseName
  <2>. QED
    BY <2>1, <2>2
<1>2. n \in {0, 1, 2, 4, 8}
  OBVIOUS
<1>. QED
  BY <1>1, <1>2 DEF SymbolNames

-----------------------------------------------------------------------------
(* The inductive invariant behind type correctness *)

(* The session: COM is initialised exactly while a call runs. *)
SessionInv ==
  /\ IsPdb(Names, pdb)
  /\ pc \in {"idle", "header", "types", "functions", "catch"}
  /\ com = IF pc = "idle" THEN 0 ELSE 1
  /\ held \subseteq ComPointers
  /\ pc = "idle" => held = {}
  /\ calls \in 0..MaxCalls
  /\ outcome \in {"none", "usym", "nullopt"}
  /\ header \in [originalFormat: {"kUnknown", "kPdb"},
                 architecture: {"kUnknown", "kX86", "kX86_64", "kArm32", "kArm64"}]
  /\ list \in 0..Len(TypeLists)

(* What functionSymbols can be keyed by. *)
FunctionKeys == {pdb.functions[h].id : h \in DOMAIN pdb.functions}

(* The lists: function symbols have the ids of functions, and a function in
   progress is one of the PDB and has its entry. *)
ListInv ==
  /\ todo \subseteq IF pc = "types" THEN DOMAIN pdb.symbols
                    ELSE IF pc = "functions" THEN DOMAIN pdb.functions ELSE {}
  /\ DOMAIN functionSymbols \subseteq FunctionKeys
  /\ functionSymbols \in [DOMAIN functionSymbols -> FunctionSymbols(Names)]
  /\ fn \in [handle: Nat, step: {"none", "return", "this", "arguments"},
             next: Nat, position: Nat]
  /\ fn # NoFunction =>
       /\ pc = "functions"
       /\ fn.step # "none" /\ fn.next # 0
       /\ fn.handle \in DOMAIN pdb.functions
       /\ Fun.id \in DOMAIN functionSymbols

(* A call in progress is for a symbol that can be read, and is only in a step
   that symbols of its tag have. *)
FrameOK(f) ==
  /\ Sym(f.obj).tag # "fail" /\ Sym(f.obj).hasId
  /\ f.step = "source" => Sym(f.obj).tag = "SymTagTypedef" /\ Sym(f.obj).type # 0
  /\ f.step \in {"members", "field", "unions"} => Sym(f.obj).tag \in {"SymTagUDT", "SymTagEnum"}
  /\ f.step = "field" =>
       /\ f.next \in 1..Len(Sym(f.obj).members)
       /\ MemberReadable(Sym(f.obj).members[f.next])

FramesOK ==
  \A i \in 1..Len(stack) : FrameOK(stack[i]) /\ stack[i].obj \in DOMAIN typeSymbols

(* The calls: there are none unless a list is being built, and every one has
   its entry in the map. *)
StackInv ==
  /\ s_counter \in Nat
  /\ DOMAIN typeSymbols \subseteq DOMAIN pdb.symbols
  /\ typeSymbols \in [DOMAIN typeSymbols -> TypeSymbols(SymbolNames)]
  /\ ret \in BOOLEAN
  /\ stack \in Seq(Frames)
  /\ stack # << >> => pc = "types" \/ fn # NoFunction
  /\ FramesOK

TypeInv == SessionInv /\ ListInv /\ StackInv

-----------------------------------------------------------------------------
(* The ways the calls change *)

(* The keys are those of the PDB that was opened. *)
LEMMA KeysUntouched ==
  ASSUME pdb' = pdb
  PROVE  FunctionKeys' = FunctionKeys
  BY DEF FunctionKeys

(* Names stay names while the counter advances. *)
LEMMA NamesGrow ==
  ASSUME s_counter \in Nat, s_counter' \in Nat, s_counter <= s_counter', pdb' = pdb
  PROVE  /\ TypeSymbols(SymbolNames) \subseteq TypeSymbols(SymbolNames')
         /\ Frames \subseteq Frames'
<1>1. SymbolNames \subseteq SymbolNames'
  BY DEF SymbolNames
<1>2. TypeSymbols(SymbolNames) \subseteq TypeSymbols(SymbolNames')
  BY <1>1, SymbolsGrow
<1>. QED
  BY <1>2 DEF Frames

(* CreateTypeSymbol returns a symbol. *)
LEMMA ReturnKeeps ==
  ASSUME StackInv, stack # << >>, TypeStep,
         s_counter' \in Nat, s_counter <= s_counter',
         NEW symbol \in TypeSymbols(SymbolNames'), Return(symbol)
  PROVE  StackInv'
<1>1. /\ TypeSymbols(SymbolNames) \subseteq TypeSymbols(SymbolNames')
      /\ Frames \subseteq Frames'
      /\ pdb' = pdb /\ pc' = pc /\ fn' = fn
  BY NamesGrow DEF StackInv, TypeStep, sessionVars, listVars, functionVars
<1>2. /\ Below \in Seq(Frames) /\ Len(Below) = Len(stack) - 1
      /\ \A i \in 1..(Len(stack) - 1) : Below[i] = stack[i]
      /\ Len(stack) \in Nat
  BY Popped DEF StackInv, Below
<1>3. stack' = Below /\ ret' = TRUE /\ typeSymbols' = [typeSymbols EXCEPT ![Top.obj] = symbol]
  BY DEF Return
<1>4. DOMAIN typeSymbols' = DOMAIN typeSymbols
  BY <1>3
<1>5. typeSymbols' \in [DOMAIN typeSymbols' -> TypeSymbols(SymbolNames')]
  BY <1>1, <1>3, <1>4 DEF StackInv
<1>6. stack' \in Seq(Frames')
  BY <1>1, <1>2, <1>3, SeqMonotonic
<1>7. FramesOK'
  <2>1. \A i \in 1..Len(stack') : FrameOK(stack'[i]) /\ stack'[i].obj \in DOMAIN typeSymbols'
    BY <1>2, <1>3, <1>4 DEF StackInv, FramesOK
  <2>. QED
    BY <1>1, <2>1 DEF FramesOK, FrameOK, Sym, MemberReadable
<1>. QED
  BY <1>1, <1>3, <1>4, <1>5, <1>6, <1>7 DEF StackInv

(* CreateTypeSymbol fails; its entry stays. *)
LEMMA ReturnFalseKeeps ==
  ASSUME StackInv, stack # << >>, TypeStep,
         s_counter' \in Nat, s_counter <= s_counter', ReturnFalse
  PROVE  StackInv'
<1>1. /\ TypeSymbols(SymbolNames) \subseteq TypeSymbols(SymbolNames')
      /\ Frames \subseteq Frames'
      /\ pdb' = pdb /\ pc' = pc /\ fn' = fn
  BY NamesGrow DEF StackInv, TypeStep, sessionVars, listVars, functionVars
<1>2. /\ Below \in Seq(Frames) /\ Len(Below) = Len(stack) - 1
      /\ \A i \in 1..(Len(stack) - 1) : Below[i] = stack[i]
      /\ Len(stack) \in Nat
  BY Popped DEF StackInv, Below
<1>3. stack' = Below /\ ret' = FALSE /\ typeSymbols' = typeSymbols
  BY DEF ReturnFalse
<1>4. typeSymbols' \in [DOMAIN typeSymbols' -> TypeSymbols(SymbolNames')]
  BY <1>1, <1>3 DEF StackInv
<1>5. stack' \in Seq(Frames')
  BY <1>1, <1>2, <1>3, SeqMonotonic
<1>6. FramesOK'
  <2>1. \A i \in 1..Len(stack') : FrameOK(stack'[i]) /\ stack'[i].obj \in DOMAIN typeSymbols'
    BY <1>2, <1>3 DEF StackInv, FramesOK
  <2>. QED
    BY <1>1, <2>1 DEF FramesOK, FrameOK, Sym, MemberReadable
<1>. QED
  BY <1>1, <1>3, <1>4, <1>5, <1>6 DEF StackInv

(* The call on top goes on. *)
LEMMA ContinueKeeps ==
  ASSUME StackInv, stack # << >>, TypeStep, s_counter' = s_counter,
         NEW frame \in Frames, FrameOK(frame), frame.obj = Top.obj, Continue(frame)
  PROVE  StackInv'
<1>1. /\ SymbolNames' = SymbolNames /\ Frames' = Frames
      /\ pdb' = pdb /\ pc' = pc /\ fn' = fn
  BY DEF TypeStep, sessionVars, listVars, functionVars, SymbolNames, Frames
<1>2. /\ stack' \in Seq(Frames) /\ Len(stack') = Len(stack)
      /\ stack'[Len(stack)] = frame
      /\ \A i \in 1..(Len(stack) - 1) : stack'[i] = stack[i]
      /\ Len(stack) \in Nat \ {0}
  BY Popped, Replaced DEF StackInv, Below, Continue
<1>3. ret' = ret /\ typeSymbols' = typeSymbols
  BY DEF Continue
<1>4. Top.obj \in DOMAIN typeSymbols
  BY <1>2 DEF StackInv, FramesOK, Top
<1>5. \A i \in 1..Len(stack') : FrameOK(stack'[i]) /\ stack'[i].obj \in DOMAIN typeSymbols
  BY <1>2, <1>4 DEF StackInv, FramesOK
<1>6. FramesOK'
  BY <1>1, <1>3, <1>5 DEF FramesOK, FrameOK, Sym, MemberReadable
<1>. QED
  BY <1>1, <1>2, <1>3, <1>6 DEF StackInv

(* A call of CreateTypeSymbol begins, on frames that are in order. *)
LEMMA CreateKeeps ==
  ASSUME StackInv, IsPdb(Names, pdb), NEW o \in DOMAIN pdb.symbols \cup {0},
         NEW frames \in Seq(Frames),
         \A i \in 1..Len(frames) : FrameOK(frames[i]) /\ frames[i].obj \in DOMAIN typeSymbols,
         CreateTypeSymbol(o, frames), pdb' = pdb, s_counter' = s_counter,
         pc' = "types" \/ fn' # NoFunction
  PROVE  StackInv'
<1>1. SymbolNames' = SymbolNames /\ Frames' = Frames
  BY DEF SymbolNames, Frames
<1>2. CASE o # 0 /\ Sym(o).tag # "fail" /\ Sym(o).hasId
  <2>1. EmptyType(NoName) \in TypeSymbols(SymbolNames)
    BY NamesAssumption, EmptySeq DEF EmptyType, TypeSymbols, SymbolNames, TypeKinds
  <2>2. Frame(o) \in Frames /\ FrameOK(Frame(o)) /\ Frame(o).obj = o
    BY <1>2, <2>1 DEF Frame, Frames, FrameOK
  <2>3. /\ stack' = Append(frames, Frame(o)) /\ ret' = ret
        /\ typeSymbols' = IF o \in DOMAIN typeSymbols THEN typeSymbols
                          ELSE Put(typeSymbols, o, EmptyType(NoName))
    BY <1>2 DEF CreateTypeSymbol
  <2>4. /\ DOMAIN typeSymbols' = DOMAIN typeSymbols \cup {o}
        /\ typeSymbols' \in [DOMAIN typeSymbols' -> TypeSymbols(SymbolNames)]
    BY <2>1, <2>3 DEF StackInv, Put
  <2>5. /\ stack' \in Seq(Frames) /\ Len(stack') = Len(frames) + 1 /\ Len(frames) \in Nat
        /\ stack'[Len(frames) + 1] = Frame(o)
        /\ \A i \in 1..Len(frames) : stack'[i] = frames[i]
    BY <2>2, <2>3, AppendProperties
  <2>6. \A i \in 1..Len(stack') : FrameOK(stack'[i]) /\ stack'[i].obj \in DOMAIN typeSymbols'
    BY <2>2, <2>4, <2>5
  <2>7. FramesOK'
    BY <2>6 DEF FramesOK, FrameOK, Sym, MemberReadable
  <2>. QED
    BY <1>1, <1>2, <2>3, <2>4, <2>5, <2>7 DEF StackInv
<1>3. CASE ~(o # 0 /\ Sym(o).tag # "fail" /\ Sym(o).hasId)
  <2>1. stack' = frames /\ ret' = FALSE /\ typeSymbols' = typeSymbols
    BY <1>3 DEF CreateTypeSymbol
  <2>2. FramesOK'
    BY <2>1 DEF FramesOK, FrameOK, Sym, MemberReadable
  <2>. QED
    BY <1>1, <2>1, <2>2 DEF StackInv
<1>. QED
  BY <1>2, <1>3

-----------------------------------------------------------------------------
(* Type correctness of the steps of CreateTypeSymbol *)

(* The call on top. *)
LEMMA TopTyped ==
  ASSUME TypeInv, stack # << >>
  PROVE  /\ Len(stack) \in Nat \ {0}
         /\ Top = stack[Len(stack)]
         /\ Top \in Frames /\ FrameOK(Top)
         /\ Top.obj \in DOMAIN pdb.symbols
         /\ Top.obj \in DOMAIN typeSymbols
         /\ Top.obj \in Nat
         /\ Top.next \in Nat \ {0}
         /\ Top.symbol \in TypeSymbols(SymbolNames)
         /\ Top.symbol.fields \in Seq(FieldSymbols(SymbolNames))
<1>1. Len(stack) \in Nat \ {0} /\ Top = stack[Len(stack)] /\ Top \in Frames
  BY Popped DEF TypeInv, StackInv, Top
<1>2. FrameOK(Top) /\ Top.obj \in DOMAIN typeSymbols
  BY <1>1 DEF TypeInv, StackInv, FramesOK
<1>3. /\ Top.obj \in DOMAIN pdb.symbols /\ Top.next \in Nat \ {0}
      /\ Top.symbol \in TypeSymbols(SymbolNames)
  BY <1>1 DEF Frames
<1>4. Top.symbol.fields \in Seq(FieldSymbols(SymbolNames))
  BY <1>3 DEF TypeSymbols
<1>5. Top.obj \in Nat
  BY <1>3, SymbolAnswers DEF TypeInv, SessionInv
<1>. QED
  BY <1>1, <1>2, <1>3, <1>4, <1>5

(* What the creators fill in. *)
LEMMA DescribedTyped ==
  ASSUME TypeInv, stack # << >>, NEW kind \in TypeKinds, NEW N, NEW name \in N
  PROVE  Described(kind, name) \in TypeSymbols(N)
<1>1. Top.obj \in Nat /\ Sym(Top.obj).length \in Nat
  BY TopTyped, SymbolAnswers DEF TypeInv, SessionInv
<1>2. << >> \in Seq(FieldSymbols(N))
  BY EmptySeq
<1>. QED
  BY <1>1, <1>2 DEF Described, TypeSymbols

(* The member a call is at, and the field that is made of it. *)
LEMMA FieldTyped ==
  ASSUME TypeInv, stack # << >>, Top.next \in 1..Len(Sym(Top.obj).members)
  PROVE  /\ Field(Member) \in FieldSymbols(SymbolNames)
         /\ Member.type \in DOMAIN pdb.symbols \cup {0}
<1>1. IsPdb(Names, pdb) /\ Top.obj \in DOMAIN pdb.symbols
  BY TopTyped DEF TypeInv, SessionInv
<1>2. /\ Member.id \in Nat /\ Member.name \in Names /\ Member.offset \in Nat
      /\ Member.type \in DOMAIN pdb.symbols \cup {0}
  BY <1>1, MemberAnswers DEF Member
<1>3. Member.type \in Nat
  BY <1>1, <1>2 DEF IsPdb
<1>4. Member.name \in SymbolNames
  BY <1>2 DEF SymbolNames
<1>. QED
  BY <1>2, <1>3, <1>4 DEF Field, FieldSymbols

(* The field CreateFieldSymbol starts from is a field. *)
LEMMA EmptyFieldTyped == EmptyField(NoName) \in FieldSymbols(SymbolNames)
  BY NamesAssumption DEF EmptyField, FieldSymbols, SymbolNames

(* The frame PushField leaves. *)
LEMMA PushedFrame ==
  ASSUME TypeInv, stack # << >>, NEW field \in FieldSymbols(SymbolNames),
         NEW frame,
         frame = [Top EXCEPT !.step = "members", !.next = @ + 1,
                             !.symbol.fields = Append(@, field)]
  PROVE  /\ frame \in Frames
         /\ frame.obj = Top.obj /\ frame.step = "members" /\ frame.next = Top.next + 1
         /\ frame.unionId = Top.unionId /\ frame.wasLastUnion = Top.wasLastUnion
         /\ frame.symbol = [Top.symbol EXCEPT !.fields = Append(Top.symbol.fields, field)]
<1>. DEFINE fields == Append(Top.symbol.fields, field)
            symbol == [Top.symbol EXCEPT !.fields = fields]
<1>1. /\ Top \in Frames /\ Top.next \in Nat \ {0}
      /\ Top.symbol \in TypeSymbols(SymbolNames)
      /\ Top.symbol.fields \in Seq(FieldSymbols(SymbolNames))
  BY TopTyped
<1>2. fields \in Seq(FieldSymbols(SymbolNames))
  BY <1>1, AppendProperties
<1>3. symbol \in TypeSymbols(SymbolNames)
  BY <1>1, <1>2 DEF TypeSymbols
<1>4. frame = [Top EXCEPT !.step = "members", !.next = Top.next + 1, !.symbol = symbol]
  BY <1>1 DEF Frames
<1>. HIDE DEF symbol
<1>5. /\ frame \in Frames
      /\ frame.obj = Top.obj /\ frame.step = "members" /\ frame.next = Top.next + 1
      /\ frame.unionId = Top.unionId /\ frame.wasLastUnion = Top.wasLastUnion
      /\ frame.symbol = symbol
  <2>. DEFINE e1 == [Top EXCEPT !.step = "members"]
              e2 == [e1 EXCEPT !.next = Top.next + 1]
              e3 == [e2 EXCEPT !.symbol = symbol]
  <2>1. frame = e3
    BY <1>4
  <2>2. /\ e1 \in Frames /\ e1.step = "members" /\ e1.obj = Top.obj
        /\ e1.unionId = Top.unionId /\ e1.wasLastUnion = Top.wasLastUnion
    BY <1>1 DEF Frames
  <2>. HIDE DEF e1
  <2>3. /\ e2 \in Frames /\ e2.step = "members" /\ e2.next = Top.next + 1 /\ e2.obj = Top.obj
        /\ e2.unionId = Top.unionId /\ e2.wasLastUnion = Top.wasLastUnion
    BY <1>1, <2>2 DEF Frames
  <2>. HIDE DEF e2
  <2>4. /\ e3 \in Frames /\ e3.symbol = symbol
        /\ e3.step = "members" /\ e3.next = Top.next + 1 /\ e3.obj = Top.obj
        /\ e3.unionId = Top.unionId /\ e3.wasLastUnion = Top.wasLastUnion
    BY <1>3, <2>3 DEF Frames
  <2>. QED
    BY <2>1, <2>4
<1>. QED
  BY <1>5 DEF symbol

(* fields.push_back *)
LEMMA PushFieldKeeps ==
  ASSUME TypeInv, stack # << >>, Top.step \in {"members", "field"}, TypeStep,
         s_counter' = s_counter, NEW field \in FieldSymbols(SymbolNames), PushField(field)
  PROVE  StackInv'
<1>. DEFINE frame == [Top EXCEPT !.step = "members", !.next = @ + 1,
                                 !.symbol.fields = Append(@, field)]
<1>1. frame \in Frames /\ frame.obj = Top.obj /\ frame.step = "members"
  BY PushedFrame
<1>2. Continue(frame)
  BY DEF PushField
<1>. HIDE DEF frame
<1>3. FrameOK(frame)
  BY <1>1, TopTyped DEF FrameOK
<1>. QED
  BY <1>1, <1>2, <1>3, ContinueKeeps DEF TypeInv

(* A step on the call on top that only changes where it is. *)
LEMMA StepTyped ==
  ASSUME TypeInv, stack # << >>,
         NEW step \in {"create", "source", "members", "field", "unions"}
  PROVE  /\ [Top EXCEPT !.step = step] \in Frames
         /\ [Top EXCEPT !.step = step].step = step
         /\ [Top EXCEPT !.step = step].obj = Top.obj
         /\ [Top EXCEPT !.step = step].next = Top.next
         /\ [Top EXCEPT !.step = step].symbol = Top.symbol
  BY TopTyped DEF Frames

(* CreateTypeSymbol called by the call on top, which waits in step. *)
LEMMA NestedCreateKeeps ==
  ASSUME TypeInv, stack # << >>, TypeStep, s_counter' = s_counter,
         NEW step \in {"source", "field"}, FrameOK([Top EXCEPT !.step = step]),
         NEW o \in DOMAIN pdb.symbols \cup {0},
         CreateTypeSymbol(o, Append(Below, [Top EXCEPT !.step = step]))
  PROVE  StackInv'
<1>. DEFINE frame == [Top EXCEPT !.step = step]
            frames == Append(Below, frame)
<1>1. frame \in Frames /\ frame.obj = Top.obj
  BY StepTyped
<1>. HIDE DEF frame
<1>2. /\ frames \in Seq(Frames) /\ Len(frames) = Len(stack)
      /\ frames[Len(stack)] = frame
      /\ \A i \in 1..(Len(stack) - 1) : frames[i] = stack[i]
      /\ Len(stack) \in Nat \ {0}
  BY <1>1, Popped, Replaced DEF TypeInv, StackInv, Below
<1>. HIDE DEF frames
<1>3. FrameOK(frame) /\ frame.obj \in DOMAIN typeSymbols
  BY <1>1, TopTyped DEF frame
<1>4. \A i \in 1..Len(frames) : FrameOK(frames[i]) /\ frames[i].obj \in DOMAIN typeSymbols
  BY <1>2, <1>3 DEF TypeInv, StackInv, FramesOK
<1>5. pdb' = pdb /\ (pc' = "types" \/ fn' # NoFunction)
  BY DEF TypeInv, StackInv, TypeStep, sessionVars, listVars, functionVars
<1>6. CreateTypeSymbol(o, frames)
  BY DEF frames, frame
<1>. QED
  BY <1>2, <1>4, <1>5, <1>6, CreateKeeps DEF TypeInv, SessionInv

(* The members of a union are marked and stay the fields they were. *)
LEMMA MarkedField ==
  ASSUME NEW fields \in Seq(FieldSymbols(SymbolNames)), NEW i \in Nat, NEW u \in Nat,
         NEW j \in 1..Len(fields)
  PROVE  LET g == MarkUnion(fields, i, u)[j]
         IN  /\ g \in FieldSymbols(SymbolNames)
             /\ g.id = fields[j].id /\ g.offset = fields[j].offset
             /\ g.underlyingTypeId = fields[j].underlyingTypeId
             /\ j \in {i, i + 1} => g.isAnonymousUnion /\ g.unionId = u
             /\ j \notin {i, i + 1} => g = fields[j]
<1>. DEFINE marked == MarkUnion(fields, i, u)
<1>. DEFINE f == fields[j]
<1>1. j \in DOMAIN fields /\ f \in FieldSymbols(SymbolNames)
  BY LenProperties
<1>2. marked[j] = IF j \in {i, i + 1}
                  THEN [f EXCEPT !.isAnonymousUnion = TRUE, !.unionId = u]
                  ELSE f
  <2>. DEFINE G(k) == IF k \in {i, i + 1}
                      THEN [fields[k] EXCEPT !.isAnonymousUnion = TRUE, !.unionId = u]
                      ELSE fields[k]
  <2>1. marked = [k \in DOMAIN fields |-> G(k)]
    BY DEF MarkUnion
  <2>2. marked[j] = G(j)
    <3>. HIDE DEF G, marked
    <3>. QED
      BY <1>1, <2>1
  <2>. QED
    BY <2>2
<1>. SUFFICES /\ marked[j] \in FieldSymbols(SymbolNames)
              /\ marked[j].id = f.id /\ marked[j].offset = f.offset
              /\ marked[j].underlyingTypeId = f.underlyingTypeId
              /\ j \in {i, i + 1} => marked[j].isAnonymousUnion /\ marked[j].unionId = u
              /\ j \notin {i, i + 1} => marked[j] = f
  OBVIOUS
<1>. HIDE DEF f, marked
<1>3. CASE j \in {i, i + 1}
  <2>. DEFINE e == [f EXCEPT !.isAnonymousUnion = TRUE]
              g == [e EXCEPT !.unionId = u]
  <2>1. [f EXCEPT !.isAnonymousUnion = TRUE, !.unionId = u] = g
    OBVIOUS
  <2>2. marked[j] = g
    BY <1>2, <1>3, <2>1
  <2>3. /\ e \in FieldSymbols(SymbolNames)
        /\ e.id = f.id /\ e.offset = f.offset
        /\ e.underlyingTypeId = f.underlyingTypeId /\ e.isAnonymousUnion = TRUE
    BY <1>1 DEF FieldSymbols
  <2>. HIDE DEF e
  <2>4. /\ g \in FieldSymbols(SymbolNames)
        /\ g.id = f.id /\ g.offset = f.offset
        /\ g.underlyingTypeId = f.underlyingTypeId
        /\ g.isAnonymousUnion /\ g.unionId = u
    BY <2>3 DEF FieldSymbols
  <2>. HIDE DEF g
  <2>. QED
    BY <1>3, <2>2, <2>4
<1>4. CASE j \notin {i, i + 1}
  BY <1>1, <1>2, <1>4
<1>. QED
  BY <1>3, <1>4

(* Marking two fields as members of a union leaves a list of fields, of the
   same length. *)
LEMMA MarkUnionTyped ==
  ASSUME NEW fields \in Seq(FieldSymbols(SymbolNames)), NEW i \in Nat, NEW u \in Nat
  PROVE  /\ MarkUnion(fields, i, u) \in Seq(FieldSymbols(SymbolNames))
         /\ Len(MarkUnion(fields, i, u)) = Len(fields)
<1>. DEFINE G(j) == IF j \in {i, i + 1}
                    THEN [fields[j] EXCEPT !.isAnonymousUnion = TRUE, !.unionId = u]
                    ELSE fields[j]
            marked == MarkUnion(fields, i, u)
<1>1. Len(fields) \in Nat /\ DOMAIN fields = 1..Len(fields)
  BY LenProperties
<1>2. marked = [j \in 1..Len(fields) |-> G(j)]
  BY <1>1 DEF MarkUnion
<1>3. \A j \in 1..Len(fields) : marked[j] \in FieldSymbols(SymbolNames)
  BY MarkedField
<1>. HIDE DEF G, marked
<1>4. \A j \in 1..Len(fields) : G(j) \in FieldSymbols(SymbolNames)
  BY <1>2, <1>3
<1>5. [j \in 1..Len(fields) |-> G(j)] \in Seq(FieldSymbols(SymbolNames))
  BY <1>1, <1>4, IsASeq
<1>6. Len([j \in 1..Len(fields) |-> G(j)]) = Len(fields)
  BY <1>1
<1>. QED
  BY <1>2, <1>5, <1>6 DEF marked

(* The frame one iteration of SetAnonymousUnionData leaves. *)
LEMMA UnionStep ==
  ASSUME TypeInv, SetAnonymousUnionData
  PROVE  LET i == Top.next
             fields == Top.symbol.fields
             skip == fields[i].id = 0 \/ fields[i + 1].id = 0
             same == fields[i].offset = fields[i + 1].offset
         IN  \E frame \in Frames :
               /\ Continue(frame)
               /\ frame.obj = Top.obj /\ frame.step = "unions" /\ frame.next = i + 1
               /\ \/ /\ ~skip /\ same
                     /\ frame.symbol = [Top.symbol EXCEPT !.fields =
                                          MarkUnion(fields, i, Top.unionId)]
                     /\ frame.unionId = Top.unionId /\ frame.wasLastUnion = TRUE
                  \/ /\ skip \/ ~same
                     /\ frame.symbol = Top.symbol
                     /\ ~skip => /\ frame.wasLastUnion = FALSE
                                /\ frame.unionId = IF Top.wasLastUnion THEN Top.unionId + 1
                                                   ELSE Top.unionId
<1>. DEFINE i == Top.next
            fields == Top.symbol.fields
            skip == fields[i].id = 0 \/ fields[i + 1].id = 0
            same == fields[i].offset = fields[i + 1].offset
            after == [Top EXCEPT !.next = @ + 1]
<1>1. /\ stack # << >> /\ Top.step = "unions"
      /\ \/ skip /\ Continue(after)
         \/ /\ ~skip /\ same
            /\ Continue([after EXCEPT !.wasLastUnion = TRUE,
                 !.symbol.fields = MarkUnion(fields, i, Top.unionId)])
         \/ /\ ~skip /\ ~same
            /\ Continue([after EXCEPT !.wasLastUnion = FALSE,
                 !.unionId = IF Top.wasLastUnion THEN @ + 1 ELSE @])
  BY DEF SetAnonymousUnionData, AtUnion
<1>2. /\ Top \in Frames /\ i \in Nat \ {0} /\ Top.symbol \in TypeSymbols(SymbolNames)
      /\ fields \in Seq(FieldSymbols(SymbolNames)) /\ Top.unionId \in Nat
  BY <1>1, TopTyped DEF Frames
<1>3. /\ after \in Frames /\ after.obj = Top.obj /\ after.step = "unions"
      /\ after.next = i + 1 /\ after.symbol = Top.symbol
      /\ after.unionId = Top.unionId /\ after.wasLastUnion = Top.wasLastUnion
  BY <1>1, <1>2 DEF Frames
<1>. HIDE DEF after
<1>4. CASE skip /\ Continue(after)
  BY <1>3, <1>4
<1>5. CASE /\ ~skip /\ same
           /\ Continue([after EXCEPT !.wasLastUnion = TRUE,
                !.symbol.fields = MarkUnion(fields, i, Top.unionId)])
  <2>. DEFINE e == [after EXCEPT !.wasLastUnion = TRUE]
              marked == MarkUnion(fields, i, Top.unionId)
              symbol == [Top.symbol EXCEPT !.fields = marked]
              frame == [e EXCEPT !.symbol = symbol]
  <2>1. marked \in Seq(FieldSymbols(SymbolNames))
    BY <1>2, MarkUnionTyped
  <2>2. symbol \in TypeSymbols(SymbolNames)
    BY <1>2, <2>1 DEF TypeSymbols
  <2>3. /\ e \in Frames /\ e.obj = Top.obj /\ e.step = "unions" /\ e.next = i + 1
        /\ e.unionId = Top.unionId /\ e.symbol = Top.symbol /\ e.wasLastUnion = TRUE
    BY <1>3 DEF Frames
  <2>4. [after EXCEPT !.wasLastUnion = TRUE, !.symbol.fields = marked]
          = [e EXCEPT !.symbol.fields = marked]
    OBVIOUS
  <2>. HIDE DEF e
  <2>5. [e EXCEPT !.symbol.fields = marked] = frame
    BY <2>3 DEF Frames
  <2>6. Continue(frame)
    BY <1>5, <2>4, <2>5
  <2>. HIDE DEF symbol
  <2>7. /\ frame \in Frames /\ frame.obj = Top.obj /\ frame.step = "unions"
        /\ frame.next = i + 1 /\ frame.symbol = symbol /\ frame.unionId = Top.unionId
        /\ frame.wasLastUnion = TRUE
    BY <2>2, <2>3 DEF Frames
  <2>. HIDE DEF frame
  <2>. QED
    BY <1>5, <2>6, <2>7 DEF symbol
<1>6. CASE /\ ~skip /\ ~same
           /\ Continue([after EXCEPT !.wasLastUnion = FALSE,
                !.unionId = IF Top.wasLastUnion THEN @ + 1 ELSE @])
  <2>. DEFINE e == [after EXCEPT !.wasLastUnion = FALSE]
              u == IF Top.wasLastUnion THEN Top.unionId + 1 ELSE Top.unionId
              frame == [e EXCEPT !.unionId = u]
  <2>1. [after EXCEPT !.wasLastUnion = FALSE,
           !.unionId = IF Top.wasLastUnion THEN @ + 1 ELSE @]
          = [e EXCEPT !.unionId = IF Top.wasLastUnion THEN @ + 1 ELSE @]
    OBVIOUS
  <2>2. /\ e \in Frames /\ e.obj = Top.obj /\ e.step = "unions" /\ e.next = i + 1
        /\ e.unionId = Top.unionId /\ e.symbol = Top.symbol /\ e.wasLastUnion = FALSE
    BY <1>3 DEF Frames
  <2>3. [e EXCEPT !.unionId = IF Top.wasLastUnion THEN @ + 1 ELSE @] = frame
    BY <2>2
  <2>4. Continue(frame)
    BY <1>6, <2>1, <2>3
  <2>5. u \in Nat
    BY <1>2
  <2>. HIDE DEF e, u
  <2>6. /\ frame \in Frames /\ frame.obj = Top.obj /\ frame.step = "unions"
        /\ frame.next = i + 1 /\ frame.symbol = Top.symbol
        /\ frame.wasLastUnion = FALSE /\ frame.unionId = u
    BY <2>2, <2>5 DEF Frames
  <2>. HIDE DEF frame
  <2>. QED
    BY <1>6, <2>4, <2>6 DEF u
<1>. QED
  BY <1>1, <1>4, <1>5, <1>6

(* The head of CreateMembersForSymbol. *)
LEMMA BeginMembersKeeps ==
  ASSUME TypeInv, stack # << >>, TypeStep, s_counter' = s_counter,
         Sym(Top.obj).tag \in {"SymTagUDT", "SymTagEnum"},
         NEW kind \in TypeKinds, BeginMembers(kind)
  PROVE  /\ StackInv'
         /\ \E frame \in Frames :
              /\ Continue(frame)
              /\ frame.obj = Top.obj /\ frame.step = "members" /\ frame.next = Top.next
              /\ frame.symbol = [Described(kind, Sym(Top.obj).name) EXCEPT
                                   !.fieldCount = Len(Sym(Top.obj).members)]
              /\ frame.unionId = Top.unionId /\ frame.wasLastUnion = Top.wasLastUnion
<1>. DEFINE symbol == [Described(kind, Sym(Top.obj).name) EXCEPT
                         !.fieldCount = Len(Sym(Top.obj).members)]
            e == [Top EXCEPT !.step = "members"]
            frame == [e EXCEPT !.symbol = symbol]
<1>1. /\ Top.obj \in DOMAIN pdb.symbols /\ Sym(Top.obj).name \in SymbolNames
      /\ Len(Sym(Top.obj).members) \in Nat
  BY TopTyped, SymbolAnswers, LenProperties DEF TypeInv, SessionInv, SymbolNames
<1>2. Described(kind, Sym(Top.obj).name) \in TypeSymbols(SymbolNames)
  BY <1>1, DescribedTyped
<1>3. symbol \in TypeSymbols(SymbolNames)
  BY <1>1, <1>2 DEF TypeSymbols
<1>4. Continue(frame)
  BY DEF BeginMembers
<1>. HIDE DEF symbol
<1>5. /\ e \in Frames /\ e.obj = Top.obj /\ e.step = "members" /\ e.next = Top.next
      /\ e.unionId = Top.unionId /\ e.wasLastUnion = Top.wasLastUnion
  BY StepTyped, TopTyped DEF Frames
<1>. HIDE DEF e
<1>6. /\ frame \in Frames /\ frame.obj = Top.obj /\ frame.step = "members"
      /\ frame.next = Top.next /\ frame.symbol = symbol
      /\ frame.unionId = Top.unionId /\ frame.wasLastUnion = Top.wasLastUnion
  BY <1>3, <1>5 DEF Frames
<1>. HIDE DEF frame
<1>7. FrameOK(frame)
  BY <1>6, TopTyped DEF FrameOK
<1>8. StackInv'
  BY <1>4, <1>6, <1>7, ContinueKeeps DEF TypeInv
<1>. QED
  BY <1>4, <1>6, <1>8 DEF symbol

(* Every step of a call of CreateTypeSymbol keeps the calls well typed. *)
LEMMA CreateStepKeeps ==
  ASSUME TypeInv, CreateStep
  PROVE  StackInv' /\ TypeStep /\ stack # << >>
<1>. USE DEF TypeInv
<1>. DEFINE s == Sym(Top.obj)
<1>0. IsPdb(Names, pdb) /\ StackInv /\ s_counter \in Nat
  BY DEF SessionInv, StackInv
<1>1. ASSUME stack # << >>
      PROVE  /\ Top.obj \in DOMAIN pdb.symbols
             /\ s.name \in SymbolNames /\ s.name \in Names /\ s.length \in Nat
             /\ s.type \in DOMAIN pdb.symbols \cup {0}
             /\ AnswersItsTag(s)
             /\ s.tag \in SymTags \cup {"fail"}
  BY <1>0, <1>1, TopTyped, SymbolAnswers DEF SymbolNames
<1>2. ASSUME stack # << >>, TypeStep, s_counter' = s_counter,
             NEW symbol \in TypeSymbols(SymbolNames), Return(symbol)
      PROVE  StackInv'
  <2>1. SymbolNames' = SymbolNames
    BY <1>2 DEF SymbolNames
  <2>2. symbol \in TypeSymbols(SymbolNames')
    BY <1>2, <2>1
  <2>. QED
    BY <1>0, <1>2, <2>2, ReturnKeeps
<1>3. ASSUME stack # << >>, TypeStep, s_counter' = s_counter, ReturnFalse
      PROVE  StackInv'
  BY <1>0, <1>3, ReturnFalseKeeps
<1>4. CASE CreateBaseTypeSymbol
  <2>1. stack # << >> /\ s.tag = "SymTagBaseType" /\ TypeStep /\ s_counter' = s_counter
    BY <1>4 DEF CreateBaseTypeSymbol, Creating
  <2>2. CASE s.kind # "fail" /\ s.hasLength
    <3>1. GetBaseName(s.kind, s.length) \in SymbolNames
      BY <1>1, <2>1, <2>2, BaseNameTyped DEF AnswersItsTag
    <3>2. Described("kBase", GetBaseName(s.kind, s.length)) \in TypeSymbols(SymbolNames)
      BY <2>1, <3>1, DescribedTyped DEF TypeKinds
    <3>3. Return(Described("kBase", GetBaseName(s.kind, s.length)))
      BY <1>4, <2>2 DEF CreateBaseTypeSymbol
    <3>. QED
      BY <1>2, <2>1, <3>2, <3>3
  <2>3. CASE ~(s.kind # "fail" /\ s.hasLength)
    <3>1. ReturnFalse
      BY <1>4, <2>3 DEF CreateBaseTypeSymbol
    <3>. QED
      BY <1>3, <2>1, <3>1
  <2>. QED
    BY <2>1, <2>2, <2>3
<1>5. CASE CreateArrayTypeSymbol
  <2>1. stack # << >> /\ TypeStep /\ s_counter' = s_counter
    BY <1>5 DEF CreateArrayTypeSymbol, Creating
  <2>2. Described("kArray", s.name) \in TypeSymbols(SymbolNames)
    BY <1>1, <2>1, DescribedTyped DEF TypeKinds
  <2>3. Return(Described("kArray", s.name)) \/ ReturnFalse
    BY <1>5 DEF CreateArrayTypeSymbol
  <2>. QED
    BY <1>2, <1>3, <2>1, <2>2, <2>3
<1>6. CASE CreatePointerTypeSymbol
  <2>1. stack # << >> /\ TypeStep /\ s_counter' = s_counter + 1
    BY <1>6 DEF CreatePointerTypeSymbol, Creating
  <2>2. s_counter' \in Nat /\ s_counter <= s_counter' /\ s_counter' \in 1..s_counter'
    BY <1>0, <2>1
  <2>3. PointerName(s_counter') \in SymbolNames'
    BY <2>2 DEF SymbolNames
  <2>4. Described("kPointer", PointerName(s_counter')) \in TypeSymbols(SymbolNames')
    BY <2>1, <2>3, DescribedTyped DEF TypeKinds
  <2>5. Return(Described("kPointer", PointerName(s_counter'))) \/ ReturnFalse
    BY <1>6 DEF CreatePointerTypeSymbol
  <2>. QED
    BY <1>0, <2>1, <2>2, <2>4, <2>5, ReturnKeeps, ReturnFalseKeeps
<1>7. CASE CreateUnsupportedSymbol
  <2>1. stack # << >> /\ TypeStep /\ s_counter' = s_counter /\ ReturnFalse
    BY <1>7 DEF CreateUnsupportedSymbol, Creating
  <2>. QED
    BY <1>3, <2>1
<1>8. CASE CreateTypedefSymbol
  <2>1. stack # << >> /\ s.tag = "SymTagTypedef" /\ TypeStep /\ s_counter' = s_counter
    BY <1>8 DEF CreateTypedefSymbol, Creating
  <2>2. CASE ReturnFalse
    BY <1>3, <2>1, <2>2
  <2>3. CASE Return([Described("kTypedef", s.name) EXCEPT !.length = 0])
    <3>1. Described("kTypedef", s.name) \in TypeSymbols(SymbolNames)
      BY <1>1, <2>1, DescribedTyped DEF TypeKinds
    <3>2. [Described("kTypedef", s.name) EXCEPT !.length = 0] \in TypeSymbols(SymbolNames)
      BY <3>1 DEF TypeSymbols
    <3>. QED
      BY <1>2, <2>1, <2>3, <3>2
  <2>4. CASE s.type # 0 /\ CreateTypeSymbol(s.type, Append(Below, [Top EXCEPT !.step = "source"]))
    <3>1. FrameOK([Top EXCEPT !.step = "source"])
      BY <2>1, <2>4, StepTyped, TopTyped DEF FrameOK
    <3>. QED
      BY <1>1, <2>1, <2>4, <3>1, NestedCreateKeeps
  <2>5. \/ ReturnFalse \/ Return([Described("kTypedef", s.name) EXCEPT !.length = 0])
        \/ s.type # 0 /\ CreateTypeSymbol(s.type, Append(Below, [Top EXCEPT !.step = "source"]))
    BY <1>8 DEF CreateTypedefSymbol
  <2>. QED
    BY <2>1, <2>2, <2>3, <2>4, <2>5
<1>9. CASE FinishTypedefSymbol
  <2>1. stack # << >> /\ Top.step = "source" /\ TypeStep /\ s_counter' = s_counter
    BY <1>9 DEF FinishTypedefSymbol
  <2>2. s.type \in DOMAIN pdb.symbols /\ s.type \in Nat /\ Sym(s.type).length \in Nat
    BY <1>0, <1>1, <2>1, TopTyped, SymbolAnswers DEF FrameOK
  <2>. DEFINE d == Described("kTypedef", s.name)
              e == [d EXCEPT !.length = Sym(s.type).length]
              symbol == [e EXCEPT !.typedefSource = s.type]
  <2>3. Return(symbol) \/ ReturnFalse
    BY <1>9 DEF FinishTypedefSymbol
  <2>4. d \in TypeSymbols(SymbolNames)
    BY <1>1, <2>1, DescribedTyped DEF TypeKinds
  <2>. HIDE DEF d
  <2>5. e \in TypeSymbols(SymbolNames)
    BY <2>2, <2>4 DEF TypeSymbols
  <2>. HIDE DEF e
  <2>6. symbol \in TypeSymbols(SymbolNames)
    BY <2>2, <2>5 DEF TypeSymbols
  <2>. QED
    BY <1>2, <1>3, <2>1, <2>3, <2>6
<1>10. CASE CreateUDTSymbol
  <2>1. stack # << >> /\ s.tag = "SymTagUDT" /\ TypeStep /\ s_counter' = s_counter
    BY <1>10 DEF CreateUDTSymbol, Creating
  <2>2. CASE s.kind # "fail" /\ BeginMembers(UdtType[s.kind])
    <3>1. UdtType[s.kind] \in TypeKinds
      BY <1>1, <2>1, <2>2 DEF AnswersItsTag, UdtKinds, UdtType, TypeKinds
    <3>. QED
      BY <2>1, <2>2, <3>1, BeginMembersKeeps
  <2>3. ReturnFalse \/ (s.kind # "fail" /\ BeginMembers(UdtType[s.kind]))
    BY <1>10 DEF CreateUDTSymbol
  <2>. QED
    BY <1>3, <2>1, <2>2, <2>3
<1>11. CASE CreateEnumSymbol
  <2>1. stack # << >> /\ s.tag = "SymTagEnum" /\ TypeStep /\ s_counter' = s_counter
    BY <1>11 DEF CreateEnumSymbol, Creating
  <2>2. ReturnFalse \/ BeginMembers("kEnum")
    BY <1>11 DEF CreateEnumSymbol
  <2>3. "kEnum" \in TypeKinds
    BY DEF TypeKinds
  <2>. QED
    BY <1>3, <2>1, <2>2, <2>3, BeginMembersKeeps
<1>12. CASE CreateFieldSymbol
  <2>1. /\ stack # << >> /\ Top.step = "members" /\ TypeStep /\ s_counter' = s_counter
        /\ Top.next <= Len(s.members)
    BY <1>12 DEF CreateFieldSymbol, AtMember
  <2>2. Top.next \in 1..Len(s.members)
    BY <1>0, <1>1, <2>1, TopTyped, SymbolAnswers, LenProperties
  <2>3. Field(Member) \in FieldSymbols(SymbolNames) /\ Member.type \in DOMAIN pdb.symbols \cup {0}
    BY <2>1, <2>2, FieldTyped
  <2>4. \/ PushField(EmptyField(NoName)) \/ PushField(Field(Member))
        \/ /\ MemberReadable(Member)
           /\ CreateTypeSymbol(Member.type, Append(Below, [Top EXCEPT !.step = "field"]))
    BY <1>12 DEF CreateFieldSymbol
  <2>5. CASE PushField(EmptyField(NoName)) \/ PushField(Field(Member))
    BY <2>1, <2>3, <2>5, PushFieldKeeps, EmptyFieldTyped
  <2>6. CASE /\ MemberReadable(Member)
             /\ CreateTypeSymbol(Member.type, Append(Below, [Top EXCEPT !.step = "field"]))
    <3>1. FrameOK([Top EXCEPT !.step = "field"])
      BY <2>1, <2>2, <2>6, StepTyped, TopTyped DEF FrameOK, Member
    <3>. QED
      BY <2>1, <2>3, <2>6, <3>1, NestedCreateKeeps
  <2>. QED
    BY <2>1, <2>4, <2>5, <2>6
<1>13. CASE FinishFieldSymbol
  <2>1. /\ stack # << >> /\ Top.step = "field" /\ TypeStep /\ s_counter' = s_counter
        /\ PushField(IF ret THEN Field(Member) ELSE EmptyField(NoName))
    BY <1>13 DEF FinishFieldSymbol
  <2>2. Top.next \in 1..Len(s.members)
    BY <2>1, TopTyped DEF FrameOK
  <2>3. (IF ret THEN Field(Member) ELSE EmptyField(NoName)) \in FieldSymbols(SymbolNames)
    BY <2>1, <2>2, FieldTyped, EmptyFieldTyped
  <2>. QED
    BY <2>1, <2>3, PushFieldKeeps
<1>14. CASE EndMembers
  <2>1. stack # << >> /\ Top.step = "members" /\ TypeStep /\ s_counter' = s_counter
    BY <1>14 DEF EndMembers
  <2>2. CASE Return(Top.symbol)
    BY <1>2, <2>1, <2>2, TopTyped
  <2>3. CASE Continue([Top EXCEPT !.step = "unions", !.next = 1])
    <3>. DEFINE e == [Top EXCEPT !.step = "unions"]
                frame == [e EXCEPT !.next = 1]
    <3>1. e \in Frames /\ e.obj = Top.obj /\ e.step = "unions"
      BY <2>1, StepTyped
    <3>2. Continue(frame)
      BY <2>3
    <3>. HIDE DEF e
    <3>3. frame \in Frames /\ frame.obj = Top.obj /\ frame.step = "unions"
      BY <3>1 DEF Frames
    <3>. HIDE DEF frame
    <3>4. FrameOK(frame)
      BY <2>1, <3>3, TopTyped DEF FrameOK
    <3>. QED
      BY <1>0, <2>1, <3>2, <3>3, <3>4, ContinueKeeps
  <2>. QED
    BY <1>14, <2>1, <2>2, <2>3 DEF EndMembers
<1>15. CASE SetAnonymousUnionData
  <2>1. stack # << >> /\ Top.step = "unions" /\ TypeStep /\ s_counter' = s_counter
    BY <1>15 DEF SetAnonymousUnionData, AtUnion
  <2>2. PICK frame \in Frames :
          Continue(frame) /\ frame.obj = Top.obj /\ frame.step = "unions"
    BY <1>15, UnionStep
  <2>3. FrameOK(frame)
    BY <2>1, <2>2, TopTyped DEF FrameOK
  <2>. QED
    BY <1>0, <2>1, <2>2, <2>3, ContinueKeeps
<1>16. CASE EndUnions
  <2>1. stack # << >> /\ TypeStep /\ s_counter' = s_counter /\ Return(Top.symbol)
    BY <1>16 DEF EndUnions, AtUnion
  <2>. QED
    BY <1>2, <2>1, TopTyped
<1>. QED
  BY <1>4, <1>5, <1>6, <1>7, <1>8, <1>9, <1>10, <1>11, <1>12, <1>13, <1>14, <1>15, <1>16
  DEF CreateStep

-----------------------------------------------------------------------------
(* Type correctness of the lists *)

(* A function symbol with a field more filled in. *)
LEMMA FunctionUpdated ==
  ASSUME NEW m, m \in [DOMAIN m -> FunctionSymbols(Names)], NEW k \in DOMAIN m,
         NEW e \in FunctionSymbols(Names)
  PROVE  /\ DOMAIN [m EXCEPT ![k] = e] = DOMAIN m
         /\ [m EXCEPT ![k] = e] \in [DOMAIN m -> FunctionSymbols(Names)]
  OBVIOUS

(* The function BuildFunctionList is at. *)
LEMMA FunTyped ==
  ASSUME TypeInv, fn # NoFunction
  PROVE  /\ pc = "functions"
         /\ fn.handle \in DOMAIN pdb.functions /\ fn.next \in Nat \ {0}
         /\ Fun = pdb.functions[fn.handle]
         /\ Fun.id \in DOMAIN functionSymbols /\ Fun.id \in Nat
         /\ functionSymbols[Fun.id] \in FunctionSymbols(Names)
         /\ Fun.returnType \in DOMAIN pdb.symbols \cup {0}
         /\ Fun.this \in DOMAIN pdb.symbols \cup {0}
         /\ Fun.arguments \in Seq(DOMAIN pdb.symbols)
         /\ Len(Fun.arguments) \in Nat
         /\ Fun.count \in Nat /\ Fun.address \in Nat
         /\ Fun.hasCount \in BOOLEAN
         /\ Fun.convention \in CallConventions
<1>1. /\ pc = "functions" /\ fn.handle \in DOMAIN pdb.functions /\ fn.next \in Nat \ {0}
      /\ Fun.id \in DOMAIN functionSymbols
      /\ functionSymbols \in [DOMAIN functionSymbols -> FunctionSymbols(Names)]
  BY DEF TypeInv, ListInv
<1>2. functionSymbols[Fun.id] \in FunctionSymbols(Names)
  BY <1>1
<1>3. /\ Fun = pdb.functions[fn.handle] /\ Fun.id \in Nat
      /\ Fun.returnType \in DOMAIN pdb.symbols \cup {0}
      /\ Fun.this \in DOMAIN pdb.symbols \cup {0}
      /\ Fun.arguments \in Seq(DOMAIN pdb.symbols)
      /\ Fun.count \in Nat /\ Fun.address \in Nat
      /\ Fun.hasCount \in BOOLEAN
      /\ Fun.convention \in CallConventions
  BY <1>1, FunctionAnswers DEF TypeInv, SessionInv, Fun
<1>. QED
  BY <1>1, <1>2, <1>3, LenProperties

(* The id a reference is stored under. *)
LEMMA IdTyped ==
  ASSUME TypeInv, NEW o \in DOMAIN pdb.symbols
  PROVE  Id(o) \in Nat /\ Id(o) \in {0, o}
  BY SymbolAnswers DEF TypeInv, SessionInv, Id

(* The type of a return value or an argument. *)
LEMMA EnsureTypeKeeps ==
  ASSUME TypeInv, stack = << >>, NEW o \in DOMAIN pdb.symbols \cup {0},
         EnsureType(o), fn' # NoFunction
  PROVE  StackInv'
<1>1. pdb' = pdb /\ s_counter' = s_counter
  BY DEF EnsureType, sessionVars
<1>2. CASE UNCHANGED <<typeSymbols, stack, ret>>
  <2>1. SymbolNames' = SymbolNames /\ Frames' = Frames
    BY <1>1 DEF SymbolNames, Frames
  <2>2. FramesOK'
    BY <1>2 DEF FramesOK
  <2>. QED
    BY <1>1, <1>2, <2>1, <2>2 DEF TypeInv, StackInv
<1>3. CASE CreateTypeSymbol(o, << >>)
  <2>1. << >> \in Seq(Frames) /\ Len(<< >>) = 0
    BY EmptySeq
  <2>2. \A i \in 1..Len(<< >>) : FrameOK(<< >>[i]) /\ << >>[i].obj \in DOMAIN typeSymbols
    BY <2>1
  <2>. QED
    BY <1>1, <1>3, <2>1, <2>2, CreateKeeps DEF TypeInv, SessionInv
<1>. QED
  BY <1>2, <1>3 DEF EnsureType

(* A step on the current function that ensures a type keeps the session and
   the list. *)
LEMMA EnsureTypeSession ==
  ASSUME TypeInv, NEW o, EnsureType(o)
  PROVE  SessionInv' /\ pc' = pc /\ pdb' = pdb /\ todo' = todo
  BY DEF TypeInv, SessionInv, EnsureType, sessionVars, listVars

(* Every step of BuildFunctionList keeps everything well typed. *)
LEMMA FunctionStepKeeps ==
  ASSUME TypeInv, FunctionStep
  PROVE  TypeInv'
<1>. USE DEF TypeInv
<1>. DEFINE FnTypes == [handle: Nat, step: {"none", "return", "this", "arguments"},
                        next: Nat, position: Nat]
<1>0. /\ fn \in FnTypes
      /\ functionSymbols \in [DOMAIN functionSymbols -> FunctionSymbols(Names)]
  BY DEF ListInv
<1>1. ASSUME NEW h \in DOMAIN pdb.functions, BeginFunction(h)
      PROVE  TypeInv'
  <2>. DEFINE f == pdb.functions[h]
              entry == IF f.id \in DOMAIN functionSymbols THEN functionSymbols[f.id]
                       ELSE EmptyFunction(NoName)
              e == [entry EXCEPT !.id = f.id]
              new == [e EXCEPT !.name = f.name]
  <2>1. /\ pc = "functions" /\ fn = NoFunction /\ todo' = todo \ {h}
        /\ functionSymbols' = Put(functionSymbols, f.id, new)
        /\ fn' = IF f.hasType
                 THEN [handle |-> h, step |-> "return", next |-> 1, position |-> 0]
                 ELSE NoFunction
        /\ UNCHANGED <<sessionVars, typeVars, pc, list>>
    BY <1>1 DEF BeginFunction
  <2>2. f.id \in Nat /\ f.name \in Names /\ h \in Nat
    BY FunctionAnswers DEF SessionInv
  <2>3. entry \in FunctionSymbols(Names)
    BY <1>0, NamesAssumption, EmptySeq
    DEF EmptyFunction, FunctionSymbols, CallingConventions
  <2>. HIDE DEF entry
  <2>4. e \in FunctionSymbols(Names)
    BY <2>2, <2>3 DEF FunctionSymbols
  <2>. HIDE DEF e
  <2>5. new \in FunctionSymbols(Names)
    BY <2>2, <2>4 DEF FunctionSymbols
  <2>. HIDE DEF new
  <2>6. /\ DOMAIN functionSymbols' = DOMAIN functionSymbols \cup {f.id}
        /\ functionSymbols' \in [DOMAIN functionSymbols' -> FunctionSymbols(Names)]
    BY <1>0, <2>1, <2>5 DEF Put
  <2>7. SessionInv'
    BY <2>1 DEF SessionInv, sessionVars
  <2>8. ListInv'
    <3>1. fn' \in FnTypes
      BY <2>1, <2>2 DEF NoFunction
    <3>2. fn' # NoFunction =>
            /\ fn'.step # "none" /\ fn'.next # 0 /\ fn'.handle \in DOMAIN pdb.functions
            /\ pdb.functions[fn'.handle].id \in DOMAIN functionSymbols'
      BY <2>1, <2>6
    <3>3. pdb' = pdb /\ pc' = "functions"
      BY <2>1 DEF sessionVars
    <3>4. DOMAIN functionSymbols' \subseteq FunctionKeys'
      <4>1. f.id \in FunctionKeys
        BY <2>1 DEF FunctionKeys
      <4>. QED
        BY <2>6, <3>3, <4>1, KeysUntouched DEF ListInv
    <3>. QED
      BY <2>1, <2>6, <3>1, <3>2, <3>3, <3>4 DEF ListInv, Fun
  <2>9. StackInv'
    <3>1. /\ pdb' = pdb /\ pc' = pc /\ stack' = stack /\ typeSymbols' = typeSymbols
          /\ s_counter' = s_counter /\ ret' = ret /\ stack = << >>
      BY <2>1 DEF sessionVars, typeVars, StackInv
    <3>2. SymbolNames' = SymbolNames /\ Frames' = Frames /\ FramesOK'
      BY <3>1 DEF SymbolNames, Frames, FramesOK
    <3>. QED
      BY <3>1, <3>2 DEF StackInv
  <2>. QED
    BY <2>7, <2>8, <2>9
<1>2. ASSUME fn # NoFunction, stack = << >>, NEW o \in DOMAIN pdb.symbols \cup {0},
             EnsureType(o), fn' \in FnTypes, fn'.step # "none", fn'.next # 0,
             fn'.handle = fn.handle,
             DOMAIN functionSymbols' = DOMAIN functionSymbols,
             functionSymbols' \in [DOMAIN functionSymbols -> FunctionSymbols(Names)]
      PROVE  TypeInv'
  <2>1. fn' # NoFunction
    BY <1>2 DEF NoFunction
  <2>2. StackInv'
    BY <1>2, <2>1, EnsureTypeKeeps
  <2>3. SessionInv' /\ pc' = pc /\ pdb' = pdb /\ todo' = todo
    BY <1>2, EnsureTypeSession
  <2>4. ListInv'
    BY <1>2, <2>3, KeysUntouched DEF ListInv, Fun
  <2>. QED
    BY <2>2, <2>3, <2>4
<1>3. CASE ReturnType
  <2>1. /\ fn.step = "return" /\ stack = << >> /\ EnsureType(Fun.returnType)
        /\ fn' = [fn EXCEPT !.step = "this"]
        /\ functionSymbols' = IF Fun.returnType # 0 /\ Sym(Fun.returnType).hasId
             THEN [functionSymbols EXCEPT ![Fun.id].returnTypeId = Fun.returnType]
             ELSE functionSymbols
    BY <1>3 DEF ReturnType, AtFunction
  <2>2. /\ fn # NoFunction /\ fn' \in FnTypes /\ fn'.step # "none"
        /\ fn'.handle = fn.handle /\ fn'.next = fn.next /\ fn.next # 0
    BY <1>0, <2>1 DEF NoFunction, ListInv
  <2>3. Fun.returnType \in Nat
    BY <2>2, FunTyped DEF SessionInv, IsPdb
  <2>. DEFINE e == [functionSymbols[Fun.id] EXCEPT !.returnTypeId = Fun.returnType]
  <2>4. e \in FunctionSymbols(Names)
    BY <2>2, <2>3, FunTyped DEF FunctionSymbols
  <2>5. functionSymbols' \in {functionSymbols, [functionSymbols EXCEPT ![Fun.id] = e]}
    BY <2>1
  <2>. HIDE DEF e
  <2>6. /\ DOMAIN functionSymbols' = DOMAIN functionSymbols
        /\ functionSymbols' \in [DOMAIN functionSymbols -> FunctionSymbols(Names)]
    BY <1>0, <2>2, <2>4, <2>5, FunTyped, FunctionUpdated
  <2>. QED
    BY <1>2, <2>1, <2>2, <2>6, FunTyped
<1>4. CASE ThisArgument
  <2>. DEFINE old == functionSymbols[Fun.id]
              counted == IF Fun.hasCount THEN [old EXCEPT !.argumentCount = Fun.count] ELSE old
              ids == IF Fun.this = 0 THEN << >> ELSE <<Id(Fun.this)>>
              e == [counted EXCEPT !.argumentTypeIds = counted.argumentTypeIds \o ids]
              fn1 == [fn EXCEPT !.step = "arguments"]
              fn2 == [fn1 EXCEPT !.next = Len(Fun.arguments) + 1]
  <2>1. /\ fn.step = "this" /\ stack = << >>
        /\ \/ /\ functionSymbols' = [functionSymbols EXCEPT ![Fun.id] = e]
              /\ EnsureType(Fun.this) /\ fn' = fn1
           \/ /\ functionSymbols' = [functionSymbols EXCEPT ![Fun.id] = counted]
              /\ EnsureType(0) /\ fn' = fn2
    BY <1>4 DEF ThisArgument, AtFunction
  <2>2. fn # NoFunction
    BY <2>1 DEF NoFunction
  <2>3. /\ fn1 \in FnTypes /\ fn1.step = "arguments" /\ fn1.handle = fn.handle
        /\ fn1.next # 0
    BY <1>0, <2>2, FunTyped
  <2>. HIDE DEF fn1
  <2>4. /\ fn2 \in FnTypes /\ fn2.step = "arguments" /\ fn2.handle = fn.handle
        /\ fn2.next # 0
    BY <2>2, <2>3, FunTyped
  <2>. HIDE DEF fn2
  <2>5. counted \in FunctionSymbols(Names)
    BY <2>2, FunTyped DEF FunctionSymbols
  <2>6. ids \in Seq(Nat)
    <3>1. Fun.this # 0 => Id(Fun.this) \in Nat
      BY <2>2, FunTyped, IdTyped
    <3>. QED
      BY <3>1, EmptySeq
  <2>. HIDE DEF counted, ids
  <2>7. counted.argumentTypeIds \o ids \in Seq(Nat)
    BY <2>5, <2>6, ConcatProperties DEF FunctionSymbols
  <2>8. e \in FunctionSymbols(Names)
    BY <2>5, <2>7 DEF FunctionSymbols
  <2>. HIDE DEF e
  <2>9. /\ DOMAIN functionSymbols' = DOMAIN functionSymbols
        /\ functionSymbols' \in [DOMAIN functionSymbols -> FunctionSymbols(Names)]
    BY <1>0, <2>1, <2>2, <2>5, <2>8, FunTyped, FunctionUpdated
  <2>. QED
    BY <1>2, <2>1, <2>2, <2>3, <2>4, <2>9, FunTyped
<1>5. CASE Argument
  <2>. DEFINE o == Fun.arguments[fn.next]
              old == functionSymbols[Fun.id]
              e == [old EXCEPT !.argumentTypeIds = Append(old.argumentTypeIds, Id(o))]
              after == [fn EXCEPT !.next = fn.next + 1]
              after2 == [after EXCEPT !.position = after.position + 1]
  <2>1. /\ fn.step = "arguments" /\ stack = << >> /\ fn.next <= Len(Fun.arguments)
        /\ \/ functionSymbols' = functionSymbols /\ EnsureType(0) /\ fn' = after
           \/ /\ functionSymbols' = [functionSymbols EXCEPT
                                    ![Fun.id].argumentTypeIds = Append(@, Id(o))]
              /\ EnsureType(o) /\ fn' = after2
    BY <1>5 DEF Argument, AtFunction
  <2>2. fn # NoFunction
    BY <2>1 DEF NoFunction
  <2>3. o \in DOMAIN pdb.symbols /\ Id(o) \in Nat
    <3>1. fn.next \in 1..Len(Fun.arguments) /\ Fun.arguments \in Seq(DOMAIN pdb.symbols)
      BY <2>1, <2>2, FunTyped
    <3>2. o \in DOMAIN pdb.symbols
      BY <3>1
    <3>. QED
      BY <3>2, IdTyped
  <2>. HIDE DEF o
  <2>4. /\ after \in FnTypes /\ after.step = "arguments" /\ after.handle = fn.handle
        /\ after.next # 0 /\ after.position \in Nat
    BY <1>0, <2>1
  <2>. HIDE DEF after
  <2>5. /\ after2 \in FnTypes /\ after2.step = "arguments" /\ after2.handle = fn.handle
        /\ after2.next # 0
    BY <2>4
  <2>. HIDE DEF after2
  <2>6. old.argumentTypeIds \in Seq(Nat) /\ old \in FunctionSymbols(Names)
    BY <2>2, FunTyped DEF FunctionSymbols
  <2>7. e \in FunctionSymbols(Names)
    <3>1. Append(old.argumentTypeIds, Id(o)) \in Seq(Nat)
      BY <2>3, <2>6, AppendProperties
    <3>. QED
      BY <2>6, <3>1 DEF FunctionSymbols
  <2>8. functionSymbols' \in {functionSymbols, [functionSymbols EXCEPT ![Fun.id] = e]}
    BY <2>1
  <2>. HIDE DEF e
  <2>9. /\ DOMAIN functionSymbols' = DOMAIN functionSymbols
        /\ functionSymbols' \in [DOMAIN functionSymbols -> FunctionSymbols(Names)]
    BY <1>0, <2>2, <2>7, <2>8, FunTyped, FunctionUpdated
  <2>. QED
    BY <1>2, <2>1, <2>2, <2>3, <2>4, <2>5, <2>9
<1>6. CASE EndFunction
  <2>. DEFINE old == functionSymbols[Fun.id]
              e1 == [old EXCEPT !.callingConvention = Convention[Fun.convention]]
              m1 == [functionSymbols EXCEPT ![Fun.id] = e1]
              e2 == [m1[Fun.id] EXCEPT !.virtualAddress = Fun.address]
              m2 == [m1 EXCEPT ![Fun.id] = e2]
  <2>1. /\ fn.step = "arguments" /\ stack = << >> /\ fn' = NoFunction
        /\ UNCHANGED <<sessionVars, listVars, typeVars>>
    BY <1>6 DEF EndFunction, AtFunction
  <2>2. functionSymbols' = m2
    BY <1>6 DEF EndFunction
  <2>3. fn # NoFunction
    BY <2>1 DEF NoFunction
  <2>4. Convention[Fun.convention] \in CallingConventions
    <3>1. Fun.convention \in CallConventions
      BY <2>3, FunTyped
    <3>. QED
      BY <3>1 DEF CallConventions, Convention, CallingConventions
  <2>5. e1 \in FunctionSymbols(Names)
    BY <2>3, <2>4, FunTyped DEF FunctionSymbols
  <2>. HIDE DEF e1
  <2>6. /\ DOMAIN m1 = DOMAIN functionSymbols
        /\ m1 \in [DOMAIN functionSymbols -> FunctionSymbols(Names)]
    BY <1>0, <2>3, <2>5, FunTyped, FunctionUpdated
  <2>. HIDE DEF m1
  <2>7. e2 \in FunctionSymbols(Names)
    <3>1. m1[Fun.id] \in FunctionSymbols(Names) /\ Fun.address \in Nat
      BY <2>3, <2>6, FunTyped
    <3>. QED
      BY <3>1 DEF FunctionSymbols
  <2>. HIDE DEF e2
  <2>8. functionSymbols' \in [DOMAIN functionSymbols' -> FunctionSymbols(Names)]
    BY <2>2, <2>3, <2>6, <2>7, FunTyped, FunctionUpdated
  <2>9. NoFunction \in FnTypes
    BY DEF NoFunction
  <2>10. SessionInv' /\ ListInv'
    <3>1. DOMAIN functionSymbols' = DOMAIN functionSymbols
      BY <2>2, <2>6 DEF m2
    <3>. QED
      BY <2>1, <2>8, <2>9, <3>1, KeysUntouched DEF SessionInv, ListInv, sessionVars, listVars
  <2>11. StackInv'
    <3>1. /\ pdb' = pdb /\ pc' = pc /\ stack' = stack /\ typeSymbols' = typeSymbols
          /\ s_counter' = s_counter /\ ret' = ret
      BY <2>1 DEF sessionVars, listVars, typeVars
    <3>2. SymbolNames' = SymbolNames /\ Frames' = Frames /\ FramesOK'
      BY <2>1, <3>1 DEF SymbolNames, Frames, FramesOK
    <3>. QED
      BY <2>1, <3>1, <3>2 DEF StackInv
  <2>. QED
    BY <2>10, <2>11
<1>. QED
  BY <1>1, <1>3, <1>4, <1>5, <1>6 DEF FunctionStep

-----------------------------------------------------------------------------
(* Type correctness of CreateUsymFromFile *)

(* A step that neither touches the calls nor begins or ends a list. *)
LEMMA StackUntouched ==
  ASSUME StackInv, UNCHANGED typeVars, pdb' = pdb,
         stack # << >> => pc' = "types" \/ fn' # NoFunction
  PROVE  StackInv'
<1>1. /\ stack' = stack /\ typeSymbols' = typeSymbols /\ ret' = ret
      /\ s_counter' = s_counter
  BY DEF typeVars
<1>2. SymbolNames' = SymbolNames /\ Frames' = Frames
  BY <1>1 DEF SymbolNames, Frames
<1>3. FramesOK'
  BY <1>1 DEF StackInv, FramesOK, FrameOK, Sym, MemberReadable
<1>. QED
  BY <1>1, <1>2, <1>3 DEF StackInv

(* Without calls and with an empty map there is little to say. *)
LEMMA NoCalls ==
  ASSUME s_counter \in Nat, ret \in BOOLEAN, typeSymbols = EmptyMap, stack = << >>
  PROVE  StackInv
<1>1. DOMAIN typeSymbols = {}
  BY DEF EmptyMap
<1>2. typeSymbols \in [DOMAIN typeSymbols -> TypeSymbols(SymbolNames)]
  BY <1>1 DEF EmptyMap
<1>3. stack \in Seq(Frames) /\ Len(stack) = 0
  BY EmptySeq
<1>4. FramesOK
  BY <1>3 DEF FramesOK
<1>. QED
  BY <1>1, <1>2, <1>3, <1>4 DEF StackInv

(* Before the first call. *)
LEMMA InitTypeInv == Init => TypeInv
<1>. SUFFICES ASSUME Init PROVE TypeInv
  OBVIOUS
<1>1. IsPdb(Names, pdb)
  BY NoPdbIsPdb DEF Init
<1>2. SessionInv
  BY <1>1, DiaMaxCallsAssumption DEF Init, SessionInv, NewHeader, TypeLists
<1>3. ListInv
  BY DEF Init, ListInv, NoFunction, EmptyMap
<1>4. StackInv
  BY NoCalls DEF Init
<1>. QED
  BY <1>2, <1>3, <1>4 DEF TypeInv

(* The steps of CreateUsymFromFile around the lists. *)
LEMMA SessionStepKeeps ==
  ASSUME TypeInv,
         \/ \E p \in Pdbs, failing \in Failures : InitializeDia(p, failing)
         \/ BuildHeader
         \/ BeginList
         \/ \E o \in DOMAIN pdb.symbols : BuildTypeList(o)
         \/ ReturnUsym
         \/ Catch
         \/ Throw
  PROVE  TypeInv'
<1>. USE DEF TypeInv
<1>1. ASSUME NEW p \in Pdbs, NEW failing \in Failures, InitializeDia(p, failing)
      PROVE  TypeInv'
  <2>1. pc = "idle" /\ fn = NoFunction /\ stack = << >> /\ todo = {}
    BY <1>1 DEF InitializeDia, ListInv, StackInv
  <2>2. Acquired(failing) \subseteq ComPointers
    BY DEF Acquired, ComPointers, Failures
  <2>3. SessionInv'
    BY <1>1, <2>1, <2>2, PdbsAssumption, DiaMaxCallsAssumption
    DEF InitializeDia, SessionInv, NewHeader, TypeLists
  <2>4. ListInv'
    BY <1>1, <2>1 DEF InitializeDia, ListInv, EmptyMap
  <2>5. StackInv'
    <3>1. /\ s_counter' \in Nat /\ ret' \in BOOLEAN /\ typeSymbols' = EmptyMap
          /\ stack' = << >>
      BY <1>1, <2>1 DEF InitializeDia, StackInv
    <3>2. DOMAIN typeSymbols' = {}
      BY <3>1 DEF EmptyMap
    <3>3. typeSymbols' \in [DOMAIN typeSymbols' -> TypeSymbols(SymbolNames')]
      BY <3>1, <3>2 DEF EmptyMap
    <3>4. stack' \in Seq(Frames') /\ Len(stack') = 0
      BY <3>1, EmptySeq
    <3>5. FramesOK'
      BY <3>4 DEF FramesOK
    <3>. QED
      BY <3>1, <3>2, <3>3, <3>4, <3>5 DEF StackInv
  <2>. QED
    BY <2>3, <2>4, <2>5
<1>2. CASE BuildHeader
  <2>1. Architecture[pdb.machine] \in {"kUnknown", "kX86", "kX86_64", "kArm32", "kArm64"}
    <3>1. pdb.machine \in MachineTypes
      BY DEF SessionInv, IsPdb
    <3>. QED
      BY <3>1 DEF MachineTypes, Architecture
  <2>2. SessionInv'
    BY <1>2, <2>1 DEF BuildHeader, SessionInv
  <2>3. ListInv'
    BY <1>2, KeysUntouched DEF BuildHeader, ListInv, functionVars
  <2>4. StackInv'
    BY <1>2, StackUntouched DEF BuildHeader
  <2>. QED
    BY <2>2, <2>3, <2>4
<1>3. CASE BeginList
  <2>1. /\ pc = "types" /\ stack = << >>
        /\ UNCHANGED <<sessionVars, functionVars, typeVars>>
        /\ \/ /\ list < Len(TypeLists) /\ list' = list + 1 /\ pc' = pc
              /\ todo' = {o \in pdb.global : Sym(o).tag = TypeLists[list']}
           \/ pc' = "functions" /\ todo' = DOMAIN pdb.functions /\ list' = list
    BY <1>3 DEF BeginList
  <2>2. SessionInv'
    BY <2>1 DEF SessionInv, sessionVars, TypeLists
  <2>3. ListInv'
    <3>1. todo' \subseteq IF pc' = "types" THEN DOMAIN pdb.symbols
                          ELSE IF pc' = "functions" THEN DOMAIN pdb.functions ELSE {}
      BY <2>1 DEF SessionInv, IsPdb
    <3>2. fn = NoFunction
      BY <2>1 DEF ListInv
    <3>. QED
      BY <2>1, <3>1, <3>2, KeysUntouched DEF ListInv, sessionVars, functionVars
  <2>4. StackInv'
    BY <2>1, StackUntouched DEF sessionVars
  <2>. QED
    BY <2>2, <2>3, <2>4
<1>4. ASSUME NEW o \in DOMAIN pdb.symbols, BuildTypeList(o)
      PROVE  TypeInv'
  <2>1. /\ pc = "types" /\ todo' = todo \ {o} /\ CreateTypeSymbol(o, << >>)
        /\ UNCHANGED <<sessionVars, functionVars, pc, list, s_counter>>
    BY <1>4 DEF BuildTypeList
  <2>2. SessionInv'
    BY <2>1 DEF SessionInv, sessionVars
  <2>3. ListInv'
    BY <2>1, KeysUntouched DEF ListInv, sessionVars, functionVars, Fun
  <2>4. << >> \in Seq(Frames) /\ Len(<< >>) = 0
    BY EmptySeq
  <2>5. \A i \in 1..Len(<< >>) : FrameOK(<< >>[i]) /\ << >>[i].obj \in DOMAIN typeSymbols
    BY <2>4
  <2>6. StackInv'
    BY <2>1, <2>4, <2>5, CreateKeeps DEF SessionInv, sessionVars
  <2>. QED
    BY <2>2, <2>3, <2>6
<1>5. CASE ReturnUsym \/ Catch
  <2>1. /\ pc \in {"functions", "catch"} /\ fn = NoFunction /\ todo = {}
        /\ held' = {} /\ com' = com - 1 /\ pc' = "idle"
        /\ outcome' \in {"usym", "nullopt"}
        /\ UNCHANGED <<pdb, calls, header, list, todo, functionVars, typeVars>>
    BY <1>5 DEF ReturnUsym, Catch, Release, ListInv
  <2>2. SessionInv'
    BY <2>1 DEF SessionInv
  <2>3. ListInv'
    BY <2>1, KeysUntouched DEF ListInv, functionVars
  <2>4. StackInv'
    BY <2>1, StackUntouched DEF StackInv
  <2>. QED
    BY <2>2, <2>3, <2>4
<1>6. CASE Throw
  <2>1. /\ pc \in {"header", "types", "functions"} /\ pc' = "catch" /\ stack' = << >>
        /\ fn' = NoFunction /\ todo' = {} /\ typeSymbols' = EmptyMap
        /\ functionSymbols' = EmptyMap
        /\ UNCHANGED <<sessionVars, list, ret, s_counter>>
    BY <1>6 DEF Throw
  <2>2. SessionInv'
    BY <2>1 DEF SessionInv, sessionVars
  <2>3. ListInv'
    BY <2>1 DEF ListInv, NoFunction, EmptyMap
  <2>4. StackInv'
    <3>1. DOMAIN typeSymbols' = {}
      BY <2>1 DEF EmptyMap
    <3>2. typeSymbols' \in [DOMAIN typeSymbols' -> TypeSymbols(SymbolNames')]
      BY <2>1, <3>1 DEF EmptyMap
    <3>3. stack' \in Seq(Frames') /\ Len(stack') = 0
      BY <2>1, EmptySeq
    <3>4. FramesOK'
      BY <3>3 DEF FramesOK
    <3>. QED
      BY <2>1, <3>1, <3>2, <3>3, <3>4 DEF StackInv
  <2>. QED
    BY <2>2, <2>3, <2>4
<1>. QED
  BY <1>1, <1>2, <1>3, <1>4, <1>5, <1>6

(* Every step keeps the invariant. *)
LEMMA NextTypeInv == TypeInv /\ [Next]_vars => TypeInv'
<1>. SUFFICES ASSUME TypeInv, [Next]_vars PROVE TypeInv'
  OBVIOUS
<1>1. CASE CreateStep
  <2>1. StackInv' /\ TypeStep
    BY <1>1, CreateStepKeeps
  <2>2. SessionInv'
    BY <2>1 DEF TypeInv, SessionInv, TypeStep, sessionVars, listVars
  <2>3. ListInv'
    BY <2>1, KeysUntouched DEF TypeInv, ListInv, TypeStep, sessionVars, listVars, functionVars, Fun
  <2>. QED
    BY <2>1, <2>2, <2>3 DEF TypeInv
<1>2. CASE FunctionStep
  BY <1>2, FunctionStepKeeps
<1>3. CASE UNCHANGED vars
  <2>1. SessionInv'
    BY <1>3 DEF vars, TypeInv, SessionInv, sessionVars, listVars
  <2>2. ListInv'
    BY <1>3, KeysUntouched DEF vars, TypeInv, ListInv, sessionVars, listVars, functionVars, Fun
  <2>3. StackInv'
    BY <1>3, StackUntouched DEF vars, TypeInv, StackInv, sessionVars, listVars, functionVars
  <2>. QED
    BY <2>1, <2>2, <2>3 DEF TypeInv
<1>4. CASE \/ \E p \in Pdbs, failing \in Failures : InitializeDia(p, failing)
           \/ BuildHeader \/ BeginList
           \/ \E o \in DOMAIN pdb.symbols : BuildTypeList(o)
           \/ ReturnUsym \/ Catch \/ Throw
  BY <1>4, SessionStepKeeps
<1>. QED
  BY <1>1, <1>2, <1>3, <1>4 DEF Next, BuildStep

(* The PDB is opened by InitializeDia only. *)
LEMMA PdbStays ==
  ASSUME TypeInv, BuildStep \/ Throw
  PROVE  pdb' = pdb
<1>1. CASE CreateStep
  BY <1>1, CreateStepKeeps DEF TypeInv, TypeStep, sessionVars
<1>2. ASSUME NEW o, EnsureType(o) PROVE pdb' = pdb
  BY <1>2, EnsureTypeSession DEF TypeInv
<1>3. CASE FunctionStep
  BY <1>2, <1>3 DEF FunctionStep, BeginFunction, ReturnType, ThisArgument, Argument,
                    EndFunction, sessionVars
<1>. QED
  BY <1>1, <1>3 DEF BuildStep, Throw, BuildHeader, BeginList, BuildTypeList, ReturnUsym,
                    Catch, sessionVars

(* The invariant holds in every state. *)
LEMMA TypeInvHolds == Spec => []TypeInv
  BY InitTypeInv, NextTypeInv, PTL DEF Spec

(* The maps, the calls in progress and the session are well typed in every
   state, for any PDBs the SDK can open and any number of calls (all of
   DiaInterface.cpp). *)
THEOREM DiaTypeCorrect == Spec => []TypeOK
<1>1. TypeInv => TypeOK
  <2>. SUFFICES ASSUME TypeInv PROVE TypeOK
    OBVIOUS
  <2>1. com \in Nat
    BY DEF TypeInv, SessionInv
  <2>2. todo \subseteq DOMAIN pdb.symbols \cup DOMAIN pdb.functions
    BY DEF TypeInv, ListInv
  <2>3. /\ fn.step \in {"none", "return", "this", "arguments"}
        /\ fn.step # "none" => fn.handle \in DOMAIN pdb.functions
        /\ fn.next \in Nat /\ fn.position \in Nat
    BY DEF TypeInv, ListInv, NoFunction
  <2>. QED
    BY <2>1, <2>2, <2>3 DEF TypeInv, SessionInv, ListInv, FunctionKeys, StackInv, TypeOK
<1>. QED
  BY <1>1, TypeInvHolds, PTL

(* However a call ends, COM is balanced and nothing is held afterwards
   (ReleaseDia, in the normal way out and in the handler). *)
THEOREM SessionAlwaysReleased == Spec => []SessionReleased
<1>1. TypeInv => SessionReleased
  BY DEF TypeInv, SessionInv, SessionReleased
<1>. QED
  BY <1>1, TypeInvHolds, PTL

-----------------------------------------------------------------------------
(* The maps: the invariant *)

(* A pointer is named after a value the counter has had. *)
PointerInv ==
  /\ \A t \in DOMAIN typeSymbols : typeSymbols[t].type = "kPointer" =>
       \E n \in 1..s_counter : typeSymbols[t].name = PointerName(n)
  /\ \A i \in 1..Len(stack) : stack[i].symbol.type # "kPointer"

SymbolResolves(symbol) == \A id \in TypeReferences(symbol) : Resolves(id)

(* The symbol a call is building refers to types that have been entered, and
   so does what it will add once the call it waits for returns. *)
FrameResolves(f) ==
  /\ SymbolResolves(f.symbol)
  /\ f.step = "source" => (Sym(Sym(f.obj).type).hasId => Resolves(Sym(f.obj).type))
  /\ f.step = "field" => Resolves(Sym(f.obj).members[f.next].type)

ReferenceInv ==
  /\ \A t \in DOMAIN typeSymbols : SymbolResolves(typeSymbols[t])
  /\ \A i \in 1..Len(stack) : FrameResolves(stack[i])
  /\ \A f \in DOMAIN functionSymbols :
       \A id \in FunctionReferences(functionSymbols[f]) : Resolves(id)

MapInv ==
  PointerInv /\ PointerNamesDistinct /\ ReentryThroughTypedef /\ ReferenceInv

(* What a call of CreateTypeSymbol does to the map: at most an empty entry is
   added, and the symbol is entered if it can be. *)
LEMMA CreateEffect ==
  ASSUME NEW o, NEW frames, CreateTypeSymbol(o, frames)
  PROVE  /\ DOMAIN typeSymbols \subseteq DOMAIN typeSymbols'
         /\ DOMAIN typeSymbols' \subseteq DOMAIN typeSymbols \cup {o}
         /\ \A t \in DOMAIN typeSymbols : typeSymbols'[t] = typeSymbols[t]
         /\ \A t \in DOMAIN typeSymbols' \ DOMAIN typeSymbols :
              typeSymbols'[t] = EmptyType(NoName)
         /\ \/ stack' = frames
            \/ stack' = Append(frames, Frame(o))
         /\ o # 0 /\ Sym(o).hasId => o \in DOMAIN typeSymbols' \/ Sym(o).tag = "fail"
<1>1. CASE o # 0 /\ Sym(o).tag # "fail" /\ Sym(o).hasId
  BY <1>1 DEF CreateTypeSymbol, Put
<1>2. CASE ~(o # 0 /\ Sym(o).tag # "fail" /\ Sym(o).hasId)
  BY <1>2 DEF CreateTypeSymbol
<1>. QED
  BY <1>1, <1>2

(* What resolves goes on resolving while the map only grows. *)
LEMMA ResolvesGrows ==
  ASSUME pdb' = pdb, DOMAIN typeSymbols \subseteq DOMAIN typeSymbols'
  PROVE  /\ \A id : Resolves(id) => Resolves(id)'
         /\ \A symbol : SymbolResolves(symbol) => SymbolResolves(symbol)'
         /\ \A f : FrameResolves(f) => FrameResolves(f)'
<1>1. \A id : Resolves(id) => Resolves(id)'
  BY DEF Resolves, Sym
<1>2. \A symbol : SymbolResolves(symbol) => SymbolResolves(symbol)'
  BY <1>1 DEF SymbolResolves
<1>3. \A f : FrameResolves(f) => FrameResolves(f)'
  BY <1>1, <1>2 DEF FrameResolves, Sym
<1>. QED
  BY <1>1, <1>2, <1>3

(* An empty symbol refers to nothing. *)
LEMMA EmptyResolves ==
  /\ SymbolResolves(EmptyType(NoName))
  /\ EmptyType(NoName).type # "kPointer"
<1>1. TypeReferences(EmptyType(NoName)) = {0}
  BY DEF TypeReferences, EmptyType
<1>. QED
  BY <1>1 DEF SymbolResolves, Resolves, EmptyType

(* The function symbols are not touched and the map only grows. *)
LEMMA FunctionsResolve ==
  ASSUME ReferenceInv, pdb' = pdb, DOMAIN typeSymbols \subseteq DOMAIN typeSymbols',
         functionSymbols' = functionSymbols
  PROVE  \A f \in DOMAIN functionSymbols' :
           \A id \in FunctionReferences(functionSymbols'[f]) : Resolves(id)'
<1>1. \A id : Resolves(id) => Resolves(id)'
  BY ResolvesGrows
<1>. QED
  BY <1>1 DEF ReferenceInv

(* The call on top returns. *)
LEMMA PoppedReentry ==
  ASSUME stack \in Seq(Frames), Below \in Seq(Frames), stack' = Below,
         Len(Below) = Len(stack) - 1, Len(stack) \in Nat \ {0},
         \A i \in 1..(Len(stack) - 1) : stack'[i] = stack[i],
         ReentryThroughTypedef
  PROVE  ReentryThroughTypedef'
<1>1. DOMAIN stack = 1..Len(stack) /\ DOMAIN stack' = 1..(Len(stack) - 1)
  BY LenProperties
<1>. SUFFICES ASSUME NEW i \in 1..(Len(stack) - 1), NEW j \in 1..(Len(stack) - 1), i < j,
                     stack'[i].obj = stack'[j].obj
              PROVE  stack'[j - 1].step = "source"
  BY <1>1 DEF ReentryThroughTypedef
<1>2. i \in DOMAIN stack /\ j \in DOMAIN stack /\ j - 1 \in 1..(Len(stack) - 1)
  BY <1>1
<1>3. stack[i].obj = stack[j].obj /\ stack'[j - 1] = stack[j - 1]
  BY <1>2
<1>4. stack[j - 1].step = "source"
  BY <1>2, <1>3 DEF ReentryThroughTypedef
<1>. QED
  BY <1>3, <1>4

(* CreateTypeSymbol returns a symbol whose references resolve; a pointer has
   just drawn its name. *)
LEMMA ReturnMap ==
  ASSUME TypeInv, MapInv, stack # << >>, TypeStep,
         s_counter' \in Nat, s_counter <= s_counter',
         NEW symbol, Return(symbol), SymbolResolves(symbol),
         symbol.type = "kPointer" =>
           s_counter' = s_counter + 1 /\ symbol.name = PointerName(s_counter')
  PROVE  MapInv'
<1>. USE DEF MapInv
<1>1. /\ stack' = Below /\ Len(Below) = Len(stack) - 1 /\ Len(stack) \in Nat \ {0}
      /\ \A i \in 1..(Len(stack) - 1) : stack'[i] = stack[i]
      /\ stack \in Seq(Frames) /\ Below \in Seq(Frames)
  BY Popped DEF TypeInv, StackInv, Below, Return
<1>2. /\ DOMAIN typeSymbols' = DOMAIN typeSymbols
      /\ \A t \in DOMAIN typeSymbols :
           typeSymbols'[t] = IF t = Top.obj THEN symbol ELSE typeSymbols[t]
  BY DEF Return
<1>3. pdb' = pdb /\ functionSymbols' = functionSymbols
  BY DEF TypeStep, sessionVars, functionVars
<1>4. s_counter \in Nat
  BY DEF TypeInv, StackInv
<1>5. PointerInv'
  <2>1. \A t \in DOMAIN typeSymbols' : typeSymbols'[t].type = "kPointer" =>
          \E n \in 1..s_counter' : typeSymbols'[t].name = PointerName(n)
    <3>. SUFFICES ASSUME NEW t \in DOMAIN typeSymbols, typeSymbols'[t].type = "kPointer"
                  PROVE  \E n \in 1..s_counter' : typeSymbols'[t].name = PointerName(n)
      BY <1>2
    <3>1. CASE t = Top.obj
      BY <1>2, <1>4, <3>1
    <3>2. CASE t # Top.obj
      BY <1>2, <1>4, <3>2 DEF PointerInv
    <3>. QED
      BY <3>1, <3>2
  <2>2. \A i \in 1..Len(stack') : stack'[i].symbol.type # "kPointer"
    BY <1>1 DEF PointerInv
  <2>. QED
    BY <2>1, <2>2 DEF PointerInv
<1>6. PointerNamesDistinct'
  <2>. SUFFICES ASSUME NEW r \in DOMAIN typeSymbols, NEW t \in DOMAIN typeSymbols, r # t,
                       typeSymbols'[r].type = "kPointer", typeSymbols'[t].type = "kPointer"
                PROVE  typeSymbols'[r].name # typeSymbols'[t].name
    BY <1>2 DEF PointerNamesDistinct
  <2>1. ASSUME NEW x \in DOMAIN typeSymbols, x # Top.obj, typeSymbols[x].type = "kPointer",
               symbol.type = "kPointer"
        PROVE  typeSymbols[x].name # symbol.name
    <3>1. PICK n \in 1..s_counter : typeSymbols[x].name = PointerName(n)
      BY <2>1 DEF PointerInv
    <3>2. n # s_counter + 1
      BY <1>4
    <3>. QED
      BY <2>1, <3>1, <3>2 DEF PointerName
  <2>2. CASE r = Top.obj
    BY <1>2, <2>1, <2>2
  <2>3. CASE t = Top.obj
    BY <1>2, <2>1, <2>3
  <2>4. CASE r # Top.obj /\ t # Top.obj
    BY <1>2, <2>4 DEF PointerNamesDistinct
  <2>. QED
    BY <2>2, <2>3, <2>4
<1>7. ReentryThroughTypedef'
  BY <1>1, PoppedReentry
<1>8. ReferenceInv'
  <2>1. \A t \in DOMAIN typeSymbols' : SymbolResolves(typeSymbols'[t])
    BY <1>2 DEF ReferenceInv
  <2>2. \A i \in 1..Len(stack') : FrameResolves(stack'[i])
    BY <1>1 DEF ReferenceInv
  <2>3. /\ \A s : SymbolResolves(s) => SymbolResolves(s)'
        /\ \A f : FrameResolves(f) => FrameResolves(f)'
    BY <1>2, <1>3, ResolvesGrows
  <2>. QED
    BY <1>2, <1>3, <2>1, <2>2, <2>3, FunctionsResolve DEF ReferenceInv
<1>. QED
  BY <1>5, <1>6, <1>7, <1>8

(* The map and the names stay as they are when no symbol is assigned. *)
LEMMA NamesKept ==
  ASSUME TypeInv, MapInv, s_counter' \in Nat, s_counter <= s_counter',
         DOMAIN typeSymbols \subseteq DOMAIN typeSymbols',
         \A t \in DOMAIN typeSymbols : typeSymbols'[t] = typeSymbols[t],
         \A t \in DOMAIN typeSymbols' \ DOMAIN typeSymbols :
           typeSymbols'[t] = EmptyType(NoName)
  PROVE  /\ PointerNamesDistinct'
         /\ \A t \in DOMAIN typeSymbols' : typeSymbols'[t].type = "kPointer" =>
              \E n \in 1..s_counter' : typeSymbols'[t].name = PointerName(n)
         /\ \A t \in DOMAIN typeSymbols' : SymbolResolves(typeSymbols'[t])
<1>1. \A t \in DOMAIN typeSymbols' : typeSymbols'[t].type = "kPointer" =>
        t \in DOMAIN typeSymbols /\ typeSymbols'[t] = typeSymbols[t]
  BY EmptyResolves
<1>2. PointerNamesDistinct'
  BY <1>1 DEF MapInv, PointerNamesDistinct
<1>3. \A t \in DOMAIN typeSymbols' : typeSymbols'[t].type = "kPointer" =>
        \E n \in 1..s_counter' : typeSymbols'[t].name = PointerName(n)
  <2>1. s_counter \in Nat
    BY DEF TypeInv, StackInv
  <2>2. \A n \in 1..s_counter : n \in 1..s_counter'
    BY <2>1
  <2>. QED
    BY <1>1, <2>2 DEF MapInv, PointerInv
<1>4. \A t \in DOMAIN typeSymbols' : SymbolResolves(typeSymbols'[t])
  BY EmptyResolves DEF MapInv, ReferenceInv
<1>. QED
  BY <1>2, <1>3, <1>4

(* CreateTypeSymbol fails. *)
LEMMA ReturnFalseMap ==
  ASSUME TypeInv, MapInv, stack # << >>, TypeStep,
         s_counter' \in Nat, s_counter <= s_counter', ReturnFalse
  PROVE  MapInv'
<1>1. /\ stack' = Below /\ Len(Below) = Len(stack) - 1 /\ Len(stack) \in Nat \ {0}
      /\ \A i \in 1..(Len(stack) - 1) : stack'[i] = stack[i]
      /\ stack \in Seq(Frames) /\ Below \in Seq(Frames)
      /\ typeSymbols' = typeSymbols
  BY Popped DEF TypeInv, StackInv, Below, ReturnFalse
<1>2. pdb' = pdb /\ functionSymbols' = functionSymbols
  BY DEF TypeStep, sessionVars, functionVars
<1>3. /\ PointerNamesDistinct'
      /\ \A t \in DOMAIN typeSymbols' : typeSymbols'[t].type = "kPointer" =>
           \E n \in 1..s_counter' : typeSymbols'[t].name = PointerName(n)
      /\ \A t \in DOMAIN typeSymbols' : SymbolResolves(typeSymbols'[t])
  BY <1>1, NamesKept
<1>4. \A i \in 1..Len(stack') : stack'[i].symbol.type # "kPointer" /\ FrameResolves(stack'[i])
  BY <1>1 DEF MapInv, PointerInv, ReferenceInv
<1>5. PointerInv'
  BY <1>3, <1>4 DEF PointerInv
<1>6. ReentryThroughTypedef'
  BY <1>1, PoppedReentry DEF MapInv
<1>7. ReferenceInv'
  <2>1. /\ \A s : SymbolResolves(s) => SymbolResolves(s)'
        /\ \A f : FrameResolves(f) => FrameResolves(f)'
    BY <1>1, <1>2, ResolvesGrows
  <2>. QED
    BY <1>1, <1>2, <1>3, <1>4, <2>1, FunctionsResolve DEF MapInv, ReferenceInv
<1>. QED
  BY <1>3, <1>5, <1>6, <1>7 DEF MapInv

(* The call on top goes on, and what it has built resolves. *)
LEMMA ContinueMap ==
  ASSUME TypeInv, MapInv, stack # << >>, TypeStep, s_counter' = s_counter,
         NEW frame \in Frames, Continue(frame), frame.obj = Top.obj,
         frame.symbol.type # "kPointer", FrameResolves(frame)
  PROVE  MapInv'
<1>1. /\ stack' \in Seq(Frames) /\ Len(stack') = Len(stack)
      /\ stack'[Len(stack)] = frame
      /\ \A i \in 1..(Len(stack) - 1) : stack'[i] = stack[i]
      /\ Len(stack) \in Nat \ {0}
      /\ stack \in Seq(Frames)
      /\ typeSymbols' = typeSymbols
  BY Popped, Replaced DEF TypeInv, StackInv, Below, Continue
<1>2. pdb' = pdb /\ functionSymbols' = functionSymbols /\ s_counter \in Nat
  BY DEF TypeStep, sessionVars, functionVars, TypeInv, StackInv
<1>3. /\ PointerNamesDistinct'
      /\ \A t \in DOMAIN typeSymbols' : typeSymbols'[t].type = "kPointer" =>
           \E n \in 1..s_counter' : typeSymbols'[t].name = PointerName(n)
      /\ \A t \in DOMAIN typeSymbols' : SymbolResolves(typeSymbols'[t])
  BY <1>1, <1>2, NamesKept
<1>4. \A i \in 1..Len(stack') : stack'[i].symbol.type # "kPointer" /\ FrameResolves(stack'[i])
  BY <1>1 DEF MapInv, PointerInv, ReferenceInv
<1>5. PointerInv'
  BY <1>3, <1>4 DEF PointerInv
<1>6. ReentryThroughTypedef'
  <2>. SUFFICES ASSUME NEW i \in 1..Len(stack), NEW j \in 1..Len(stack), i < j,
                       stack'[i].obj = stack'[j].obj
                PROVE  stack'[j - 1].step = "source"
    BY <1>1 DEF ReentryThroughTypedef
  <2>1. stack'[j - 1] = stack[j - 1] /\ stack'[i] = stack[i]
    BY <1>1
  <2>2. stack'[j].obj = stack[j].obj
    BY <1>1 DEF Top
  <2>3. stack[i].obj = stack[j].obj /\ DOMAIN stack = 1..Len(stack)
    BY <1>1, <2>1, <2>2, LenProperties
  <2>4. stack[j - 1].step = "source"
    BY <2>3 DEF MapInv, ReentryThroughTypedef
  <2>. QED
    BY <2>1, <2>4
<1>7. ReferenceInv'
  <2>1. /\ \A s : SymbolResolves(s) => SymbolResolves(s)'
        /\ \A f : FrameResolves(f) => FrameResolves(f)'
    BY <1>1, <1>2, ResolvesGrows
  <2>. QED
    BY <1>1, <1>2, <1>3, <1>4, <2>1, FunctionsResolve DEF MapInv, ReferenceInv
<1>. QED
  BY <1>3, <1>5, <1>6, <1>7 DEF MapInv

(* A new frame is that of a symbol of which nothing is known yet. *)
LEMMA NewFrame ==
  ASSUME NEW o
  PROVE  /\ Frame(o).symbol.type # "kPointer"
         /\ FrameResolves(Frame(o))
         /\ Frame(o).obj = o
         /\ Frame(o).step = "create"
  BY EmptyResolves DEF Frame, FrameResolves

(* A stack with one more call on top. *)
LEMMA Pushed ==
  ASSUME NEW S, NEW s \in Seq(S), NEW e
  PROVE  /\ Len(Append(s, e)) = Len(s) + 1
         /\ Append(s, e)[Len(s) + 1] = e
         /\ \A i \in 1..Len(s) : Append(s, e)[i] = s[i]
<1>. PICK T : T = S \cup {e}
  OBVIOUS
<1>1. s \in Seq(T) /\ e \in T
  BY SeqMonotonic
<1>. QED
  BY <1>1, AppendProperties

(* The call on top calls CreateTypeSymbol: a typedef for the type it stands
   for, a field for a type the map does not have. *)
LEMMA NestedCreateMap ==
  ASSUME TypeInv, MapInv, TypeInv', stack # << >>, TypeStep, s_counter' = s_counter,
         NEW step \in {"source", "field"},
         NEW o \in DOMAIN pdb.symbols \cup {0},
         CreateTypeSymbol(o, Append(Below, [Top EXCEPT !.step = step])),
         step = "source" => o = Sym(Top.obj).type,
         step = "field" => /\ o = Sym(Top.obj).members[Top.next].type
                           /\ Sym(o).hasId
                           /\ o \notin DOMAIN typeSymbols
  PROVE  MapInv'
<1>. PICK frame : frame = [Top EXCEPT !.step = step]
  OBVIOUS
<1>. PICK frames : frames = Append(Below, frame)
  OBVIOUS
<1>1. /\ frame \in Frames /\ frame.obj = Top.obj /\ frame.step = step
      /\ frame.next = Top.next /\ frame.symbol = Top.symbol
  BY StepTyped
<1>2. /\ DOMAIN typeSymbols \subseteq DOMAIN typeSymbols'
      /\ \A t \in DOMAIN typeSymbols : typeSymbols'[t] = typeSymbols[t]
      /\ \A t \in DOMAIN typeSymbols' \ DOMAIN typeSymbols :
           typeSymbols'[t] = EmptyType(NoName)
      /\ stack' = frames \/ stack' = Append(frames, Frame(o))
      /\ o # 0 /\ Sym(o).hasId => o \in DOMAIN typeSymbols' \/ Sym(o).tag = "fail"
  BY CreateEffect
<1>3. /\ frames \in Seq(Frames) /\ Len(frames) = Len(stack)
      /\ frames[Len(stack)] = frame
      /\ \A i \in 1..(Len(stack) - 1) : frames[i] = stack[i]
      /\ Len(stack) \in Nat \ {0} /\ stack \in Seq(Frames)
      /\ Top = stack[Len(stack)]
  BY <1>1, Popped, Replaced DEF TypeInv, StackInv, Below, Top
<1>4. pdb' = pdb /\ functionSymbols' = functionSymbols /\ s_counter \in Nat
  BY DEF TypeStep, sessionVars, functionVars, TypeInv, StackInv
<1>5. /\ stack' \in Seq(Frames') /\ Frames' = Frames
  BY <1>4 DEF TypeInv, StackInv, Frames, SymbolNames
<1>6. \/ stack' = frames
      \/ /\ Len(stack') = Len(stack) + 1
         /\ stack'[Len(stack) + 1] = Frame(o)
         /\ \A i \in 1..Len(stack) : stack'[i] = frames[i]
  <2>1. CASE stack' = frames
    BY <2>1
  <2>2. CASE stack' = Append(frames, Frame(o))
    <3>1. /\ Len(Append(frames, Frame(o))) = Len(frames) + 1
          /\ Append(frames, Frame(o))[Len(frames) + 1] = Frame(o)
          /\ \A i \in 1..Len(frames) : Append(frames, Frame(o))[i] = frames[i]
      BY <1>3, Pushed
    <3>2. /\ Len(Append(frames, Frame(o))) = Len(stack) + 1
          /\ Append(frames, Frame(o))[Len(stack) + 1] = Frame(o)
          /\ \A i \in 1..Len(stack) : Append(frames, Frame(o))[i] = frames[i]
      BY <1>3, <3>1
    <3>. QED
      BY <2>2, <3>2
  <2>. QED
    BY <1>2, <2>1, <2>2
<1>7. /\ PointerNamesDistinct'
      /\ \A t \in DOMAIN typeSymbols' : typeSymbols'[t].type = "kPointer" =>
           \E n \in 1..s_counter' : typeSymbols'[t].name = PointerName(n)
      /\ \A t \in DOMAIN typeSymbols' : SymbolResolves(typeSymbols'[t])
  BY <1>2, <1>4, NamesKept
<1>8. /\ \A id : Resolves(id) => Resolves(id)'
      /\ \A s : SymbolResolves(s) => SymbolResolves(s)'
      /\ \A f : FrameResolves(f) => FrameResolves(f)'
  BY <1>2, <1>4, ResolvesGrows
<1>9. FrameResolves(frame)' /\ frame.symbol.type # "kPointer"
  <2>1. SymbolResolves(Top.symbol) /\ Top.symbol.type # "kPointer"
    BY <1>3 DEF MapInv, PointerInv, ReferenceInv, FrameResolves
  <2>2. Sym(o).hasId => Resolves(o)'
    BY <1>2, <1>4 DEF Resolves, Sym
  <2>3. SymbolResolves(frame.symbol)' /\ frame.symbol.type # "kPointer"
    BY <1>1, <1>8, <2>1
  <2>4. pdb'.symbols = pdb.symbols
    BY <1>4
  <2>5. CASE step = "source"
    <3>1. Sym(frame.obj).type = o /\ frame.step = "source"
      BY <1>1, <2>5
    <3>. QED
      BY <2>2, <2>3, <2>4, <3>1 DEF FrameResolves, Sym
  <2>6. CASE step = "field"
    <3>1. Sym(frame.obj).members[frame.next].type = o /\ frame.step = "field" /\ Sym(o).hasId
      BY <1>1, <2>6
    <3>. QED
      BY <2>2, <2>3, <2>4, <3>1 DEF FrameResolves, Sym
  <2>. QED
    BY <2>5, <2>6
<1>10. \A i \in 1..Len(frames) : FrameResolves(frames[i])' /\ frames[i].symbol.type # "kPointer"
  BY <1>3, <1>8, <1>9 DEF MapInv, PointerInv, ReferenceInv
<1>11. FrameResolves(Frame(o))' /\ Frame(o).symbol.type # "kPointer"
  BY <1>8, NewFrame
<1>12. (\A i \in 1..Len(stack) : FrameResolves(stack[i]) /\ stack[i].symbol.type # "kPointer")'
  <2>1. CASE stack' = frames
    BY <1>10, <2>1
  <2>2. CASE /\ Len(stack') = Len(stack) + 1
             /\ stack'[Len(stack) + 1] = Frame(o)
             /\ \A i \in 1..Len(stack) : stack'[i] = frames[i]
    <3>. PICK after : after = stack'
      OBVIOUS
    <3>1. ASSUME NEW i \in 1..Len(after)
          PROVE  FrameResolves(after[i])' /\ after[i].symbol.type # "kPointer"
      <4>1. i \in 1..Len(stack) \/ i = Len(stack) + 1
        BY <1>3, <2>2
      <4>2. CASE i \in 1..Len(stack)
        <5>1. after[i] = frames[i] /\ i \in 1..Len(frames)
          BY <1>3, <2>2, <4>2
        <5>. QED
          BY <1>10, <5>1
      <4>3. CASE i = Len(stack) + 1
        <5>1. after[i] = Frame(o)
          BY <2>2, <4>3
        <5>. QED
          BY <1>11, <5>1
      <4>. QED
        BY <4>1, <4>2, <4>3
    <3>. QED
      BY <3>1
  <2>. QED
    BY <1>6, <2>1, <2>2
<1>13. PointerInv'
  BY <1>7, <1>12 DEF PointerInv
<1>14. ReferenceInv'
  BY <1>2, <1>4, <1>7, <1>8, <1>12, FunctionsResolve DEF MapInv, ReferenceInv
<1>15. ReentryThroughTypedef'
  <2>. SUFFICES ASSUME NEW i \in 1..Len(stack'), NEW j \in 1..Len(stack'), i < j,
                       stack'[i].obj = stack'[j].obj
                PROVE  stack'[j - 1].step = "source"
    BY <1>5, LenProperties DEF ReentryThroughTypedef
  <2>1. /\ DOMAIN stack = 1..Len(stack)
        /\ \A k \in 1..Len(stack) : stack[k].obj \in DOMAIN typeSymbols
    BY <1>3, LenProperties DEF TypeInv, StackInv, FramesOK
  <2>2. \A k \in 1..Len(stack) : frames[k].obj = stack[k].obj
    BY <1>1, <1>3
  <2>3. \A k \in 1..Len(stack) : stack'[k] = frames[k]
    BY <1>3, <1>6
  <2>4. CASE j \in 1..Len(stack)
    <3>1. i \in 1..Len(stack) /\ j - 1 \in 1..(Len(stack) - 1)
      BY <1>3, <2>4
    <3>2. stack[i].obj = stack[j].obj
      BY <2>2, <2>3, <2>4, <3>1
    <3>3. stack[j - 1].step = "source"
      BY <2>1, <2>4, <3>1, <3>2 DEF MapInv, ReentryThroughTypedef
    <3>4. stack'[j - 1] = stack[j - 1]
      BY <1>3, <2>3, <3>1
    <3>. QED
      BY <3>3, <3>4
  <2>5. CASE j \notin 1..Len(stack)
    <3>1. j = Len(stack) + 1 /\ i \in 1..Len(stack) /\ j - 1 = Len(stack)
      BY <1>3, <1>6, <2>5
    <3>2. stack'[j] = Frame(o)
      BY <1>3, <1>6, <2>5, <3>1
    <3>3. stack'[i].obj \in DOMAIN typeSymbols /\ stack'[j].obj = o
      <4>1. stack'[j].obj = o
        BY <3>2, NewFrame
      <4>2. stack'[i].obj = stack[i].obj
        BY <2>2, <2>3, <3>1
      <4>. QED
        BY <2>1, <3>1, <4>1, <4>2
    <3>4. step = "source"
      BY <3>3
    <3>5. stack'[Len(stack)] = frame
      <4>1. Len(stack) \in 1..Len(stack)
        BY <1>3
      <4>. QED
        BY <1>3, <2>3, <4>1
    <3>. QED
      BY <1>1, <3>1, <3>4, <3>5
  <2>. QED
    BY <2>4, <2>5
<1>. QED
  BY <1>7, <1>13, <1>14, <1>15 DEF MapInv

(* A symbol without fields refers to the source of a typedef at most. *)
LEMMA NoFields ==
  ASSUME NEW symbol, symbol.fields = << >>, Resolves(symbol.typedefSource)
  PROVE  SymbolResolves(symbol)
<1>1. TypeReferences(symbol) = {symbol.typedefSource}
  BY DEF TypeReferences
<1>. QED
  BY <1>1 DEF SymbolResolves

(* What is known of the call on top. *)
LEMMA TopResolves ==
  ASSUME TypeInv, MapInv, stack # << >>
  PROVE  /\ FrameResolves(Top) /\ SymbolResolves(Top.symbol)
         /\ Top.symbol.type # "kPointer"
<1>1. Len(stack) \in 1..Len(stack) /\ Top = stack[Len(stack)]
  BY TopTyped
<1>. QED
  BY <1>1 DEF MapInv, PointerInv, ReferenceInv, FrameResolves

(* A field is added whose type has been entered. *)
LEMMA PushFieldMap ==
  ASSUME TypeInv, MapInv, stack # << >>, TypeStep, s_counter' = s_counter,
         NEW field \in FieldSymbols(SymbolNames), PushField(field),
         Resolves(field.underlyingTypeId)
  PROVE  MapInv'
<1>. PICK frame : frame = [Top EXCEPT !.step = "members", !.next = @ + 1,
                                      !.symbol.fields = Append(@, field)]
  OBVIOUS
<1>1. /\ frame \in Frames /\ frame.obj = Top.obj /\ frame.step = "members"
      /\ frame.symbol = [Top.symbol EXCEPT !.fields = Append(Top.symbol.fields, field)]
  BY PushedFrame, Zenon
<1>2. Continue(frame)
  BY DEF PushField
<1>. DEFINE fields == Append(Top.symbol.fields, field)
<1>3. /\ SymbolResolves(Top.symbol) /\ Top.symbol.type # "kPointer"
      /\ Top.symbol \in TypeSymbols(SymbolNames)
      /\ Top.symbol.fields \in Seq(FieldSymbols(SymbolNames))
  BY TopResolves, TopTyped
<1>4. /\ DOMAIN fields = 1..(Len(Top.symbol.fields) + 1)
      /\ fields[Len(Top.symbol.fields) + 1] = field
      /\ \A i \in 1..Len(Top.symbol.fields) : fields[i] = Top.symbol.fields[i]
      /\ DOMAIN Top.symbol.fields = 1..Len(Top.symbol.fields)
      /\ Len(Top.symbol.fields) \in Nat
  BY <1>3, AppendProperties, LenProperties
<1>5. /\ frame.symbol.fields = fields
      /\ frame.symbol.typedefSource = Top.symbol.typedefSource
      /\ frame.symbol.type = Top.symbol.type
  BY <1>1, <1>3 DEF TypeSymbols
<1>. HIDE DEF fields
<1>6. \A i \in DOMAIN fields : Resolves(fields[i].underlyingTypeId)
  <2>. SUFFICES ASSUME NEW i \in DOMAIN fields
                PROVE  Resolves(fields[i].underlyingTypeId)
    OBVIOUS
  <2>1. CASE i = Len(Top.symbol.fields) + 1
    BY <1>4, <2>1
  <2>2. CASE i \in 1..Len(Top.symbol.fields)
    <3>1. Top.symbol.fields[i].underlyingTypeId \in TypeReferences(Top.symbol)
      BY <1>4, <2>2 DEF TypeReferences
    <3>2. fields[i] = Top.symbol.fields[i]
      BY <1>4, <2>2
    <3>. QED
      BY <1>3, <3>1, <3>2 DEF SymbolResolves
  <2>. QED
    BY <1>4, <2>1, <2>2
<1>7. SymbolResolves(frame.symbol)
  BY <1>3, <1>5, <1>6 DEF SymbolResolves, TypeReferences
<1>8. FrameResolves(frame)
  BY <1>1, <1>7 DEF FrameResolves
<1>. QED
  BY <1>1, <1>2, <1>3, <1>5, <1>8, ContinueMap

(* The type of an empty field, and of a field whose type has been entered. *)
LEMMA FieldResolves ==
  ASSUME TypeInv, stack # << >>
  PROVE  /\ Resolves(EmptyField(NoName).underlyingTypeId)
         /\ Resolves(Member.type) => Resolves(Field(Member).underlyingTypeId)
  BY DEF EmptyField, Field, Resolves

(* Every step of CreateTypeSymbol keeps the map in order. *)
LEMMA CreateStepMap ==
  ASSUME TypeInv, TypeInv', MapInv, CreateStep
  PROVE  MapInv'
<1>. DEFINE s == Sym(Top.obj)
<1>0. /\ TypeStep /\ stack # << >> /\ s_counter \in Nat
      /\ IsPdb(Names, pdb) /\ Top.obj \in DOMAIN pdb.symbols
      /\ s.type \in DOMAIN pdb.symbols \cup {0}
      /\ AnswersItsTag(s)
  BY CreateStepKeeps, TopTyped, SymbolAnswers DEF TypeInv, SessionInv, StackInv
<1>1. ASSUME s_counter' = s_counter, NEW symbol, Return(symbol),
             SymbolResolves(symbol), symbol.type # "kPointer"
      PROVE  MapInv'
  BY <1>0, <1>1, ReturnMap
<1>2. ASSUME s_counter' = s_counter, ReturnFalse
      PROVE  MapInv'
  BY <1>0, <1>2, ReturnFalseMap
<1>3. ASSUME NEW kind, NEW name
      PROVE  /\ SymbolResolves(Described(kind, name))
             /\ Described(kind, name).type = kind
             /\ Described(kind, name).name = name
  BY NoFields DEF Described, Resolves
<1>4. ASSUME s_counter' = s_counter, s.tag \in {"SymTagUDT", "SymTagEnum"},
             NEW kind \in TypeKinds \ {"kPointer"}, BeginMembers(kind)
      PROVE  MapInv'
  <2>1. PICK frame \in Frames :
          /\ Continue(frame)
          /\ frame.obj = Top.obj /\ frame.step = "members"
          /\ frame.symbol = [Described(kind, s.name) EXCEPT !.fieldCount = Len(s.members)]
    BY <1>0, <1>4, BeginMembersKeeps
  <2>2. /\ frame.symbol.fields = << >> /\ frame.symbol.typedefSource = 0
        /\ frame.symbol.type = kind
    BY <2>1 DEF Described
  <2>3. FrameResolves(frame)
    BY <2>1, <2>2, NoFields DEF FrameResolves, Resolves
  <2>. QED
    BY <1>0, <1>4, <2>1, <2>2, <2>3, ContinueMap
<1>5. CASE CreateBaseTypeSymbol
  <2>1. /\ s_counter' = s_counter
        /\ Return(Described("kBase", GetBaseName(s.kind, s.length))) \/ ReturnFalse
    BY <1>5 DEF CreateBaseTypeSymbol
  <2>. QED
    BY <1>1, <1>2, <1>3, <2>1
<1>6. CASE CreateArrayTypeSymbol
  <2>1. s_counter' = s_counter /\ (Return(Described("kArray", s.name)) \/ ReturnFalse)
    BY <1>6 DEF CreateArrayTypeSymbol
  <2>. QED
    BY <1>1, <1>2, <1>3, <2>1
<1>7. CASE CreatePointerTypeSymbol
  <2>1. /\ s_counter' = s_counter + 1 /\ s_counter' \in Nat /\ s_counter <= s_counter'
        /\ Return(Described("kPointer", PointerName(s_counter'))) \/ ReturnFalse
    BY <1>0, <1>7 DEF CreatePointerTypeSymbol
  <2>2. CASE ReturnFalse
    BY <1>0, <2>1, <2>2, ReturnFalseMap
  <2>3. CASE Return(Described("kPointer", PointerName(s_counter')))
    BY <1>0, <1>3, <2>1, <2>3, ReturnMap
  <2>. QED
    BY <2>1, <2>2, <2>3
<1>8. CASE CreateUnsupportedSymbol
  BY <1>2, <1>8 DEF CreateUnsupportedSymbol
<1>9. CASE CreateTypedefSymbol
  <2>1. s_counter' = s_counter /\ s.tag = "SymTagTypedef"
    BY <1>9 DEF CreateTypedefSymbol, Creating
  <2>2. CASE ReturnFalse
    BY <1>2, <2>1, <2>2
  <2>3. CASE Return([Described("kTypedef", s.name) EXCEPT !.length = 0])
    <3>. PICK symbol : symbol = [Described("kTypedef", s.name) EXCEPT !.length = 0]
      OBVIOUS
    <3>1. symbol.fields = << >> /\ symbol.typedefSource = 0 /\ symbol.type = "kTypedef"
      BY DEF Described
    <3>2. SymbolResolves(symbol)
      BY <3>1, NoFields DEF Resolves
    <3>. QED
      BY <1>1, <2>1, <2>3, <3>1, <3>2
  <2>4. CASE CreateTypeSymbol(s.type, Append(Below, [Top EXCEPT !.step = "source"]))
    BY <1>0, <2>1, <2>4, NestedCreateMap
  <2>5. \/ ReturnFalse \/ Return([Described("kTypedef", s.name) EXCEPT !.length = 0])
        \/ CreateTypeSymbol(s.type, Append(Below, [Top EXCEPT !.step = "source"]))
    BY <1>9 DEF CreateTypedefSymbol
  <2>. QED
    BY <2>2, <2>3, <2>4, <2>5
<1>10. CASE FinishTypedefSymbol
  <2>. DEFINE d == Described("kTypedef", s.name)
              e == [d EXCEPT !.length = Sym(s.type).length]
              symbol == [e EXCEPT !.typedefSource = s.type]
  <2>1. /\ s_counter' = s_counter /\ Top.step = "source"
        /\ ReturnFalse \/ (Sym(s.type).hasId /\ Return(symbol))
    BY <1>10 DEF FinishTypedefSymbol
  <2>2. /\ symbol.fields = << >> /\ symbol.typedefSource = s.type
        /\ symbol.type = "kTypedef"
    BY DEF Described
  <2>. HIDE DEF symbol
  <2>3. Sym(s.type).hasId => Resolves(s.type)
    BY <1>0, <2>1, TopResolves DEF FrameResolves
  <2>4. Sym(s.type).hasId => SymbolResolves(symbol)
    BY <2>2, <2>3, NoFields
  <2>. QED
    BY <1>1, <1>2, <2>1, <2>2, <2>4
<1>11. CASE CreateUDTSymbol
  <2>1. s_counter' = s_counter /\ s.tag = "SymTagUDT"
    BY <1>11 DEF CreateUDTSymbol, Creating
  <2>2. ReturnFalse \/ (s.kind # "fail" /\ BeginMembers(UdtType[s.kind]))
    BY <1>11 DEF CreateUDTSymbol
  <2>3. s.kind # "fail" => UdtType[s.kind] \in TypeKinds \ {"kPointer"}
    BY <1>0, <2>1 DEF AnswersItsTag, UdtKinds, UdtType, TypeKinds
  <2>. QED
    BY <1>2, <1>4, <2>1, <2>2, <2>3
<1>12. CASE CreateEnumSymbol
  <2>1. s_counter' = s_counter /\ s.tag = "SymTagEnum" /\ (ReturnFalse \/ BeginMembers("kEnum"))
    BY <1>12 DEF CreateEnumSymbol, Creating
  <2>2. "kEnum" \in TypeKinds \ {"kPointer"}
    BY DEF TypeKinds
  <2>. QED
    BY <1>2, <1>4, <2>1, <2>2
<1>13. CASE CreateFieldSymbol
  <2>1. /\ Top.next <= Len(s.members) /\ s_counter' = s_counter
    BY <1>13 DEF CreateFieldSymbol, AtMember
  <2>2. Top.next \in 1..Len(s.members)
    BY <1>0, <2>1, TopTyped, SymbolAnswers, LenProperties
  <2>3. Field(Member) \in FieldSymbols(SymbolNames) /\ Member.type \in DOMAIN pdb.symbols \cup {0}
    BY <1>0, <2>2, FieldTyped
  <2>4. CASE PushField(EmptyField(NoName))
    BY <1>0, <2>1, <2>4, EmptyFieldTyped, FieldResolves, PushFieldMap
  <2>5. CASE Member.type \in DOMAIN typeSymbols /\ PushField(Field(Member))
    <3>1. Resolves(Member.type)
      BY <2>5 DEF Resolves
    <3>. QED
      BY <1>0, <2>1, <2>3, <2>5, <3>1, FieldResolves, PushFieldMap
  <2>6. CASE /\ MemberReadable(Member) /\ Member.type \notin DOMAIN typeSymbols
             /\ CreateTypeSymbol(Member.type, Append(Below, [Top EXCEPT !.step = "field"]))
    <3>1. Member.type = s.members[Top.next].type /\ Sym(Member.type).hasId
      BY <2>6 DEF Member, MemberReadable
    <3>. QED
      BY <1>0, <2>1, <2>3, <2>6, <3>1, NestedCreateMap
  <2>. QED
    BY <1>13, <2>4, <2>5, <2>6 DEF CreateFieldSymbol
<1>14. CASE FinishFieldSymbol
  <2>1. /\ Top.step = "field" /\ s_counter' = s_counter
        /\ PushField(IF ret THEN Field(Member) ELSE EmptyField(NoName))
    BY <1>14 DEF FinishFieldSymbol
  <2>2. Top.next \in 1..Len(s.members)
    BY <1>0, <2>1, TopTyped DEF FrameOK
  <2>3. Field(Member) \in FieldSymbols(SymbolNames)
    BY <1>0, <2>2, FieldTyped
  <2>4. Resolves(Member.type)
    BY <1>0, <2>1, TopResolves DEF FrameResolves, Member
  <2>. QED
    BY <1>0, <2>1, <2>3, <2>4, EmptyFieldTyped, FieldResolves, PushFieldMap
<1>15. CASE EndMembers
  <2>1. s_counter' = s_counter
    BY <1>15 DEF EndMembers
  <2>2. CASE Return(Top.symbol)
    BY <1>0, <1>1, <2>1, <2>2, TopResolves
  <2>3. CASE Continue([Top EXCEPT !.step = "unions", !.next = 1])
    <3>. DEFINE e == [Top EXCEPT !.step = "unions"]
                frame == [e EXCEPT !.next = 1]
    <3>1. /\ e \in Frames /\ e.obj = Top.obj /\ e.step = "unions"
          /\ e.symbol = Top.symbol
      BY <1>0, StepTyped
    <3>2. Continue(frame)
      BY <2>3
    <3>. HIDE DEF e
    <3>3. /\ frame \in Frames /\ frame.obj = Top.obj /\ frame.step = "unions"
          /\ frame.symbol = Top.symbol
      BY <3>1 DEF Frames
    <3>. HIDE DEF frame
    <3>4. FrameResolves(frame) /\ frame.symbol.type # "kPointer"
      BY <1>0, <3>3, TopResolves DEF FrameResolves
    <3>. QED
      BY <1>0, <2>1, <3>2, <3>3, <3>4, ContinueMap
  <2>. QED
    BY <1>15, <2>2, <2>3 DEF EndMembers
<1>16. CASE SetAnonymousUnionData
  <2>1. s_counter' = s_counter
    BY <1>16 DEF SetAnonymousUnionData
  <2>2. PICK frame \in Frames :
          /\ Continue(frame)
          /\ frame.obj = Top.obj /\ frame.step = "unions"
          /\ \/ frame.symbol = [Top.symbol EXCEPT !.fields =
                                  MarkUnion(Top.symbol.fields, Top.next, Top.unionId)]
             \/ frame.symbol = Top.symbol
    BY <1>16, UnionStep
  <2>3. /\ SymbolResolves(Top.symbol) /\ Top.symbol.type # "kPointer"
        /\ Top.symbol \in TypeSymbols(SymbolNames)
        /\ Top.symbol.fields \in Seq(FieldSymbols(SymbolNames))
        /\ Top.next \in Nat /\ Top.unionId \in Nat
    BY <1>0, TopResolves, TopTyped DEF Frames
  <2>4. CASE frame.symbol = Top.symbol
    <3>1. FrameResolves(frame)
      BY <2>2, <2>3, <2>4 DEF FrameResolves
    <3>. QED
      BY <1>0, <2>1, <2>2, <2>3, <2>4, <3>1, ContinueMap
  <2>5. CASE frame.symbol = [Top.symbol EXCEPT !.fields =
                               MarkUnion(Top.symbol.fields, Top.next, Top.unionId)]
    <3>a. PICK old, n, u : old = Top.symbol.fields /\ n = Top.next /\ u = Top.unionId
      OBVIOUS
    <3>. DEFINE fields == MarkUnion(old, n, u)
    <3>0. old \in Seq(FieldSymbols(SymbolNames)) /\ n \in Nat /\ u \in Nat
      BY <2>3, <3>a
    <3>1. /\ frame.symbol.fields = fields /\ frame.symbol.type = Top.symbol.type
          /\ frame.symbol.typedefSource = Top.symbol.typedefSource
      BY <2>3, <2>5, <3>a DEF TypeSymbols
    <3>2. /\ fields \in Seq(FieldSymbols(SymbolNames)) /\ Len(fields) = Len(old)
          /\ \A j \in 1..Len(old) : fields[j].underlyingTypeId = old[j].underlyingTypeId
      <4>1. fields \in Seq(FieldSymbols(SymbolNames))
        BY <3>0, MarkUnionTyped
      <4>2. Len(fields) = Len(old)
        BY <3>0, MarkUnionTyped
      <4>3. ASSUME NEW j \in 1..Len(old)
            PROVE  fields[j].underlyingTypeId = old[j].underlyingTypeId
        BY <3>0, <4>3, MarkedField
      <4>. QED
        BY <4>1, <4>2, <4>3
    <3>. HIDE DEF fields
    <3>3. DOMAIN fields = DOMAIN old /\ DOMAIN old = 1..Len(old)
      BY <3>0, <3>2, LenProperties
    <3>4. \A i \in DOMAIN fields : Resolves(fields[i].underlyingTypeId)
      <4>. SUFFICES ASSUME NEW i \in DOMAIN fields
                    PROVE  Resolves(fields[i].underlyingTypeId)
        OBVIOUS
      <4>1. Top.symbol.fields[i].underlyingTypeId \in TypeReferences(Top.symbol)
        BY <3>a, <3>3 DEF TypeReferences
      <4>. QED
        BY <2>3, <3>a, <3>2, <3>3, <4>1 DEF SymbolResolves
    <3>5. FrameResolves(frame)
      <4>1. SymbolResolves(frame.symbol)
        BY <2>3, <3>1, <3>4 DEF SymbolResolves, TypeReferences
      <4>. QED
        BY <2>2, <4>1 DEF FrameResolves
    <3>. QED
      BY <1>0, <2>1, <2>2, <2>3, <3>1, <3>5, ContinueMap
  <2>. QED
    BY <2>2, <2>4, <2>5
<1>17. CASE EndUnions
  <2>1. s_counter' = s_counter /\ Return(Top.symbol)
    BY <1>17 DEF EndUnions
  <2>. QED
    BY <1>0, <1>1, <2>1, TopResolves
<1>. QED
  BY <1>5, <1>6, <1>7, <1>8, <1>9, <1>10, <1>11, <1>12, <1>13, <1>14, <1>15, <1>16, <1>17
  DEF CreateStep

-----------------------------------------------------------------------------
(* What the steps of BuildFunctionList do to the entries *)

(* Only the entry k of the function symbols changes. *)
OnlyEntry(k) ==
  /\ DOMAIN functionSymbols' = DOMAIN functionSymbols
  /\ \A f \in DOMAIN functionSymbols \ {k} : functionSymbols'[f] = functionSymbols[f]

(* What BuildFunctionList does to an entry: the function is entered, ... *)
LEMMA BeginFunctionEffect ==
  ASSUME TypeInv, NEW h \in DOMAIN pdb.functions, BeginFunction(h)
  PROVE  LET f == pdb.functions[h]
             known == f.id \in DOMAIN functionSymbols
         IN  /\ DOMAIN functionSymbols' = DOMAIN functionSymbols \cup {f.id}
             /\ \A g \in DOMAIN functionSymbols \ {f.id} : functionSymbols'[g] = functionSymbols[g]
             /\ known =>
                  /\ functionSymbols'[f.id].returnTypeId = functionSymbols[f.id].returnTypeId
                  /\ functionSymbols'[f.id].argumentTypeIds = functionSymbols[f.id].argumentTypeIds
             /\ ~known =>
                  /\ functionSymbols'[f.id].returnTypeId = 0
                  /\ functionSymbols'[f.id].argumentTypeIds = << >>
                  /\ functionSymbols'[f.id].argumentCount = 0
<1>. DEFINE f == pdb.functions[h]
            entry == IF f.id \in DOMAIN functionSymbols THEN functionSymbols[f.id]
                     ELSE EmptyFunction(NoName)
            e == [entry EXCEPT !.id = f.id]
            new == [e EXCEPT !.name = f.name]
<1>1. functionSymbols' = Put(functionSymbols, f.id, new)
  BY DEF BeginFunction
<1>2. entry \in FunctionSymbols(Names)
  BY NamesAssumption, EmptySeq
  DEF TypeInv, ListInv, EmptyFunction, FunctionSymbols, CallingConventions
<1>3. /\ e.returnTypeId = entry.returnTypeId /\ e.argumentTypeIds = entry.argumentTypeIds
      /\ e.argumentCount = entry.argumentCount
      /\ e \in FunctionSymbols(Names)
  <2>1. f.id \in Nat
    BY FunctionAnswers DEF TypeInv, SessionInv
  <2>. HIDE DEF entry
  <2>. QED
    BY <1>2, <2>1 DEF FunctionSymbols
<1>. HIDE DEF e
<1>4. /\ new.returnTypeId = entry.returnTypeId /\ new.argumentTypeIds = entry.argumentTypeIds
      /\ new.argumentCount = entry.argumentCount
  BY <1>3 DEF FunctionSymbols
<1>. HIDE DEF new
<1>5. /\ DOMAIN functionSymbols' = DOMAIN functionSymbols \cup {f.id}
      /\ \A g \in DOMAIN functionSymbols \ {f.id} : functionSymbols'[g] = functionSymbols[g]
      /\ functionSymbols'[f.id] = new
  BY <1>1 DEF Put
<1>. QED
  BY <1>4, <1>5 DEF EmptyFunction

(* ... its return type is set if it has one, ... *)
LEMMA ReturnTypeEffect ==
  ASSUME TypeInv, ReturnType
  PROVE  LET old == functionSymbols[Fun.id]
             new == functionSymbols'[Fun.id]
         IN  /\ fn # NoFunction /\ stack = << >> /\ EnsureType(Fun.returnType)
             /\ OnlyEntry(Fun.id)
             /\ new.argumentTypeIds = old.argumentTypeIds
             /\ new.argumentCount = old.argumentCount
             /\ \/ new.returnTypeId = old.returnTypeId
                \/ /\ Fun.returnType # 0 /\ Sym(Fun.returnType).hasId
                   /\ new.returnTypeId = Fun.returnType
             /\ fn'.handle = fn.handle /\ fn'.step = "this"
             /\ fn'.next = fn.next /\ fn'.position = fn.position
<1>. DEFINE e == [functionSymbols[Fun.id] EXCEPT !.returnTypeId = Fun.returnType]
<1>1. /\ fn.step = "return" /\ stack = << >> /\ EnsureType(Fun.returnType)
      /\ fn' = [fn EXCEPT !.step = "this"]
      /\ functionSymbols' = IF Fun.returnType # 0 /\ Sym(Fun.returnType).hasId
           THEN [functionSymbols EXCEPT ![Fun.id] = e] ELSE functionSymbols
  BY DEF ReturnType, AtFunction
<1>2. /\ fn # NoFunction /\ Fun.id \in DOMAIN functionSymbols
      /\ functionSymbols[Fun.id] \in FunctionSymbols(Names)
  BY <1>1, FunTyped DEF NoFunction
<1>3. /\ e.argumentTypeIds = functionSymbols[Fun.id].argumentTypeIds
      /\ e.argumentCount = functionSymbols[Fun.id].argumentCount
      /\ e.returnTypeId = Fun.returnType
  BY <1>2 DEF FunctionSymbols
<1>. HIDE DEF e
<1>4. /\ fn'.handle = fn.handle /\ fn'.step = "this"
      /\ fn'.next = fn.next /\ fn'.position = fn.position
  BY <1>1 DEF TypeInv, ListInv
<1>5. OnlyEntry(Fun.id)
  BY <1>1, <1>2 DEF OnlyEntry
<1>. QED
  BY <1>1, <1>2, <1>3, <1>4, <1>5

(* ... the object pointer becomes its first argument, ... *)
LEMMA ThisArgumentEffect ==
  ASSUME TypeInv, ThisArgument
  PROVE  LET old == functionSymbols[Fun.id]
             new == functionSymbols'[Fun.id]
             count == IF Fun.hasCount THEN Fun.count ELSE old.argumentCount
             ids == IF Fun.this = 0 THEN << >> ELSE <<Id(Fun.this)>>
         IN  /\ fn # NoFunction /\ fn.step = "this" /\ stack = << >>
             /\ OnlyEntry(Fun.id)
             /\ new.returnTypeId = old.returnTypeId /\ new.argumentCount = count
             /\ fn'.handle = fn.handle /\ fn'.step = "arguments" /\ fn'.position = fn.position
             /\ \/ /\ count > 0 /\ EnsureType(Fun.this)
                   /\ new.argumentTypeIds = old.argumentTypeIds \o ids
                   /\ fn'.next = fn.next
                \/ /\ count = 0 /\ EnsureType(0)
                   /\ new.argumentTypeIds = old.argumentTypeIds
                   /\ fn'.next = Len(Fun.arguments) + 1
<1>. DEFINE old == functionSymbols[Fun.id]
            counted == IF Fun.hasCount THEN [old EXCEPT !.argumentCount = Fun.count] ELSE old
            count == IF Fun.hasCount THEN Fun.count ELSE old.argumentCount
            ids == IF Fun.this = 0 THEN << >> ELSE <<Id(Fun.this)>>
            e == [counted EXCEPT !.argumentTypeIds = counted.argumentTypeIds \o ids]
            fn1 == [fn EXCEPT !.step = "arguments"]
            fn2 == [fn1 EXCEPT !.next = Len(Fun.arguments) + 1]
<1>1. /\ fn.step = "this" /\ stack = << >>
      /\ \/ /\ counted.argumentCount > 0
            /\ functionSymbols' = [functionSymbols EXCEPT ![Fun.id] = e]
            /\ EnsureType(Fun.this) /\ fn' = fn1
         \/ /\ counted.argumentCount = 0
            /\ functionSymbols' = [functionSymbols EXCEPT ![Fun.id] = counted]
            /\ EnsureType(0) /\ fn' = fn2
  BY DEF ThisArgument, AtFunction
<1>2. fn # NoFunction /\ fn \in [handle: Nat, step: {"none", "return", "this", "arguments"},
                                 next: Nat, position: Nat]
  BY <1>1 DEF NoFunction, TypeInv, ListInv
<1>3. /\ Fun.id \in DOMAIN functionSymbols /\ old \in FunctionSymbols(Names)
      /\ Fun.count \in Nat
  BY <1>2, FunTyped
<1>4. /\ fn1.handle = fn.handle /\ fn1.step = "arguments"
      /\ fn1.next = fn.next /\ fn1.position = fn.position
      /\ fn1 \in [handle: Nat, step: {"none", "return", "this", "arguments"},
                  next: Nat, position: Nat]
  BY <1>2
<1>. HIDE DEF fn1
<1>5. /\ fn2.handle = fn.handle /\ fn2.step = "arguments"
      /\ fn2.next = Len(Fun.arguments) + 1 /\ fn2.position = fn.position
  BY <1>4
<1>. HIDE DEF fn2, old
<1>6. /\ counted \in FunctionSymbols(Names)
      /\ counted.returnTypeId = old.returnTypeId
      /\ counted.argumentTypeIds = old.argumentTypeIds
      /\ counted.argumentCount = count
  BY <1>3 DEF FunctionSymbols
<1>. HIDE DEF counted
<1>7. /\ e.returnTypeId = old.returnTypeId /\ e.argumentCount = count
      /\ e.argumentTypeIds = old.argumentTypeIds \o ids
  BY <1>6 DEF FunctionSymbols
<1>. HIDE DEF e, count, ids
<1>8. OnlyEntry(Fun.id)
  BY <1>1, <1>3 DEF OnlyEntry
<1>9. CASE /\ count > 0 /\ functionSymbols' = [functionSymbols EXCEPT ![Fun.id] = e]
           /\ EnsureType(Fun.this) /\ fn' = fn1
  <2>1. functionSymbols'[Fun.id] = e
    BY <1>3, <1>9
  <2>. QED
    BY <1>1, <1>2, <1>4, <1>7, <1>8, <1>9, <2>1 DEF old, count, ids
<1>10. CASE /\ count = 0 /\ functionSymbols' = [functionSymbols EXCEPT ![Fun.id] = counted]
            /\ EnsureType(0) /\ fn' = fn2
  <2>1. functionSymbols'[Fun.id] = counted
    BY <1>3, <1>10
  <2>. QED
    BY <1>1, <1>2, <1>5, <1>6, <1>8, <1>10, <2>1 DEF old, count, ids
<1>. QED
  BY <1>1, <1>6, <1>9, <1>10

(* ... each argument type is appended that is not btNoType, ... *)
LEMMA ArgumentEffect ==
  ASSUME TypeInv, Argument
  PROVE  LET o == Fun.arguments[fn.next]
             old == functionSymbols[Fun.id]
             new == functionSymbols'[Fun.id]
         IN  /\ fn # NoFunction /\ fn.step = "arguments" /\ stack = << >>
             /\ fn.next \in 1..Len(Fun.arguments)
             /\ o \in DOMAIN pdb.symbols
             /\ fn'.handle = fn.handle /\ fn'.step = "arguments"
             /\ fn'.next = fn.next + 1
             /\ OnlyEntry(Fun.id)
             /\ new.returnTypeId = old.returnTypeId
             /\ new.argumentCount = old.argumentCount
             /\ \/ /\ IsNoType(o) /\ fn.position = 0
                   /\ EnsureType(0)
                   /\ new.argumentTypeIds = old.argumentTypeIds
                   /\ fn'.position = fn.position
                \/ /\ ~(IsNoType(o) /\ fn.position = 0)
                   /\ EnsureType(o)
                   /\ new.argumentTypeIds = Append(old.argumentTypeIds, Id(o))
                   /\ fn'.position = fn.position + 1
<1>. DEFINE o == Fun.arguments[fn.next]
            old == functionSymbols[Fun.id]
            e == [old EXCEPT !.argumentTypeIds = Append(old.argumentTypeIds, Id(o))]
            after == [fn EXCEPT !.next = fn.next + 1]
            after2 == [after EXCEPT !.position = after.position + 1]
            FnTypes == [handle: Nat, step: {"none", "return", "this", "arguments"},
                        next: Nat, position: Nat]
<1>1. /\ fn.step = "arguments" /\ stack = << >> /\ fn.next <= Len(Fun.arguments)
      /\ \/ /\ IsNoType(o) /\ fn.position = 0
            /\ functionSymbols' = functionSymbols /\ EnsureType(0) /\ fn' = after
         \/ /\ ~(IsNoType(o) /\ fn.position = 0)
            /\ functionSymbols' = [functionSymbols EXCEPT ![Fun.id] = e]
            /\ EnsureType(o) /\ fn' = after2
  BY DEF Argument, AtFunction
<1>2. fn # NoFunction /\ fn \in FnTypes
  BY <1>1 DEF NoFunction, TypeInv, ListInv
<1>3. /\ Fun.id \in DOMAIN functionSymbols /\ old \in FunctionSymbols(Names)
      /\ fn.next \in 1..Len(Fun.arguments) /\ Fun.arguments \in Seq(DOMAIN pdb.symbols)
  BY <1>1, <1>2, FunTyped
<1>4. o \in DOMAIN pdb.symbols
  BY <1>3
<1>. HIDE DEF o
<1>5. /\ after \in FnTypes /\ after.handle = fn.handle /\ after.step = "arguments"
      /\ after.next = fn.next + 1 /\ after.position = fn.position
  BY <1>1, <1>2
<1>. HIDE DEF after
<1>6. /\ after2.handle = fn.handle /\ after2.step = "arguments"
      /\ after2.next = fn.next + 1 /\ after2.position = fn.position + 1
  BY <1>5
<1>. HIDE DEF after2
<1>7. /\ e.returnTypeId = old.returnTypeId /\ e.argumentCount = old.argumentCount
      /\ e.argumentTypeIds = Append(old.argumentTypeIds, Id(o))
  BY <1>3 DEF FunctionSymbols
<1>. HIDE DEF e
<1>8. OnlyEntry(Fun.id)
  BY <1>1, <1>3 DEF OnlyEntry
<1>9. CASE /\ IsNoType(o) /\ fn.position = 0
           /\ functionSymbols' = functionSymbols /\ EnsureType(0) /\ fn' = after
  BY <1>1, <1>2, <1>3, <1>4, <1>5, <1>8, <1>9 DEF o
<1>10. CASE /\ ~(IsNoType(o) /\ fn.position = 0)
            /\ functionSymbols' = [functionSymbols EXCEPT ![Fun.id] = e]
            /\ EnsureType(o) /\ fn' = after2
  <2>1. functionSymbols'[Fun.id] = e
    BY <1>3, <1>10
  <2>. QED
    BY <1>1, <1>2, <1>3, <1>4, <1>6, <1>7, <1>8, <1>10, <2>1 DEF o
<1>. QED
  BY <1>1, <1>9, <1>10

(* ... and its references stay when the rest is filled in. *)
LEMMA EndFunctionEffect ==
  ASSUME TypeInv, EndFunction
  PROVE  LET old == functionSymbols[Fun.id]
             new == functionSymbols'[Fun.id]
         IN  /\ fn # NoFunction /\ fn.step = "arguments" /\ stack = << >>
             /\ fn.next > Len(Fun.arguments)
             /\ fn' = NoFunction
             /\ OnlyEntry(Fun.id)
             /\ new.returnTypeId = old.returnTypeId
             /\ new.argumentCount = old.argumentCount
             /\ new.argumentTypeIds = old.argumentTypeIds
             /\ UNCHANGED <<sessionVars, listVars, typeVars>>
<1>. DEFINE old == functionSymbols[Fun.id]
            e1 == [old EXCEPT !.callingConvention = Convention[Fun.convention]]
            m1 == [functionSymbols EXCEPT ![Fun.id] = e1]
            e2 == [m1[Fun.id] EXCEPT !.virtualAddress = Fun.address]
            m2 == [m1 EXCEPT ![Fun.id] = e2]
<1>1. /\ fn.step = "arguments" /\ stack = << >> /\ fn' = NoFunction
      /\ fn.next > Len(Fun.arguments)
      /\ UNCHANGED <<sessionVars, listVars, typeVars>>
  BY DEF EndFunction, AtFunction
<1>2. functionSymbols' = m2
  BY DEF EndFunction
<1>3. fn # NoFunction /\ Fun.id \in DOMAIN functionSymbols /\ old \in FunctionSymbols(Names)
  BY <1>1, FunTyped DEF NoFunction
<1>4. Convention[Fun.convention] \in CallingConventions
  <2>1. Fun.convention \in CallConventions
    BY <1>3, FunTyped
  <2>. QED
    BY <2>1 DEF CallConventions, Convention, CallingConventions
<1>. HIDE DEF old
<1>5. /\ e1 \in FunctionSymbols(Names)
      /\ e1.returnTypeId = old.returnTypeId /\ e1.argumentTypeIds = old.argumentTypeIds
      /\ e1.argumentCount = old.argumentCount
  BY <1>3, <1>4 DEF FunctionSymbols
<1>. HIDE DEF e1
<1>6. /\ DOMAIN m1 = DOMAIN functionSymbols /\ m1[Fun.id] = e1
      /\ \A f \in DOMAIN functionSymbols \ {Fun.id} : m1[f] = functionSymbols[f]
  BY <1>3
<1>. HIDE DEF m1
<1>7. /\ e2.returnTypeId = old.returnTypeId /\ e2.argumentTypeIds = old.argumentTypeIds
      /\ e2.argumentCount = old.argumentCount
  BY <1>5, <1>6 DEF FunctionSymbols
<1>. HIDE DEF e2
<1>8. /\ DOMAIN m2 = DOMAIN functionSymbols /\ m2[Fun.id] = e2
      /\ \A f \in DOMAIN functionSymbols \ {Fun.id} : m2[f] = functionSymbols[f]
  BY <1>3, <1>6
<1>. HIDE DEF m2
<1>. QED
  BY <1>1, <1>2, <1>3, <1>7, <1>8 DEF OnlyEntry, old

-----------------------------------------------------------------------------
(* The lists *)

(* The two halves of MapInv. *)
TypesInv ==
  /\ PointerInv /\ PointerNamesDistinct /\ ReentryThroughTypedef
  /\ \A t \in DOMAIN typeSymbols : SymbolResolves(typeSymbols[t])
  /\ \A i \in 1..Len(stack) : FrameResolves(stack[i])

FunctionsInv ==
  \A f \in DOMAIN functionSymbols :
    \A id \in FunctionReferences(functionSymbols[f]) : Resolves(id)

(* The invariant is about the types and about the functions. *)
LEMMA Halves == MapInv <=> TypesInv /\ FunctionsInv
  BY DEF MapInv, ReferenceInv, TypesInv, FunctionsInv

(* CreateTypeSymbol called for a list. *)
LEMMA RootCreateMap ==
  ASSUME TypeInv, MapInv, stack = << >>, NEW o \in DOMAIN pdb.symbols \cup {0},
         CreateTypeSymbol(o, << >>), pdb' = pdb, s_counter' = s_counter
  PROVE  /\ TypesInv'
         /\ DOMAIN typeSymbols \subseteq DOMAIN typeSymbols'
         /\ (o # 0 /\ Sym(o).hasId) => Resolves(o)'
<1>1. /\ DOMAIN typeSymbols \subseteq DOMAIN typeSymbols'
      /\ \A t \in DOMAIN typeSymbols : typeSymbols'[t] = typeSymbols[t]
      /\ \A t \in DOMAIN typeSymbols' \ DOMAIN typeSymbols :
           typeSymbols'[t] = EmptyType(NoName)
      /\ stack' = << >> \/ stack' = Append(<< >>, Frame(o))
      /\ o # 0 /\ Sym(o).hasId => o \in DOMAIN typeSymbols' \/ Sym(o).tag = "fail"
  BY CreateEffect
<1>2. s_counter \in Nat
  BY DEF TypeInv, StackInv
<1>3. /\ PointerNamesDistinct'
      /\ \A t \in DOMAIN typeSymbols' : typeSymbols'[t].type = "kPointer" =>
           \E n \in 1..s_counter' : typeSymbols'[t].name = PointerName(n)
      /\ \A t \in DOMAIN typeSymbols' : SymbolResolves(typeSymbols'[t])
  BY <1>1, <1>2, NamesKept
<1>4. /\ \A s : SymbolResolves(s) => SymbolResolves(s)'
      /\ \A f : FrameResolves(f) => FrameResolves(f)'
  BY <1>1, ResolvesGrows
<1>5. (\A t \in DOMAIN typeSymbols : SymbolResolves(typeSymbols[t]))'
  BY <1>3, <1>4
<1>6. stack' = << >> \/ stack' = <<Frame(o)>>
  BY <1>1
<1>7. \A i \in 1..Len(stack') : stack'[i] = Frame(o) /\ i = 1
  <2>1. CASE stack' = << >>
    BY <2>1
  <2>2. CASE stack' = <<Frame(o)>>
    BY <2>2
  <2>. QED
    BY <1>6, <2>1, <2>2
<1>8. FrameResolves(Frame(o)) /\ Frame(o).symbol.type # "kPointer"
  BY NewFrame
<1>9. (\A i \in 1..Len(stack) : FrameResolves(stack[i]))'
  BY <1>4, <1>7, <1>8
<1>10. PointerInv'
  BY <1>3, <1>7, <1>8 DEF PointerInv
<1>11. ReentryThroughTypedef'
  <2>1. CASE stack' = << >>
    BY <2>1 DEF ReentryThroughTypedef
  <2>2. CASE stack' = <<Frame(o)>>
    <3>1. DOMAIN stack' = {1}
      BY <2>2
    <3>. QED
      BY <3>1 DEF ReentryThroughTypedef
  <2>. QED
    BY <1>6, <2>1, <2>2
<1>. QED
  BY <1>1, <1>3, <1>5, <1>9, <1>10, <1>11 DEF TypesInv, Resolves, Sym

(* Nothing of the types changes. *)
LEMMA TypesKept ==
  ASSUME TypesInv, pdb' = pdb, typeSymbols' = typeSymbols, stack' = stack,
         s_counter' = s_counter
  PROVE  TypesInv' /\ \A id : Resolves(id) => Resolves(id)'
<1>1. /\ \A id : Resolves(id) => Resolves(id)'
      /\ \A s : SymbolResolves(s) => SymbolResolves(s)'
      /\ \A f : FrameResolves(f) => FrameResolves(f)'
  BY ResolvesGrows
<1>2. PointerInv' /\ PointerNamesDistinct' /\ ReentryThroughTypedef'
  BY DEF TypesInv, PointerInv, PointerNamesDistinct, ReentryThroughTypedef
<1>. QED
  BY <1>1, <1>2 DEF TypesInv

(* The type of a return value or an argument is there afterwards. *)
LEMMA EnsureTypeMap ==
  ASSUME TypeInv, MapInv, stack = << >>, NEW o \in DOMAIN pdb.symbols \cup {0},
         EnsureType(o)
  PROVE  /\ TypesInv'
         /\ pdb' = pdb /\ DOMAIN typeSymbols \subseteq DOMAIN typeSymbols'
         /\ o # 0 => Resolves(Id(o))'
<1>0. pdb' = pdb /\ s_counter' = s_counter
  BY DEF EnsureType, sessionVars
<1>1. CASE o = 0 \/ Id(o) \in DOMAIN typeSymbols
  <2>1. typeSymbols' = typeSymbols /\ stack' = stack
    BY <1>1 DEF EnsureType
  <2>2. TypesInv'
    BY <1>0, <2>1, TypesKept, Halves
  <2>. QED
    BY <1>0, <1>1, <2>1, <2>2 DEF Resolves, Id, Sym
<1>2. CASE ~(o = 0 \/ Id(o) \in DOMAIN typeSymbols)
  <2>1. CreateTypeSymbol(o, << >>)
    BY <1>2 DEF EnsureType
  <2>2. /\ TypesInv' /\ DOMAIN typeSymbols \subseteq DOMAIN typeSymbols'
        /\ (o # 0 /\ Sym(o).hasId) => Resolves(o)'
    BY <1>0, <2>1, RootCreateMap
  <2>3. CASE Sym(o).hasId
    BY <1>0, <1>2, <2>2, <2>3 DEF Id, Sym
  <2>4. CASE ~Sym(o).hasId
    BY <1>0, <1>2, <2>2, <2>4 DEF Id, Sym, Resolves
  <2>. QED
    BY <1>0, <2>2, <2>3, <2>4
<1>. QED
  BY <1>1, <1>2

(* The entries but one are as they were, and that one resolves. *)
LEMMA EntryResolves ==
  ASSUME MapInv, pdb' = pdb, DOMAIN typeSymbols \subseteq DOMAIN typeSymbols', NEW k,
         DOMAIN functionSymbols' \subseteq DOMAIN functionSymbols \cup {k},
         \A f \in DOMAIN functionSymbols \ {k} : functionSymbols'[f] = functionSymbols[f],
         \A id \in FunctionReferences(functionSymbols'[k]) : Resolves(id)'
  PROVE  FunctionsInv'
<1>1. \A id : Resolves(id) => Resolves(id)'
  BY ResolvesGrows
<1>. SUFFICES ASSUME NEW f \in DOMAIN functionSymbols',
                     NEW id \in FunctionReferences(functionSymbols'[f])
              PROVE  Resolves(id)'
  BY DEF FunctionsInv
<1>2. CASE f = k
  BY <1>2
<1>3. CASE f # k
  BY <1>1, <1>3, Halves DEF FunctionsInv
<1>. QED
  BY <1>2, <1>3

(* Every step of BuildFunctionList keeps the map in order. *)
LEMMA FunctionStepMap ==
  ASSUME TypeInv, MapInv, FunctionStep
  PROVE  MapInv'
<1>0. TypesInv /\ FunctionsInv
  BY Halves
<1>1. ASSUME NEW h \in DOMAIN pdb.functions, BeginFunction(h)
      PROVE  MapInv'
  <2>. DEFINE k == pdb.functions[h].id
  <2>1. /\ pdb' = pdb /\ typeSymbols' = typeSymbols /\ stack' = stack
        /\ s_counter' = s_counter
    BY <1>1 DEF BeginFunction, sessionVars, typeVars
  <2>2. TypesInv' /\ \A id : Resolves(id) => Resolves(id)'
    BY <1>0, <2>1, TypesKept
  <2>3. /\ DOMAIN functionSymbols' = DOMAIN functionSymbols \cup {k}
        /\ \A g \in DOMAIN functionSymbols \ {k} : functionSymbols'[g] = functionSymbols[g]
    BY <1>1, BeginFunctionEffect
  <2>4. \A id \in FunctionReferences(functionSymbols'[k]) : Resolves(id)'
    <3>1. CASE k \in DOMAIN functionSymbols
      <4>1. /\ functionSymbols'[k].returnTypeId = functionSymbols[k].returnTypeId
            /\ functionSymbols'[k].argumentTypeIds = functionSymbols[k].argumentTypeIds
        BY <1>1, <3>1, BeginFunctionEffect
      <4>2. FunctionReferences(functionSymbols'[k]) = FunctionReferences(functionSymbols[k])
        BY <4>1 DEF FunctionReferences
      <4>. QED
        BY <1>0, <2>2, <3>1, <4>2 DEF FunctionsInv
    <3>2. CASE k \notin DOMAIN functionSymbols
      <4>1. /\ functionSymbols'[k].returnTypeId = 0
            /\ functionSymbols'[k].argumentTypeIds = << >>
        BY <1>1, <3>2, BeginFunctionEffect
      <4>2. FunctionReferences(functionSymbols'[k]) = {0}
        BY <4>1 DEF FunctionReferences
      <4>. QED
        BY <4>2 DEF Resolves
    <3>. QED
      BY <3>1, <3>2
  <2>. HIDE DEF k
  <2>5. FunctionsInv'
    BY <2>1, <2>3, <2>4, EntryResolves
  <2>. QED
    BY <2>2, <2>5 DEF MapInv, ReferenceInv, TypesInv, FunctionsInv
<1>2. ASSUME fn # NoFunction, stack = << >>, NEW o \in DOMAIN pdb.symbols \cup {0},
             EnsureType(o), OnlyEntry(Fun.id),
             \A id \in FunctionReferences(functionSymbols'[Fun.id]) :
               \/ id \in FunctionReferences(functionSymbols[Fun.id])
               \/ o # 0 /\ id = Id(o)
      PROVE  MapInv'
  <2>1. /\ TypesInv' /\ pdb' = pdb /\ DOMAIN typeSymbols \subseteq DOMAIN typeSymbols'
        /\ o # 0 => Resolves(Id(o))'
    BY <1>2, EnsureTypeMap
  <2>2. \A id : Resolves(id) => Resolves(id)'
    BY <2>1, ResolvesGrows
  <2>3. Id(o)' = Id(o)
    BY <2>1 DEF Id, Sym
  <2>4. \A id \in FunctionReferences(functionSymbols[Fun.id]) : Resolves(id)
    BY <1>0, <1>2, FunTyped DEF FunctionsInv
  <2>5. \A id \in FunctionReferences(functionSymbols'[Fun.id]) : Resolves(id)'
    <3>1. o # 0 => \A id : id = Id(o) => Resolves(id)'
      BY <2>1, <2>3
    <3>. QED
      BY <1>2, <2>2, <2>4, <3>1
  <2>. PICK k : k = Fun.id
    OBVIOUS
  <2>6. FunctionsInv'
    BY <1>2, <2>1, <2>5, EntryResolves DEF OnlyEntry
  <2>. QED
    BY <2>1, <2>6 DEF MapInv, ReferenceInv, TypesInv, FunctionsInv
<1>3. CASE ReturnType
  <2>. DEFINE old == functionSymbols[Fun.id]
              new == functionSymbols'[Fun.id]
              r == Fun.returnType
  <2>1. /\ fn # NoFunction /\ stack = << >> /\ EnsureType(r) /\ OnlyEntry(Fun.id)
        /\ new.argumentTypeIds = old.argumentTypeIds
        /\ new.returnTypeId = old.returnTypeId
             \/ (r # 0 /\ Sym(r).hasId /\ new.returnTypeId = r)
    BY <1>3, ReturnTypeEffect
  <2>2. r \in DOMAIN pdb.symbols \cup {0}
    BY <2>1, FunTyped
  <2>3. \A id \in FunctionReferences(new) : id \in FunctionReferences(old) \/ (r # 0 /\ id = Id(r))
    BY <2>1 DEF FunctionReferences, Id
  <2>. QED
    BY <1>2, <2>1, <2>2, <2>3
<1>4. CASE ThisArgument
  <2>. DEFINE old == functionSymbols[Fun.id]
              new == functionSymbols'[Fun.id]
              ids == IF Fun.this = 0 THEN << >> ELSE <<Id(Fun.this)>>
  <2>1. /\ fn # NoFunction /\ stack = << >> /\ OnlyEntry(Fun.id)
        /\ new.returnTypeId = old.returnTypeId
        /\ \/ EnsureType(Fun.this) /\ new.argumentTypeIds = old.argumentTypeIds \o ids
           \/ EnsureType(0) /\ new.argumentTypeIds = old.argumentTypeIds
    BY <1>4, ThisArgumentEffect
  <2>2. /\ Fun.this \in DOMAIN pdb.symbols \cup {0}
        /\ old.argumentTypeIds \in Seq(Nat)
    BY <2>1, FunTyped DEF FunctionSymbols
  <2>3. CASE EnsureType(Fun.this) /\ new.argumentTypeIds = old.argumentTypeIds \o ids
    <3>. PICK this : this = Fun.this
      OBVIOUS
    <3>. PICK a : a = old.argumentTypeIds
      OBVIOUS
    <3>1. \A i \in DOMAIN (a \o ids) :
            \/ i \in DOMAIN a /\ (a \o ids)[i] = a[i]
            \/ this # 0 /\ (a \o ids)[i] = Id(this)
      <4>1. CASE this = 0
        BY <2>2, <4>1
      <4>2. CASE this # 0
        <5>1. Id(this) \in Nat
          BY <2>2, <4>2, IdTyped
        <5>. PICK x : x = Id(this)
          OBVIOUS
        <5>2. ids = <<x>>
          BY <4>2
        <5>3. \A i \in DOMAIN (a \o <<x>>) :
                (i \in DOMAIN a /\ (a \o <<x>>)[i] = a[i]) \/ (a \o <<x>>)[i] = x
          BY <2>2, <5>1
        <5>. QED
          BY <4>2, <5>2, <5>3
      <4>. QED
        BY <4>1, <4>2
    <3>. HIDE DEF ids
    <3>2. \A id \in FunctionReferences(new) :
            id \in FunctionReferences(old) \/ (Fun.this # 0 /\ id = Id(Fun.this))
      BY <2>1, <2>3, <3>1 DEF FunctionReferences
    <3>. QED
      BY <1>2, <2>1, <2>2, <2>3, <3>2
  <2>4. CASE EnsureType(0) /\ new.argumentTypeIds = old.argumentTypeIds
    <3>1. \A id \in FunctionReferences(new) : id \in FunctionReferences(old)
      BY <2>1, <2>4 DEF FunctionReferences
    <3>. QED
      BY <1>2, <2>1, <2>4, <3>1
  <2>. QED
    BY <2>1, <2>3, <2>4
<1>5. CASE Argument
  <2>. DEFINE old == functionSymbols[Fun.id]
              new == functionSymbols'[Fun.id]
              o == Fun.arguments[fn.next]
  <2>1. /\ fn # NoFunction /\ stack = << >> /\ OnlyEntry(Fun.id) /\ o \in DOMAIN pdb.symbols
        /\ new.returnTypeId = old.returnTypeId
        /\ \/ EnsureType(o) /\ new.argumentTypeIds = Append(old.argumentTypeIds, Id(o))
           \/ EnsureType(0) /\ new.argumentTypeIds = old.argumentTypeIds
    BY <1>5, ArgumentEffect
  <2>2. /\ old.argumentTypeIds \in Seq(Nat)
        /\ o # 0 /\ Id(o) \in Nat
    BY <2>1, FunTyped, IdTyped, SymbolAnswers DEF FunctionSymbols, TypeInv, SessionInv
  <2>. HIDE DEF o
  <2>3. CASE EnsureType(o) /\ new.argumentTypeIds = Append(old.argumentTypeIds, Id(o))
    <3>. PICK a : a = old.argumentTypeIds
      OBVIOUS
    <3>. PICK x : x = Id(o)
      OBVIOUS
    <3>1. \A i \in DOMAIN Append(a, x) :
            (i \in DOMAIN a /\ Append(a, x)[i] = a[i]) \/ Append(a, x)[i] = x
      <4>1. /\ DOMAIN a = 1..Len(a) /\ Len(a) \in Nat
            /\ DOMAIN Append(a, x) = 1..(Len(a) + 1)
            /\ Append(a, x)[Len(a) + 1] = x
            /\ \A i \in 1..Len(a) : Append(a, x)[i] = a[i]
        BY <2>2, LenProperties, AppendProperties
      <4>2. \A i \in 1..(Len(a) + 1) : i \in 1..Len(a) \/ i = Len(a) + 1
        BY <4>1
      <4>. QED
        BY <4>1, <4>2
    <3>2. \A id \in FunctionReferences(new) :
            id \in FunctionReferences(old) \/ id = Id(o)
      BY <2>1, <2>3, <3>1 DEF FunctionReferences
    <3>. QED
      BY <1>2, <2>1, <2>2, <2>3, <3>2
  <2>4. CASE EnsureType(0) /\ new.argumentTypeIds = old.argumentTypeIds
    <3>1. \A id \in FunctionReferences(new) : id \in FunctionReferences(old)
      BY <2>1, <2>4 DEF FunctionReferences
    <3>. QED
      BY <1>2, <2>1, <2>4, <3>1
  <2>. QED
    BY <2>1, <2>3, <2>4
<1>6. CASE EndFunction
  <2>. DEFINE old == functionSymbols[Fun.id]
              new == functionSymbols'[Fun.id]
  <2>1. /\ fn # NoFunction /\ OnlyEntry(Fun.id)
        /\ new.returnTypeId = old.returnTypeId /\ new.argumentTypeIds = old.argumentTypeIds
        /\ UNCHANGED <<sessionVars, listVars, typeVars>>
    BY <1>6, EndFunctionEffect
  <2>2. /\ pdb' = pdb /\ typeSymbols' = typeSymbols /\ stack' = stack
        /\ s_counter' = s_counter
    BY <2>1 DEF sessionVars, typeVars
  <2>3. TypesInv' /\ \A id : Resolves(id) => Resolves(id)'
    BY <1>0, <2>2, TypesKept
  <2>4. FunctionReferences(new) = FunctionReferences(old)
    BY <2>1 DEF FunctionReferences
  <2>5. \A id \in FunctionReferences(new) : Resolves(id)'
    BY <1>0, <2>1, <2>3, <2>4, FunTyped DEF FunctionsInv
  <2>. PICK k : k = Fun.id
    OBVIOUS
  <2>6. FunctionsInv'
    BY <2>1, <2>2, <2>5, EntryResolves DEF OnlyEntry
  <2>. QED
    BY <2>3, <2>6 DEF MapInv, ReferenceInv, TypesInv, FunctionsInv
<1>. QED
  BY <1>1, <1>3, <1>4, <1>5, <1>6 DEF FunctionStep

-----------------------------------------------------------------------------
(* All steps *)

(* With an empty map and no calls there is nothing to resolve. *)
LEMMA NothingToResolve ==
  ASSUME typeSymbols = EmptyMap, functionSymbols = EmptyMap, stack = << >>
  PROVE  MapInv
<1>1. DOMAIN typeSymbols = {} /\ DOMAIN functionSymbols = {} /\ DOMAIN stack = {}
      /\ 1..Len(stack) = {}
  BY DEF EmptyMap
<1>. QED
  BY <1>1 DEF MapInv, PointerInv, PointerNamesDistinct, ReentryThroughTypedef, ReferenceInv

(* The same for the state a call begins in. *)
LEMMA NothingToResolvePrimed ==
  ASSUME typeSymbols' = EmptyMap, functionSymbols' = EmptyMap, stack' = << >>
  PROVE  MapInv'
<1>1. DOMAIN typeSymbols' = {} /\ DOMAIN functionSymbols' = {} /\ DOMAIN stack' = {}
      /\ 1..Len(stack') = {}
  BY DEF EmptyMap
<1>. QED
  BY <1>1 DEF MapInv, PointerInv, PointerNamesDistinct, ReentryThroughTypedef, ReferenceInv

(* Every step keeps the invariant of the maps. *)
LEMMA NextMap == TypeInv /\ TypeInv' /\ MapInv /\ [Next]_vars => MapInv'
<1>. SUFFICES ASSUME TypeInv, TypeInv', MapInv, [Next]_vars
              PROVE  MapInv'
  OBVIOUS
<1>0. TypesInv /\ FunctionsInv
  BY Halves
<1>1. ASSUME pdb' = pdb, typeSymbols' = typeSymbols, stack' = stack,
             s_counter' = s_counter, functionSymbols' = functionSymbols
      PROVE  MapInv'
  <2>1. TypesInv' /\ \A id : Resolves(id) => Resolves(id)'
    BY <1>0, <1>1, TypesKept
  <2>2. FunctionsInv'
    BY <1>0, <1>1, <2>1 DEF FunctionsInv
  <2>. QED
    BY <2>1, <2>2 DEF MapInv, ReferenceInv, TypesInv, FunctionsInv
<1>2. ASSUME NEW p \in Pdbs, NEW failing \in Failures, InitializeDia(p, failing)
      PROVE  MapInv'
  <2>1. pc = "idle" /\ typeSymbols' = EmptyMap /\ functionSymbols' = EmptyMap /\ stack' = stack
    BY <1>2 DEF InitializeDia
  <2>2. stack = << >>
    BY <2>1 DEF TypeInv, StackInv, ListInv
  <2>. QED
    BY <2>1, <2>2, NothingToResolvePrimed
<1>3. CASE Throw
  BY <1>3, NothingToResolvePrimed DEF Throw
<1>4. CASE BuildHeader
  BY <1>1, <1>4 DEF BuildHeader, functionVars, typeVars
<1>5. CASE BeginList
  BY <1>1, <1>5 DEF BeginList, sessionVars, functionVars, typeVars
<1>6. ASSUME NEW o \in DOMAIN pdb.symbols, BuildTypeList(o)
      PROVE  MapInv'
  <2>1. /\ stack = << >> /\ CreateTypeSymbol(o, << >>)
        /\ pdb' = pdb /\ s_counter' = s_counter /\ functionSymbols' = functionSymbols
    BY <1>6 DEF BuildTypeList, sessionVars, functionVars
  <2>2. TypesInv' /\ DOMAIN typeSymbols \subseteq DOMAIN typeSymbols'
    BY <2>1, RootCreateMap
  <2>3. FunctionsInv'
    BY <2>1, <2>2, FunctionsResolve DEF MapInv, FunctionsInv
  <2>. QED
    BY <2>2, <2>3 DEF MapInv, ReferenceInv, TypesInv, FunctionsInv
<1>7. CASE CreateStep
  BY <1>7, CreateStepMap
<1>8. CASE FunctionStep
  BY <1>8, FunctionStepMap
<1>9. CASE ReturnUsym
  BY <1>1, <1>9 DEF ReturnUsym, functionVars, typeVars
<1>10. CASE Catch
  BY <1>1, <1>10 DEF Catch, functionVars, typeVars
<1>11. CASE UNCHANGED vars
  BY <1>1, <1>11 DEF vars, sessionVars, functionVars, typeVars
<1>. QED
  BY <1>2, <1>3, <1>4, <1>5, <1>6, <1>7, <1>8, <1>9, <1>10, <1>11 DEF Next, BuildStep

(* A processor that was never called has nothing in its maps. *)
LEMMA InitMap == Init => MapInv
  BY NothingToResolve DEF Init

(* The invariant of the maps holds in every state. *)
LEMMA MapInvHolds == Spec => []MapInv
  BY InitMap, NextMap, TypeInvHolds, PTL DEF Spec

(* No two pointer types share a generated name, however many calls of
   CreateUsymFromFile there are (GeneratePointerName, CreatePointerTypeSymbol). *)
THEOREM PointersNeverShareAName == Spec => []PointerNamesDistinct
<1>1. MapInv => PointerNamesDistinct
  BY DEF MapInv
<1>. QED
  BY <1>1, MapInvHolds, PTL

(* However types refer to each other, CreateTypeSymbol re-enters a type that
   is in progress only through a typedef (CreateFieldSymbol,
   CreateTypedefSymbol). *)
THEOREM ReentryOnlyThroughTypedef == Spec => []ReentryThroughTypedef
<1>1. MapInv => ReentryThroughTypedef
  BY DEF MapInv
<1>. QED
  BY <1>1, MapInvHolds, PTL

(* VerifyTypeIds holds of every USYM that is handed out, but for types whose
   tag cannot be read (CreateTypeSymbol, BuildFunctionList). *)
THEOREM EveryReferenceResolves == Spec => []ReferencesResolve
<1>1. MapInv => ReferencesResolve
  BY DEF MapInv, ReferenceInv, ReferencesResolve, SymbolResolves
<1>. QED
  BY <1>1, MapInvHolds, PTL

=============================================================================
