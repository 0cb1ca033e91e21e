------------------------- MODULE ElfInterfaceProofs -------------------------
(***************************************************************************)
(* Proofs about ElfInterface, for any files and any number of calls: what  *)
(* a call logs is a function of the words it has read, and for a           *)
(* well-formed ELF64 file that function gives the names of its symbols and *)
(* never leaves the buffer.                                                *)
(***************************************************************************)
EXTENDS ElfInterface, TLAPS, SequenceTheorems

-----------------------------------------------------------------------------
(* What the parser makes of the words it has read *)

ParsedHeader(words) ==
  Header(Read(words, 0, Layout(IsClass64(words)).ehdr), Layout(IsClass64(words)))

ParsedSections(words) ==
  << >> \o Sections(words, ParsedHeader(words), Layout(IsClass64(words)))

ParsedNames(words) == NamedSections(words, ParsedHeader(words), ParsedSections(words))

ParsedCount(words) == Count(ParsedNames(words), IsClass64(words))

ParsedSymbols(words) == << >> \o Symbols(words, ParsedNames(words), ParsedCount(words))

ParsedLog(words) == [i \in DOMAIN ParsedSymbols(words) |-> ParsedSymbols(words)[i].name]

(* The inductive invariant: whatever s_elf held before, the parts of it that
   the next functions look at come from the words of this call. *)
ParseInv ==
  /\ DOMAIN elf = {"is64Bit", "header", "program", "sections", "symbols"}
  /\ elf = [x \in DOMAIN elf |-> elf[x]]
  /\ pc \in {"ReadElfProgramHeader", "ReadSectionHeaders", "ReadSymbols", "Log"} =>
       elf.is64Bit = IsClass64(data)
  /\ pc \in {"ReadSectionHeaders", "ReadSymbols", "Log"} => elf.header = ParsedHeader(data)
  /\ pc = "ReadSymbols" => elf.sections = ParsedSections(data)
  /\ pc = "Log" => elf.symbols = ParsedSymbols(data)
  /\ result = "usym" => logged = ParsedLog(data)
  /\ \A x \in seen : x[2] = ParsedLog(x[1])

(* Every call, from whatever an earlier one left, keeps the invariant. *)
LEMMA ParseInvariant == Spec => []ParseInv
<1>1. Init => ParseInv
  BY DEF Init, ParseInv
<1>2. ParseInv /\ [Next]_vars => ParseInv'
  <2>. SUFFICES ASSUME ParseInv, [Next]_vars
                PROVE  ParseInv'
    OBVIOUS
  <2>1. CASE LoadFromFile
    <3>1. /\ elf' = elf /\ seen' = seen /\ result' \in {"nullopt", "exception", "none"}
          /\ pc' \in {"idle", "ReadFileClass"}
      BY <2>1 DEF LoadFromFile, Fail
    <3>. QED
      BY <3>1 DEF ParseInv
  <2>2. CASE ReadFileClass
    BY <2>2 DEF ParseInv, ReadFileClass
  <2>3. CASE Undefined
    BY <2>3 DEF ParseInv, Undefined
  <2>4. CASE ReadElfProgramHeader
    <3>. DEFINE program == Read(data, ParsedHeader(data).e_phoff, Layout(IsClass64(data)).phdr)
    <3>0. elf.is64Bit = IsClass64(data)
      BY <2>4 DEF ParseInv, ReadElfProgramHeader
    <3>1. CASE ~Undefined
      <4>1. /\ elf' = [elf EXCEPT !.header = ParsedHeader(data), !.program = program]
            /\ pc' = "ReadSectionHeaders"
            /\ UNCHANGED <<data, logged, result, seen>>
        BY <2>4, <3>0, <3>1 DEF ReadElfProgramHeader, ParsedHeader
      <4>. HIDE DEF program
      <4>. QED
        BY <4>1, <3>0 DEF ParseInv
    <3>. QED
      BY <2>3, <3>1
  <2>5. CASE ReadSectionHeaders
    <3>0. elf.is64Bit = IsClass64(data) /\ elf.header = ParsedHeader(data)
      BY <2>5 DEF ParseInv, ReadSectionHeaders
    <3>1. CASE ~Undefined
      <4>1. /\ elf' = [elf EXCEPT !.sections = ParsedSections(data)]
            /\ pc' = "ReadSymbols"
            /\ UNCHANGED <<data, logged, result, seen>>
        BY <2>5, <3>0, <3>1 DEF ReadSectionHeaders, ParsedSections, Cleared
      <4>. QED
        BY <4>1, <3>0 DEF ParseInv
    <3>. QED
      BY <2>3, <3>1
  <2>6. CASE ReadSymbols
    <3>0. /\ elf.is64Bit = IsClass64(data) /\ elf.header = ParsedHeader(data)
          /\ elf.sections = ParsedSections(data)
      BY <2>6 DEF ParseInv, ReadSymbols
    <3>1. CASE ~Undefined
      <4>1. \/ /\ elf' = [elf EXCEPT !.sections = ParsedNames(data), !.symbols = << >>]
               /\ Fail("exception")
               /\ UNCHANGED <<data, logged, seen>>
            \/ /\ elf' = [elf EXCEPT !.sections = ParsedNames(data),
                                     !.symbols = ParsedSymbols(data)]
               /\ pc' = "Log"
               /\ UNCHANGED <<data, logged, result, seen>>
        BY <2>6, <3>0, <3>1
        DEF ReadSymbols, ParsedSymbols, ParsedCount, ParsedNames, Cleared
      <4>. QED
        BY <4>1, <3>0 DEF ParseInv, Fail
    <3>. QED
      BY <2>3, <3>1
  <2>7. CASE Log
    <3>1. logged' = ParsedLog(data)
      BY <2>7 DEF ParseInv, Log, ParsedLog
    <3>. QED
      BY <2>7, <3>1 DEF ParseInv, Log
  <2>8. CASE UNCHANGED vars
    BY <2>8 DEF ParseInv, vars
  <2>. QED
    BY <2>1, <2>2, <2>4, <2>5, <2>6, <2>7, <2>8 DEF Next
<1>. QED
  BY <1>1, <1>2, PTL DEF Spec

(* What is logged depends on the words that were read only, whatever files
   the static parser was given before and however those calls ended
   (s_elf, ReadSectionHeaders, ReadSymbols). *)
THEOREM LogAlwaysDependsOnDataOnly == Spec => []LogDependsOnDataOnly
<1>1. ParseInv => LogDependsOnDataOnly
  BY DEF ParseInv, LogDependsOnDataOnly
<1>. QED
  BY <1>1, ParseInvariant, PTL

-----------------------------------------------------------------------------
(* Well-formed ELF64 files *)

(* 2^32 and 2^64 are positive. *)
LEMMA Widths == Word \in Nat \ {0} /\ AddressSpace \in Nat \ {0}
<1>1. \A a \in Nat \ {0} : a * a \in Nat \ {0}
  OBVIOUS
<1>2. Half \in Nat \ {0}
  BY HalfAssumption
<1>3. Word \in Nat \ {0}
  BY <1>1, <1>2 DEF Word
<1>. QED
  BY <1>1, <1>3 DEF AddressSpace

(* A read inside of the buffer succeeds. *)
LEMMA ReadInside ==
  ASSUME NEW words, Len(words) \in Nat, Len(words) < AddressSpace,
         NEW at \in Nat, NEW length \in Nat, at + length <= Len(words)
  PROVE  /\ Read(words, at, length) = Slice(words, at, length)
         /\ ~IsWild(words, at, length)
<1>1. at + length \in Nat /\ at + length < AddressSpace
  BY Widths
<1>2. (at + length) % AddressSpace = at + length
  BY <1>1, Widths
<1>. QED
  BY <1>2 DEF Read, IsWild, IsOverflow

(* A part of a file, word by word. *)
LEMMA Part ==
  ASSUME NEW words \in Seq(0..(Word - 1)), NEW at \in Nat, NEW length \in Nat \ {0},
         at + length <= Len(words)
  PROVE  /\ Slice(words, at, length) \in Seq(0..(Word - 1))
         /\ Len(Slice(words, at, length)) = length
         /\ \A i \in 1..length : /\ Slice(words, at, length)[i] = words[at + i]
                                /\ Slice(words, at, length)[i] \in Nat
<1>. DEFINE m == at + 1
            n == at + length
<1>1. m \in 1..(Len(words) + 1) /\ n \in (m - 1)..Len(words)
  BY LenProperties
<1>2. \A i \in m..n : words[i] \in 0..(Word - 1)
  <2>. TAKE i \in m..n
  <2>1. i \in 1..Len(words)
    BY <1>1, LenProperties
  <2>. QED
    BY <2>1, ElementOfSeq
<1>3. m \in Int /\ n \in Int /\ m <= n /\ n - m + 1 = length
  OBVIOUS
<1>4. \A i \in 1..length : m + i - 1 = at + i
  OBVIOUS
<1>. DEFINE part == SubSeq(words, m, n)
<1>. HIDE DEF m, n
<1>5. /\ part \in Seq(0..(Word - 1))
      /\ Len(part) = IF m <= n THEN n - m + 1 ELSE 0
      /\ \A i \in 1..(n - m + 1) : part[i] = words[m + i - 1]
  BY <1>2, <1>3, SubSeqProperties
<1>6. part = Slice(words, at, length)
  BY DEF Slice, m, n
<1>. HIDE DEF part
<1>7. Len(part) = length /\ \A i \in 1..length : part[i] = words[at + i]
  BY <1>3, <1>4, <1>5
<1>8. \A i \in 1..length : part[i] \in Nat
  <2>. TAKE i \in 1..length
  <2>1. part[i] \in 0..(Word - 1)
    BY <1>5, <1>7, ElementOfSeq
  <2>. QED
    BY <2>1, Widths
<1>. QED
  BY <1>5, <1>6, <1>7, <1>8

(* Offsets are natural numbers. *)
LEMMA HeaderTyped ==
  ASSUME NEW words, \A i \in 1..16 : words[i] \in Nat
  PROVE  /\ Header(words, Elf64).e_phoff \in Nat
         /\ Header(words, Elf64).e_shoff \in Nat
         /\ Header(words, Elf64).e_shnum \in Nat
         /\ Header(words, Elf64).e_shstrndx \in Nat
         /\ Section(words, Elf64).sh_offset \in Nat
         /\ Section(words, Elf64).sh_size \in Nat
         /\ Section(words, Elf64).sh_name \in Nat
<1>1. \A at \in {6, 8, 10} : Offset(words, at, Elf64) \in Nat
  <2>. TAKE at \in {6, 8, 10}
  <2>1. words[at + 1] \in Nat /\ words[at + 2] \in Nat
    OBVIOUS
  <2>2. \A a, b \in Nat : a * b \in Nat
    OBVIOUS
  <2>3. Word * words[at + 2] \in Nat
    BY <2>1, <2>2, Widths
  <2>4. Offset(words, at, Elf64) = words[at + 1] + Word * words[at + 2]
    BY DEF Offset, Elf64
  <2>. QED
    BY <2>1, <2>3, <2>4
<1>2. \A a \in Nat : a % Half \in Nat /\ a \div Half \in Nat
  BY HalfAssumption
<1>3. words[1] \in Nat /\ words[16] \in Nat
  OBVIOUS
<1>4. Elf64.phoff = 8 /\ Elf64.shoff = 10 /\ Elf64.counts + 1 = 16 /\ Elf64.offset = 6
      /\ Elf64.size = 8
  BY DEF Elf64
<1>. QED
  BY <1>1, <1>2, <1>3, <1>4 DEF Header, Section

(* A well-formed ELF64 file: the parser reads what the format says. *)
LEMMA ElfParsed ==
  ASSUME NEW words, NEW names, IsElf(Elf64, words, names)
  PROVE  /\ IsClass64(words)
         /\ ParsedHeader(words) = Header(Slice(words, 0, 16), Elf64)
         /\ ~IsWild(words, ParsedHeader(words).e_phoff, Elf64.phdr)
         /\ ParsedHeader(words).e_shnum > 0 =>
              ~IsWild(words, ParsedHeader(words).e_shoff, Elf64.shdr)
<1>. DEFINE header == Header(Slice(words, 0, 16), Elf64)
<1>0. /\ Elf64.ehdr = 16 /\ Elf64.phdr = 14 /\ Elf64.shdr = 16 /\ Elf64.wide
      /\ Layout(TRUE) = Elf64
  BY DEF Elf64, Layout
<1>1. /\ words \in Seq(0..(Word - 1)) /\ 16 <= Len(words) /\ Len(words) < AddressSpace
      /\ words[2] = ELFCLASS64
      /\ header.e_phoff + 14 <= Len(words)
      /\ header.e_shoff + header.e_shnum * 16 <= Len(words)
  BY <1>0 DEF IsElf
<1>2. Len(words) \in Nat
  BY <1>1, LenProperties
<1>3. IsClass64(words)
  <2>1. Read(words, 1, 1) = Slice(words, 1, 1)
    BY <1>1, <1>2, ReadInside
  <2>2. Slice(words, 1, 1)[1] = words[2]
    <3>1. PICK at \in Nat, length \in Nat \ {0} : at = 1 /\ length = 1
      OBVIOUS
    <3>2. at + length <= Len(words)
      BY <1>1, <1>2, <3>1
    <3>3. \A i \in 1..length : Slice(words, at, length)[i] = words[at + i]
      BY <1>1, <3>2, Part
    <3>. QED
      BY <3>1, <3>3
  <2>. QED
    BY <1>1, <2>1, <2>2 DEF IsClass64
<1>4. Layout(IsClass64(words)) = Elf64
  BY <1>0, <1>3
<1>5. ParsedHeader(words) = header
  <2>1. Read(words, 0, 16) = Slice(words, 0, 16)
    BY <1>1, <1>2, ReadInside
  <2>. QED
    BY <1>0, <1>4, <2>1 DEF ParsedHeader
<1>6. header.e_phoff \in Nat /\ header.e_shoff \in Nat /\ header.e_shnum \in Nat
  <2>1. \A i \in 1..16 : Slice(words, 0, 16)[i] \in Nat
    BY <1>1, <1>2, Part
  <2>. QED
    BY <2>1, HeaderTyped
<1>. HIDE DEF header
<1>7. ~IsWild(words, header.e_phoff, 14)
  BY <1>1, <1>2, <1>6, ReadInside
<1>8. header.e_shnum > 0 => ~IsWild(words, header.e_shoff, 16)
  BY <1>1, <1>2, <1>6, ReadInside
<1>. QED
  BY <1>0, <1>3, <1>5, <1>7, <1>8 DEF header

(* Its sections are those the format describes. *)
LEMMA ElfSections ==
  ASSUME NEW words, NEW names, IsElf(Elf64, words, names)
  PROVE  LET header == ParsedHeader(words)
             At(i) == header.e_shoff + (i - 1) * 16
         IN  /\ header.e_shnum \in Nat /\ header.e_shoff \in Nat
             /\ ParsedSections(words) =
                  [i \in 1..header.e_shnum |->
                     Section(Slice(words, At(i), 16), Elf64)]
             /\ \A i \in 1..header.e_shnum :
                  /\ ParsedSections(words)[i].sh_name \in Nat
                  /\ ParsedSections(words)[i].sh_offset \in Nat
                  /\ ParsedSections(words)[i].sh_size \in Nat
<1>. DEFINE header == ParsedHeader(words)
            count == header.e_shnum
            At(i) == header.e_shoff + (i - 1) * 16
            Entry(i) == Section(Slice(words, At(i), 16), Elf64)
            table == [i \in 1..count |-> Entry(i)]
<1>0. Elf64.shdr = 16 /\ Elf64.ehdr = 16 /\ Layout(TRUE) = Elf64
  BY DEF Elf64, Layout
<1>1. IsClass64(words) /\ header = Header(Slice(words, 0, 16), Elf64)
  BY ElfParsed
<1>2. /\ words \in Seq(0..(Word - 1)) /\ 16 <= Len(words)
      /\ header.e_shoff + header.e_shnum * 16 <= Len(words)
  BY <1>0, <1>1 DEF IsElf
<1>3. Len(words) \in Nat
  BY <1>2, LenProperties
<1>4. header.e_shoff \in Nat /\ count \in Nat
  <2>1. \A i \in 1..16 : Slice(words, 0, 16)[i] \in Nat
    BY <1>2, <1>3, Part
  <2>. QED
    BY <1>1, <2>1, HeaderTyped
<1>. HIDE DEF header
<1>5. ASSUME NEW i \in 1..count
      PROVE  /\ At(i) \in Nat /\ At(i) + 16 <= Len(words)
             /\ Entry(i).sh_name \in Nat /\ Entry(i).sh_offset \in Nat
             /\ Entry(i).sh_size \in Nat
  <2>1. At(i) \in Nat /\ At(i) + 16 <= Len(words)
    BY <1>2, <1>3, <1>4
  <2>. HIDE DEF At
  <2>2. \A k \in 1..16 : Slice(words, At(i), 16)[k] \in Nat
    BY <1>2, <2>1, Part
  <2>. QED
    BY <2>1, <2>2, HeaderTyped
<1>6. Sections(words, header, Elf64) = table
  <2>. DEFINE headers == ReadAll(words, header.e_shoff, 16, count)
  <2>1. \A i \in 1..count : headers[i] = Slice(words, At(i), 16)
    <3>. TAKE i \in 1..count
    <3>1. ~(At(i) + 16 > Len(words))
      BY <1>3, <1>5
    <3>. QED
      BY <3>1 DEF ReadAll
  <2>2. Sections(words, header, Elf64) = [i \in 1..count |-> Section(headers[i], Elf64)]
    BY <1>0 DEF Sections
  <2>. HIDE DEF headers, At
  <2>. QED
    BY <2>1, <2>2
<1>. HIDE DEF Entry
<1>7. << >> \o table = table
  <2>1. table \in Seq({Entry(i) : i \in 1..count})
    BY <1>4
  <2>. QED
    BY <2>1, ConcatEmptySeq
<1>8. ParsedSections(words) = table
  BY <1>0, <1>1, <1>6, <1>7 DEF ParsedSections, header
<1>9. /\ count \in Nat /\ header.e_shoff \in Nat
      /\ ParsedSections(words) = [i \in 1..count |-> Entry(i)]
      /\ \A i \in 1..count :
           /\ ParsedSections(words)[i].sh_name \in Nat
           /\ ParsedSections(words)[i].sh_offset \in Nat
           /\ ParsedSections(words)[i].sh_size \in Nat
  BY <1>4, <1>5, <1>8
<1>. QED
  BY <1>9, Zenon DEF Entry, header

(* A position at which a string begins does not wrap around. *)
LEMMA StringInside ==
  ASSUME NEW words, Len(words) \in Nat, Len(words) < AddressSpace,
         NEW at \in Nat, IsString(words, at)
  PROVE  at % AddressSpace = at
<1>1. PICK i \in (at + 1)..Len(words) : TRUE
  BY DEF IsString, Ends
<1>2. at < AddressSpace
  BY <1>1, Widths
<1>. QED
  BY <1>2, Widths

(* Its sections get the names the format says they have. *)
LEMMA ElfNames ==
  ASSUME NEW words, NEW names, IsElf(Elf64, words, names)
  PROVE  LET header == ParsedHeader(words)
             sections == ParsedSections(words)
             Name(i) == sections[header.e_shstrndx + 1].sh_offset + sections[i].sh_name
         IN  /\ header.e_shstrndx \in 1..(header.e_shnum - 1)
             /\ NamesReadable(words, header, sections)
             /\ DOMAIN ParsedNames(words) = 1..header.e_shnum
             /\ \A i \in 1..header.e_shnum :
                  /\ ParsedNames(words)[i].name = ReadString(words, Name(i))
                  /\ ParsedNames(words)[i].sh_offset = sections[i].sh_offset
                  /\ ParsedNames(words)[i].sh_size = sections[i].sh_size
<1>. DEFINE header == ParsedHeader(words)
            count == header.e_shnum
            At(i) == header.e_shoff + (i - 1) * 16
            Entry(i) == Section(Slice(words, At(i), 16), Elf64)
            sections == ParsedSections(words)
            string == header.e_shstrndx + 1
            Name(i) == sections[string].sh_offset + sections[i].sh_name
            named == ParsedNames(words)
<1>0. Elf64.shdr = 16 /\ Elf64.ehdr = 16
  BY DEF Elf64
<1>1. header = Header(Slice(words, 0, 16), Elf64)
  BY ElfParsed
<1>2. /\ count \in Nat
      /\ sections = [i \in 1..count |-> Entry(i)]
      /\ \A i \in 1..count : sections[i].sh_name \in Nat /\ sections[i].sh_offset \in Nat
  BY ElfSections, Zenon
<1>3. /\ words \in Seq(0..(Word - 1)) /\ Len(words) < AddressSpace
      /\ header.e_shstrndx \in 1..(count - 1)
      /\ \A i \in 1..count : IsString(words, Entry(string).sh_offset + Entry(i).sh_name)
  BY <1>0, <1>1 DEF IsElf
<1>4. string \in 1..count /\ header.e_shstrndx # 0
  BY <1>2, <1>3
<1>. HIDE DEF header, Entry
<1>5. sections[string] = Entry(string) /\ \A i \in 1..count : sections[i] = Entry(i)
  BY <1>2, <1>4
<1>6. Len(words) \in Nat
  BY <1>3, LenProperties
<1>7. ASSUME NEW i \in 1..count
      PROVE  IsString(words, Name(i)) /\ NameAt(header, sections, sections[i]) = Name(i)
  <2>1. Name(i) \in Nat
    <3>1. sections[string].sh_offset \in Nat /\ sections[i].sh_name \in Nat
      BY <1>2, <1>4
    <3>. QED
      BY <3>1
  <2>2. IsString(words, Name(i))
    BY <1>3, <1>5
  <2>3. NameAt(header, sections, sections[i]) = Name(i) % AddressSpace
    BY DEF NameAt, StringSection
  <2>. HIDE DEF Name
  <2>. QED
    BY <1>3, <1>6, <2>1, <2>2, <2>3, StringInside
<1>8. DOMAIN sections = 1..count
  BY <1>2
<1>9. NamesReadable(words, header, sections)
  <2>1. \A i \in DOMAIN sections : /\ string \in DOMAIN sections
                                  /\ IsString(words, NameAt(header, sections, sections[i]))
    BY <1>4, <1>7, <1>8
  <2>. QED
    BY <2>1 DEF NamesReadable, StringSection
<1>10. named = [i \in 1..count |-> [sections[i] EXCEPT
                  !.name = ReadString(words, NameAt(header, sections, sections[i]))]]
  BY <1>4, <1>8 DEF ParsedNames, NamedSections, header
<1>11. DOMAIN named = 1..count
  BY <1>10
<1>12. ASSUME NEW i \in 1..count
       PROVE  /\ named[i].name = ReadString(words, Name(i))
              /\ named[i].sh_offset = sections[i].sh_offset
              /\ named[i].sh_size = sections[i].sh_size
  <2>1. named[i] = [sections[i] EXCEPT !.name = ReadString(words, Name(i))]
    BY <1>7, <1>10
  <2>2. sections[i] = [sh_name |-> sections[i].sh_name, sh_offset |-> sections[i].sh_offset,
                       sh_size |-> sections[i].sh_size, name |-> << >>]
    <3>1. PICK a, b, c : Entry(i) = [sh_name |-> a, sh_offset |-> b, sh_size |-> c,
                                     name |-> << >>]
      BY DEF Entry, Section
    <3>. QED
      BY <1>5, <3>1
  <2>. HIDE DEF Name, sections, named
  <2>. QED
    BY <2>1, <2>2
<1>13. /\ header.e_shstrndx \in 1..(count - 1)
       /\ NamesReadable(words, header, sections)
       /\ DOMAIN named = 1..count
       /\ \A i \in 1..count :
            /\ named[i].name = ReadString(words, Name(i))
            /\ named[i].sh_offset = sections[i].sh_offset
            /\ named[i].sh_size = sections[i].sh_size
  BY <1>3, <1>9, <1>11, <1>12
<1>. QED
  BY <1>13, Zenon DEF header

(* The largest and the smallest element of a set of one. *)
LEMMA OfOne ==
  ASSUME NEW t \in Nat, NEW S, S = {t}
  PROVE  Max(S) = t /\ Min(S) = t
  BY DEF Max, Min

(* Its symbols are read without leaving the buffer, and are those of the
   table. *)
LEMMA ElfSymbols ==
  ASSUME NEW words, NEW names, IsElf(Elf64, words, names)
  PROVE  /\ SymbolsReadable(words, ParsedNames(words), ParsedCount(words))
         /\ ParsedLog(words) = names
<1>. DEFINE header == Header(Slice(words, 0, Elf64.ehdr), Elf64)
            n == header.e_shnum
            At(i) == header.e_shoff + (i - 1) * Elf64.shdr
            Entry(i) == Section(Slice(words, At(i), Elf64.shdr), Elf64)
            string == header.e_shstrndx + 1
            Name(i) == Entry(string).sh_offset + Entry(i).sh_name
            Called(name) == {i \in 1..n : ReadString(words, Name(i)) = <<name>>}
            sections == ParsedSections(words)
            named == ParsedNames(words)
            count == ParsedCount(words)
            symbols == Symbols(words, named, count)
<1>0. Elf64.shdr = 16 /\ Elf64.ehdr = 16 /\ Elf64.sym = 6 /\ Layout(TRUE) = Elf64
  BY DEF Elf64, Layout
<1>1. ParsedHeader(words) = header /\ IsClass64(words)
  BY <1>0, ElfParsed
<1>2. /\ words \in Seq(0..(Word - 1)) /\ Len(words) < AddressSpace
      /\ header.e_shstrndx \in 1..(n - 1)
      /\ names \in Seq(Seq(0..(Word - 1)))
      /\ Called(SymtabName) = {} => names = << >>
      /\ \A t \in Called(SymtabName) :
           /\ Called(SymtabName) = {t}
           /\ Entry(t).sh_size = Len(names) * Elf64.sym
           /\ Entry(t).sh_offset + Entry(t).sh_size <= Len(words)
           /\ \E s \in Called(StrtabName) :
                /\ Called(StrtabName) = {s}
                /\ TableHas(words, Entry(t).sh_offset, Elf64.sym, Entry(s).sh_offset, names)
  BY Zenon DEF IsElf
<1>3. /\ n \in Nat
      /\ sections = [i \in 1..n |-> Entry(i)]
      /\ \A i \in 1..n : /\ sections[i].sh_name \in Nat /\ sections[i].sh_offset \in Nat
                        /\ sections[i].sh_size \in Nat
  BY <1>0, <1>1, ElfSections
<1>4. /\ DOMAIN named = 1..n
      /\ \A i \in 1..n :
           /\ named[i].name =
                ReadString(words, sections[string].sh_offset + sections[i].sh_name)
           /\ named[i].sh_offset = sections[i].sh_offset
           /\ named[i].sh_size = sections[i].sh_size
  BY <1>1, ElfNames
<1>. HIDE DEF header, Entry, sections, named
<1>5. string \in 1..n /\ Len(words) \in Nat /\ Len(names) \in Nat
  BY <1>2, <1>3, LenProperties
<1>6. \A i \in 1..n :
        /\ named[i].name = ReadString(words, Name(i))
        /\ named[i].sh_offset = Entry(i).sh_offset /\ named[i].sh_size = Entry(i).sh_size
        /\ Entry(i).sh_offset \in Nat /\ Entry(i).sh_size \in Nat
  BY <1>3, <1>4, <1>5
<1>7. \A name : Named(named, name) = Called(name)
  BY <1>4, <1>6 DEF Named
<1>8. ParsedCount(words) = Count(named, TRUE)
  BY <1>1 DEF ParsedCount, named
<1>. HIDE DEF Name
<1>9. CASE Called(SymtabName) = {}
  <2>1. count = 0 /\ names = << >>
    BY <1>2, <1>7, <1>8, <1>9 DEF Count, HasSymtab
  <2>. HIDE DEF count
  <2>2. SymbolsReadable(words, named, count)
    BY <2>1 DEF SymbolsReadable
  <2>3. symbols = << >>
    BY <2>1 DEF Symbols
  <2>. QED
    BY <2>1, <2>2, <2>3 DEF ParsedLog, ParsedSymbols, named, count
<1>10. CASE Called(SymtabName) # {}
  <2>1. PICK t \in Called(SymtabName) : Called(SymtabName) = {t}
    BY <1>2, <1>10
  <2>2. PICK s \in Called(StrtabName) :
          /\ Called(StrtabName) = {s}
          /\ TableHas(words, Entry(t).sh_offset, 6, Entry(s).sh_offset, names)
    BY <1>0, <1>2, <2>1
  <2>3. /\ t \in 1..n /\ s \in 1..n /\ t \in Nat /\ s \in Nat
        /\ Entry(t).sh_size = Len(names) * 6
        /\ Entry(t).sh_offset + Entry(t).sh_size <= Len(words)
    BY <1>0, <1>2, <1>3, <2>1, <2>2
  <2>4. /\ HasSymtab(named) /\ HasStrtab(named)
        /\ Symtab(named) = named[t] /\ Strtab(named) = named[s]
    BY <1>7, <2>1, <2>2, <2>3, OfOne DEF HasSymtab, HasStrtab, Symtab, Strtab
  <2>5. count = Len(names)
    <3>1. count = (Len(names) * 6) \div 6
      BY <1>0, <1>6, <1>8, <2>3, <2>4 DEF Count, SymbolCount
    <3>. QED
      BY <3>1, <1>5
  <2>. DEFINE start == Entry(t).sh_offset
              index(i) == words[start + (i - 1) * 6 + 1]
              indices == NameIndices(words, named, count)
  <2>6. start \in Nat /\ start + Len(names) * 6 <= Len(words)
        /\ Symtab(named).sh_offset = start /\ Strtab(named).sh_offset = Entry(s).sh_offset
    BY <1>6, <2>3, <2>4
  <2>. HIDE DEF start, count
  <2>7. ASSUME NEW i \in 1..count
        PROVE  indices[i] = index(i) /\ index(i) \in Nat
    <3>. DEFINE at == start + (i - 1) * 6
    <3>1. at \in Nat /\ at + 6 <= Len(words)
      BY <1>5, <2>5, <2>6
    <3>2. indices[i] = Slice(words, at, 6)[1]
      BY <1>0, <2>6, <3>1, <1>5 DEF NameIndices, ReadAll, SymbolSize
    <3>. HIDE DEF at
    <3>3. \A k \in 1..6 : Slice(words, at, 6)[k] = words[at + k] /\ Slice(words, at, 6)[k] \in Nat
      <4>1. PICK length \in Nat \ {0} : length = 6
        OBVIOUS
      <4>2. at + length <= Len(words)
        BY <3>1, <4>1
      <4>3. \A k \in 1..length : /\ Slice(words, at, length)[k] = words[at + k]
                                /\ Slice(words, at, length)[k] \in Nat
        BY <1>2, <3>1, <4>2, Part
      <4>. QED
        BY <4>1, <4>3
    <3>4. indices[i] = words[at + 1] /\ indices[i] \in Nat
      BY <3>2, <3>3
    <3>. QED
      BY <3>4 DEF at
  <2>8. ASSUME NEW i \in 1..count
        PROVE  IF indices[i] = 0 THEN names[i] = << >>
               ELSE /\ IsString(words, StringAt(named, indices[i]))
                    /\ names[i] = ReadString(words, StringAt(named, indices[i]))
    <3>. DEFINE at == Entry(s).sh_offset + indices[i]
    <3>0. TableHas(words, start, 6, Entry(s).sh_offset, names) /\ i \in 1..Len(names)
      BY <2>2, <2>5 DEF start
    <3>1. IF indices[i] = 0 THEN names[i] = << >>
          ELSE IsString(words, at) /\ names[i] = ReadString(words, at)
      <4>1. IF index(i) = 0 THEN names[i] = << >>
            ELSE /\ IsString(words, Entry(s).sh_offset + index(i))
                 /\ names[i] = ReadString(words, Entry(s).sh_offset + index(i))
        BY <3>0 DEF TableHas
      <4>2. indices[i] = index(i)
        BY <2>7
      <4>. HIDE DEF index, indices
      <4>. QED
        BY <4>1, <4>2
    <3>2. at \in Nat
      <4>1. Entry(s).sh_offset \in Nat /\ indices[i] \in Nat
        BY <1>6, <2>3, <2>7
      <4>. QED
        BY <4>1
    <3>3. StringAt(named, indices[i]) = at % AddressSpace
      BY <2>6 DEF StringAt
    <3>. HIDE DEF at, indices
    <3>. QED
      BY <1>2, <1>5, <3>1, <3>2, <3>3, StringInside
  <2>9. SymbolsReadable(words, named, count)
    <3>1. count > 0 => ~IsWild(words, Symtab(named).sh_offset, SymbolSize)
      BY <1>0, <1>2, <1>5, <2>5, <2>6, ReadInside DEF SymbolSize
    <3>2. \A i \in 1..count : indices[i] # 0 => IsString(words, StringAt(named, indices[i]))
      BY <2>8
    <3>. QED
      BY <3>1, <3>2 DEF SymbolsReadable
  <2>10. symbols = [i \in 1..count |-> [st_name |-> indices[i], name |-> names[i]]]
    <3>1. \A i \in 1..count :
            names[i] = IF indices[i] = 0 \/ ~HasStrtab(named) THEN << >>
                       ELSE ReadString(words, StringAt(named, indices[i]))
      BY <2>4, <2>8
    <3>2. symbols = [i \in 1..count |->
            [st_name |-> indices[i],
             name |-> IF indices[i] = 0 \/ ~HasStrtab(named) THEN << >>
                      ELSE ReadString(words, StringAt(named, indices[i]))]]
      BY DEF Symbols
    <3>. HIDE DEF indices, symbols
    <3>. QED
      BY <3>1, <3>2
  <2>. HIDE DEF indices, symbols
  <2>11. << >> \o symbols = symbols
    <3>. DEFINE S == {[st_name |-> indices[i], name |-> names[i]] : i \in 1..count}
    <3>0. \A i \in 1..count : symbols[i] \in S
      BY <2>10
    <3>. HIDE DEF S
    <3>1. symbols \in Seq(S)
      BY <1>5, <2>5, <2>10, <3>0
    <3>. QED
      BY <3>1, ConcatEmptySeq
  <2>12. ParsedSymbols(words) = symbols
    BY <2>11 DEF ParsedSymbols, symbols, named, count
  <2>13. ParsedLog(words) = [i \in 1..count |-> names[i]]
    BY <2>10, <2>12 DEF ParsedLog
  <2>14. names = [i \in 1..Len(names) |-> names[i]]
    BY <1>2
  <2>. QED
    BY <2>5, <2>9, <2>13, <2>14 DEF named, count
<1>. QED
  BY <1>9, <1>10

(* The well-formed files are ELF64 files. *)
OnlyElf64 == \A f \in Files : f.names # Unspecified => f.words[2] = ELFCLASS64

(* A well-formed file is laid out as ELF64. *)
LEMMA Elf64Files ==
  ASSUME OnlyElf64, NEW f \in Files, f.names # Unspecified
  PROVE  IsElf(Elf64, f.words, f.names)
<1>1. PICK layout \in {Elf64, Elf32} : IsElf(layout, f.words, f.names)
  BY FilesAssumption
<1>2. f.words[2] = ELFCLASS64 /\ ~Elf32.wide
  BY DEF OnlyElf64, Elf32
<1>3. layout.wide
  BY <1>1, <1>2 DEF IsElf
<1>. QED
  BY <1>1, <1>2, <1>3

(* A call that runs or has given a USYM has been given a file, and one that
   has left the buffer was not given a well-formed one. *)
SafeInv ==
  /\ pc # "idle" \/ result = "usym" => file \in Files
  /\ WellFormedIsSafe

(* A call given a well-formed ELF64 file never leaves its buffer. *)
LEMMA SafeInvariant ==
  ASSUME OnlyElf64
  PROVE  Spec => []SafeInv
<1>1. Init => SafeInv
  BY DEF Init, SafeInv, WellFormedIsSafe
<1>2. ParseInv /\ SafeInv /\ [Next]_vars => SafeInv'
  <2>. SUFFICES ASSUME ParseInv, SafeInv, [Next]_vars
                PROVE  SafeInv'
    OBVIOUS
  <2>1. CASE LoadFromFile
    <3>1. file' \in Files /\ pc' \in {"idle", "ReadFileClass"}
      BY <2>1 DEF LoadFromFile, Fail
    <3>. QED
      BY <3>1 DEF SafeInv, WellFormedIsSafe
  <2>2. CASE ReadFileClass
    BY <2>2 DEF SafeInv, WellFormedIsSafe, ReadFileClass
  <2>3. ASSUME Undefined, pc # "idle", IsIntact => FALSE
        PROVE  SafeInv'
    BY <2>3 DEF SafeInv, WellFormedIsSafe, IsIntact, Undefined
  <2>4. ASSUME ~Undefined, pc # "idle", file' = file, pc' # "undefined"
        PROVE  SafeInv'
    BY <2>4 DEF SafeInv, WellFormedIsSafe
  <2>5. ASSUME pc # "idle", IsIntact
        PROVE  IsElf(Elf64, data, file.names)
    BY <2>5, Elf64Files DEF SafeInv, IsIntact
  <2>6. Layout(TRUE) = Elf64
    BY DEF Layout
  <2>7. CASE ReadElfProgramHeader
    <3>1. pc # "idle" /\ elf.is64Bit = IsClass64(data)
      BY <2>7 DEF ParseInv, ReadElfProgramHeader
    <3>2. ASSUME Undefined, IsIntact
          PROVE  FALSE
      <4>1. /\ IsClass64(data)
            /\ ~IsWild(data, ParsedHeader(data).e_phoff, Elf64.phdr)
        BY <2>5, <3>1, <3>2, ElfParsed
      <4>2. pc' # "undefined"
        BY <2>6, <2>7, <3>1, <4>1 DEF ReadElfProgramHeader, ParsedHeader
      <4>. QED
        BY <3>2, <4>2 DEF Undefined
    <3>3. CASE ~Undefined
      <4>1. file' = file /\ pc' # "undefined"
        BY <2>7, <3>3 DEF ReadElfProgramHeader
      <4>. QED
        BY <2>4, <3>1, <3>3, <4>1
    <3>. QED
      BY <2>3, <3>1, <3>2, <3>3
  <2>8. CASE ReadSectionHeaders
    <3>1. pc # "idle" /\ elf.is64Bit = IsClass64(data) /\ elf.header = ParsedHeader(data)
      BY <2>8 DEF ParseInv, ReadSectionHeaders
    <3>2. ASSUME Undefined, IsIntact
          PROVE  FALSE
      <4>1. /\ IsClass64(data)
            /\ ParsedHeader(data).e_shnum > 0 =>
                 ~IsWild(data, ParsedHeader(data).e_shoff, Elf64.shdr)
        BY <2>5, <3>1, <3>2, ElfParsed
      <4>2. pc' # "undefined"
        BY <2>6, <2>8, <3>1, <4>1 DEF ReadSectionHeaders
      <4>. QED
        BY <3>2, <4>2 DEF Undefined
    <3>3. CASE ~Undefined
      <4>1. file' = file /\ pc' # "undefined"
        BY <2>8, <3>3 DEF ReadSectionHeaders
      <4>. QED
        BY <2>4, <3>1, <3>3, <4>1
    <3>. QED
      BY <2>3, <3>1, <3>2, <3>3
  <2>9. CASE ReadSymbols
    <3>1. /\ pc # "idle" /\ elf.is64Bit = IsClass64(data) /\ elf.header = ParsedHeader(data)
          /\ elf.sections = ParsedSections(data)
      BY <2>9 DEF ParseInv, ReadSymbols
    <3>2. ASSUME Undefined, IsIntact
          PROVE  FALSE
      <4>1. IsElf(Elf64, data, file.names)
        BY <2>5, <3>1, <3>2
      <4>2. NamesReadable(data, ParsedHeader(data), ParsedSections(data))
        BY <4>1, ElfNames
      <4>3. SymbolsReadable(data, ParsedNames(data), ParsedCount(data))
        BY <4>1, ElfSymbols
      <4>4. pc' # "undefined"
        BY <2>9, <3>1, <4>2, <4>3 DEF ReadSymbols, ParsedNames, ParsedCount, Fail
      <4>. QED
        BY <3>2, <4>4 DEF Undefined
    <3>3. CASE ~Undefined
      <4>1. file' = file /\ pc' # "undefined"
        BY <2>9, <3>3 DEF ReadSymbols, Fail
      <4>. QED
        BY <2>4, <3>1, <3>3, <4>1
    <3>. QED
      BY <2>3, <3>1, <3>2, <3>3
  <2>10. CASE Log
    BY <2>10 DEF SafeInv, WellFormedIsSafe, Log
  <2>11. CASE UNCHANGED vars
    BY <2>11 DEF SafeInv, WellFormedIsSafe, IsIntact, vars
  <2>. QED
    BY <2>1, <2>2, <2>7, <2>8, <2>9, <2>10, <2>11 DEF Next
<1>. QED
  BY <1>1, <1>2, ParseInvariant, PTL DEF Spec

(* The parser never leaves the buffer on a well-formed ELF64 file, wherever
   its tables are and whatever earlier calls left in s_elf
   (ElfEx::Parse, Reader). *)
THEOREM Elf64IsSafe ==
  ASSUME OnlyElf64
  PROVE  Spec => []WellFormedIsSafe
<1>1. SafeInv => WellFormedIsSafe
  BY DEF SafeInv
<1>. QED
  BY <1>1, SafeInvariant, PTL

(* A call for a well-formed ELF64 file logs the names of its symbols, in the
   order of its symbol table (ElfEx::ReadSymbols, CreateUsymFromFile). *)
THEOREM Elf64SymbolsAreLogged ==
  ASSUME OnlyElf64
  PROVE  Spec => []LogsTheSymbols
<1>1. SafeInv /\ ParseInv => LogsTheSymbols
  <2>. SUFFICES ASSUME SafeInv, ParseInv, result = "usym", IsIntact
                PROVE  logged = file.names
    BY DEF LogsTheSymbols
  <2>1. IsElf(Elf64, data, file.names)
    BY Elf64Files DEF SafeInv, IsIntact
  <2>. QED
    BY <2>1, ElfSymbols DEF ParseInv
<1>. QED
  BY <1>1, SafeInvariant, ParseInvariant, PTL
=============================================================================
