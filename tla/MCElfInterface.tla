--------------------------- MODULE MCElfInterface ---------------------------
(***************************************************************************)
(* ELF files for TLC, laid out as ELF.h says: header, program header,      *)
(* section names, symbols, strings, and section headers before or after.   *)
(***************************************************************************)
EXTENDS ElfInterface, TLC

CONSTANTS Layouts  \* of the files: Elf64, Elf32 or both

Struct(length, fields) ==
  [i \in 1..length |-> IF i - 1 \in DOMAIN fields THEN fields[i - 1] ELSE 0]

(* The strings of the section names and of the symbols. *)
SectionNames == <<0, SymtabName, StrtabName, 18>>
Strings == <<0, 31, 32, 34>>

SymbolName(index) == CASE index = 0 -> << >> [] index = 1 -> <<31, 32>>
                       [] index = 2 -> <<32>> [] index = 3 -> <<34>>

(* order: which section is at which index; symbols: indices of their names;
   first: the section headers come before what they describe.  What is not
   read is not zero. *)
Image(l, order, symbols, first) ==
  LET after == l.ehdr + l.phdr
      shsize == l.shdr * Len(order)
      names == after + IF first THEN shsize ELSE 0
      table == names + 4
      tableSize == l.sym * Len(symbols)
      strings == table + tableSize
      Entry(name, offset, size) ==
        Struct(l.shdr, 0 :> name @@ l.offset :> offset @@ l.size :> size)
      section == [null |-> Entry(0, 0, 0),
                  shstrtab |-> Entry(3, names, 4),
                  strtab |-> Entry(2, strings, 4),
                  symtab |-> Entry(1, table, tableSize)]
      index == CHOOSE i \in 1..Len(order) : order[i] = "shstrtab"
      header == Struct(l.ehdr, 1 :> (IF l.wide THEN 2 ELSE 1) @@ l.phoff :> l.ehdr
                  @@ l.shoff :> (IF first THEN after ELSE strings + 4)
                  @@ l.counts :> (Len(order) + Half * (index - 1)))
      entriesOfTable == FlattenSeq([i \in 1..Len(symbols) |->
                  <<symbols[i]>> \o [j \in 1..(l.sym - 1) |-> 2]])
      contents == SectionNames \o entriesOfTable \o Strings
      entries == FlattenSeq([i \in 1..Len(order) |-> section[order[i]]])
  IN  header \o Struct(l.phdr, 0 :> 1)
      \o IF first THEN entries \o contents ELSE contents \o entries

Orders == {<<"null", "symtab", "strtab", "shstrtab">>,
           <<"null", "shstrtab", "strtab", "symtab">>,
           <<"null", "shstrtab">>}

SymbolLists == {<< >>, <<0>>, <<0, 2>>, <<0, 1, 3>>}

Good(words, names, reads) ==
  [status |-> "good", words |-> words, names |-> names, reads |-> reads]

File(l, order, symbols, first) ==
  Good(Image(l, order, symbols, first),
       IF Len(order) = 2 THEN << >>
       ELSE [i \in DOMAIN symbols |-> SymbolName(symbols[i])],
       {Len(Image(l, order, symbols, first)), 20, 70})

WellFormed ==
  {File(l, order, symbols, first) :
     l \in Layouts, order \in Orders, symbols \in SymbolLists, first \in BOOLEAN}

(* Files cut off while they were copied, and two with a damaged word: the
   size of the symbol table, and the offset of the section headers. *)
Damaged ==
  LET order == <<"null", "symtab", "strtab", "shstrtab">>
      words(first) == Image(Elf64, order, <<0, 1, 3>>, first)
      last == words(FALSE)
      Whole(w) == Good(w, Unspecified, {Len(w)})
  IN  {Whole(SubSeq(words(first), 1, n)) :
         first \in BOOLEAN, n \in {0, 1, 10, 20, 32, 40, 80, 95, 98, 105, 117}}
      \cup {Whole([last EXCEPT ![Len(last) - 64 + 16 + 10] = 1]),
            Whole([last EXCEPT ![11] = Word - 1, ![12] = Word - 1])}

Unavailable ==
  {[status |-> s, words |-> << >>, names |-> Unspecified, reads |-> {0}] :
     s \in {"missing", "unreadable"}}

MCFiles == WellFormed \cup Damaged \cup Unavailable

JustElf64 == {Elf64}
JustElf32 == {Elf32}
=============================================================================
