------------------------------ MODULE MCAssembler ------------------------------
(* Small values of the constants of Assembler and Disassembler. *)
EXTENDS Disassembler

CLS == 0
JP  == 2
ADD == 7

MCFormats == {[cmd |-> CLS, kinds |-> <<>>],
              [cmd |-> JP,  kinds |-> <<"int12">>],
              [cmd |-> JP,  kinds |-> <<"v", "int12">>],
              [cmd |-> ADD, kinds |-> <<"v", "int8">>],
              [cmd |-> ADD, kinds |-> <<"i", "v">>]}

MCGarbage == {Null, Symbol("def", 0, 0), Symbol("db", 1, 0),
              Symbol("instruction", CLS, 0), Symbol("label", 9, 0)}

Def(name)  == Word("def", name)
Low(name)  == [Def(name) EXCEPT !.upper = FALSE]
Ref(name)  == Word("name", name)
Ins(cmd)   == Word("instruction", cmd)
Num(n)     == Word("number", n)
V0         == Word("register", 0)
Data(kind) == Word(kind, 0)

\* Lines a source is made of: definitions on lines of their own and not, in
\* capitals and not; references; code, right and wrong; data; lines without code.
MCLines ==
  {<<Def("A")>>, <<Low("A")>>, <<Def("B")>>, <<Def("A"), Ins(CLS)>>,
   <<Ins(JP), Ref("A")>>, <<Ins(JP), V0, Ref("B")>>, <<Ins(CLS)>>,
   <<Ins(JP)>>, <<Word("other", 0)>>, <<Data("db"), Num(1), Word("other", 0)>>,
   <<Ins(ADD), V0, Num(9)>>, <<Ins(ADD), Word("reserved", "i"), V0>>,
   <<Data("db"), Num(1)>>, <<Data("db"), Num(5)>>, <<Data("dw"), Num(33)>>,
   <<Data("db")>>, <<Data("db"), Def("B")>>, <<Data("dw"), Ref("A")>>,
   <<Word("string", 2)>>, Comment, Blank}

\* Those of which an assembled source is made.
MCPlainLines ==
  {<<Def("A")>>, <<Low("B")>>, <<Ins(JP), Ref("A")>>, <<Ins(JP), V0, Ref("B")>>,
   <<Ins(CLS)>>, <<Data("db"), Num(1)>>, <<Data("dw"), Num(33)>>,
   <<Word("string", 2)>>}

\* Sources of up to three lines of any kind, of four plain lines, of five lines of
\* data, which reach over the end of memory, and two in which the number of
\* operands or of labels is too large.
MCData == {<<Data("db"), Num(1)>>, <<Data("dw"), Num(33)>>}
MCPrograms ==
  UNION {[1..n -> MCLines] : n \in 1..3} \cup [1..4 -> MCPlainLines] \cup
  [1..5 -> MCData] \cup
  {<< <<Ins(ADD), V0, V0, V0, V0>> >>,
   << <<Def("A")>>, <<Def("B")>>, <<Def("C")>>, <<Def("D")>>, <<Ins(JP), Ref("D")>> >>}

\* Programs of up to three words, with jumps to every address of a small memory,
\* forward, backward, out of the program, twice to the same place and into words, and
\* operands of every sort.
Jump(to) == Code(JP, <<Word("address", to)>>)
MCWords == {Jump(to) : to \in {0} \cup 2..8}
             \cup {Code(JP, <<V0, Word("address", 4)>>), Code(CLS, <<>>),
                   Code(ADD, <<V0, Num(2)>>), Code(ADD, <<Word("reserved", "i"), V0>>),
                   Raw(17)}
MCRoms == {Rom(words, half) : words \in UNION {[1..n -> MCWords] : n \in 1..3},
                              half \in BOOLEAN}
================================================================================
