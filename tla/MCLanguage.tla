------------------------------ MODULE MCLanguage ------------------------------
EXTENDS Language

bq == Backquote
Keys(chunks, n) == [chunks |-> chunks, length |-> n]
Singles(chars) == {<<c>> : c \in chars}

\* Lexing and nesting, one character at a time.
Characters == Keys(Singles({"1", "a", "$", "\\", ".", "[", ":", "=", " ", "#", "~", bq}), 4)
Texts == Keys(Singles({"1", ".", "$", "\\", "#", "\n"}), 6)
Brackets == Keys(Singles({"[", "]", "1", "=", " "}), 6)

\* Programs, a few tokens at a time.
Chars(s) == [i \in 1 .. Len(s) |-> SubSeq(s, i, i)]
Tokens(words, n) == Keys({Chars(w) : w \in words}, n)
Moves ==
    Tokens({"1 :a ", "a ", "'a ", "[", "] ", "@ ", "ty "}, 7)
Grants ==
    Keys({Chars(w) : w \in {"[", "] ", "gr ", "rq ", "tm ", ", ", "[tm] ", "ty "}}
         \cup {<<bq, "c", " ">>}, 6)
Words ==
    Tokens({"1 ", "[", "] ", "$f$ wd ", "f ", ", ", "ts ", "=pp "}, 6)
Matches ==
    Tokens({"1 ", "[1] ", "[,] ", "ty ", "[[ok] [.] [err] [.]] ", "[[any] [ty]] ",
            "[[1] [=]] ", "[[res] [] 1 []] ", "?? ", ". "}, 5)
Blocks ==
    Tokens({"1 ", "[", "] ", "+ ", "_ ", "; ", "? ", "@ ", "= ", ". "}, 6)
Loops ==
    Tokens({"1 ", "7 ", "[=] ", "[1 _+] ", "+ ", "*_ ", "; ", "? ", "@ ", "= ", "\\ ", "==", "mx ", ". "}, 5)

Compares ==
    Tokens({"5 ", "4 ", "[1] ty ", "== ", "mx ", "[", "] ty ", "[[4] [] $a$ []] ?? ", "[0] [] ; ", ". "}, 5)

MCKeyboards ==
    {Characters, Texts, Brackets, Moves, Grants, Words, Matches, Blocks, Loops, Compares}
MCBuiltins == {"ty", "gr", "gd", "rq", "hv", "tm", "dp", "ts", "pp", "wd", "mx", "mn"}
=============================================================================
