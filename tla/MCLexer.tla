------------------------------ MODULE MCLexer ------------------------------
(***************************************************************************)
(* All short texts over six small alphabets, each with the characters that *)
(* one part of the lexer, or of what reads its lexemes, tells apart.       *)
(***************************************************************************)
EXTENDS Literals, SequencesExt

MCKeywordOf  == [w \in {<<"k">>, <<"a", "a">>} |-> IF w = <<"k">> THEN "If" ELSE "True"]
MCAddCall    == <<"a", "(">>
MCRemoveCall == <<"k", "a", "(">>

MCTexts == UNION {SeqOf({"a", "k", "(", ".", "9"}, 5),
                  SeqOf({Quote, Backslash, "a", "/", Newline}, 5),
                  SeqOf({Quote, "9", ".", "-"}, 5),
                  SeqOf({"9", ".", "a", Blank, "/"}, 4),
                  SeqOf({"<", ">", "=", "-", "/", "?", "9"}, 4),
                  SeqOf({"/", Newline, "?", ".", Quote}, 4)}
=============================================================================
