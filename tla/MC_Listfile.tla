---------------------------- MODULE MC_Listfile ----------------------------
(***************************************************************************)
(* Listfile with five files, four of whose hashes collide, names in two    *)
(* spellings, one the beginning of another, and every text of up to two    *)
(* (external) or three (internal) characters.                              *)
(***************************************************************************)
EXTENDS Listfile

MCChars == {"a", "A", "b", "l", "L", "t"}
MCKeyOf == [n \in {<<"a">>, <<"A">>, <<"b">>, <<"a", "b">>, <<"l">>, <<"L">>, <<"t">>} |->
    CASE n \in {<<"a">>, <<"A">>} -> 5
      [] n = <<"b">> -> 1
      [] n = <<"a", "b">> -> 13
      [] n \in {<<"l">>, <<"L">>} -> 9
      [] n = <<"t">> -> 3]
MCListName == <<"l">>
MCAttrName == <<"t">>
MCArchives == {keys \in SUBSET {1, 3, 5, 9, 13} : Cardinality(keys) <= HtSize}
MCTexts(n) == UNION {[1 .. m -> {"a", "b", "L", Delim}] : m \in 0 .. n}
MCExternals == {NoText} \union MCTexts(2)
MCInternals == {NoText} \union MCTexts(3)
=============================================================================
