------------------------------ MODULE MC_Main ------------------------------
(***************************************************************************)
(* Runs of compressmpq on the files a and b, with words of four bits.      *)
(***************************************************************************)
EXTENDS Main, Bitwise

MCXorOf(a, b) == a ^^ b
MCOrOf(a, b) == a | b
MCBlocks == {<<>>, <<9>>, <<15, 9>>}
MCListfiles == {"l"}
MCLeads == {<<>>, <<"data">>}
MCShifts == {3}
MCStrays == {[pos |-> [t \in Tables |-> HeaderWords], size |-> [ht |-> n, bt |-> 1], shift |-> 0] :
                n \in 0 .. 1}
MCHashTableName == <<0, 2, 3>>
MCBlockTableName == <<1, 1>>
MCCommands == {
    <<"a", "b">>, <<"b", "a">>, <<"x", "a">>, <<"-l", "l", "a", "a">>,
    <<"-l", "l", "a", "b">>, <<"--listfile", "l", "b", "a">>, <<"-l", "x", "a", "b">>,
    <<"-s", "0", "-l", "l", "a", "b">>, <<"--shift-size", "16", "a", "b">>,
    <<"-t", "-1", "-l", "l", "a", "b">>, <<"-t", "0", "a", "b">>, <<"--threads">>,
    <<"-c", "-i", "3", "b", "a">>, <<"-i", "-1", "a", "b">>,
    <<"--block-splitting-max", "0", "a", "b">>, <<"-h", "a", "b">>, <<"a">>}
MCPaths == UNION {{c[i] : i \in 1 .. Len(c)} : c \in MCCommands}
MCAtoi == [a \in MCPaths |-> CASE a = "-1" -> -1 [] a = "3" -> 3 [] a = "16" -> 16 [] OTHER -> 0]
=============================================================================
