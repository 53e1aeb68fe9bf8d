---------------------------- MODULE MCSshConfig ----------------------------
(***************************************************************************)
(* The config files SshConfig's runs start from, up to a number of lines.  *)
(***************************************************************************)
EXTENDS SshConfig

CONSTANTS MaxLines,   \* of a file at first
          a, b        \* the two names

(* Every kind of line, up to one less than that ...                        *)
AllKinds == {Host({a}), Host({b}), Host({a, b}), Match({}), Match({a}),
             Fly("id1"), Fly("id2"), Wrapped, Mention, Proxy, Option, Blank}

(* ... and at most that many of those that shape the blocks.               *)
FewKinds == {Host({a}), Host({b}), Match({a}), Fly("id1"), Proxy, Blank}

Short(n) == UNION {[1..m -> AllKinds] : m \in 0..n}

LineSeqs == Short(MaxLines - 1) \cup [1..MaxLines -> FewKinds]

(* Shorter ones with a line in CRLF, or without the last newline.          *)
OddFiles ==
    {f \in [here : {TRUE}, lines : Short(MaxLines - 2) \ {<<>>}, nl : BOOLEAN, crlf : BOOLEAN] :
        f.nl = f.crlf /\ (f.nl \/ Last(f.lines) # Blank)}

AllFiles == {NoFile} \cup {File(lines, TRUE) : lines \in LineSeqs} \cup OddFiles

(* Four blocks of the user's: one for two names, one for each of them, and *)
(* one whose ProxyCommand only mentions pigeons.  Only `a` may be edited:  *)
(* the block of `b` is an error.                                           *)
TakenFiles ==
    {File(<<Host({a, b}), Proxy, Host({b}), Proxy, Host({a}), Proxy, Host({a}), Mention>>, TRUE)}

(* One block of the user's.                                                *)
UserFiles == {File(<<Host({b}), Option>>, TRUE)}

(* The invocations are alike.                                              *)
Alike == Permutations(Runs)
=============================================================================
