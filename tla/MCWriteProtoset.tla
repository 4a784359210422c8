--------------------------- MODULE MCWriteProtoset ---------------------------
(***************************************************************************)
(* Small instances of Listings for TLC: three file names, every import     *)
(* graph over them with up to two imports a file, circles and missing files*)
(* included, and two servers whose files may differ from those given.      *)
(***************************************************************************)
EXTENDS Listings

MCNames == {"a", "b", "c"}
MCNameOrder == <<"a", "b", "c">>

Imported == {<<>>} \cup {<<n>> : n \in MCNames}
              \cup {<<m, n>> : m, n \in MCNames}

File(n, deps) == [name |-> n, deps |-> deps]

\* The last kind holds one name twice, as two protosets may.
MCProtosets ==
    {<<>>}
    \cup {<<File("b", p), File("a", q)>> : p, q \in Imported}
    \cup {<<File("c", p), File("a", q), File("b", r)>> : p, q, r \in Imported}
    \cup {<<File("a", p), File("b", <<>>), File("a", q)>> : p, q \in Imported}

MCServers ==
    {<<>>,
     <<File("a", <<>>), File("b", <<"a">>), File("c", <<"a", "b">>)>>,
     <<File("c", <<>>), File("b", <<"c">>), File("a", <<"b", "c">>)>>}
===============================================================================
