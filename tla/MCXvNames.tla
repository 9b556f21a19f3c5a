----------------------------- MODULE MCXvNames ------------------------------
(* XvNames for TLC: the calls of two small programs. *)
EXTENDS XvNames

Root(n) == [abs |-> TRUE, elems |-> <<n>>]
Do(kind, n) == [kind |-> kind, path |-> Root(n), new |-> Root(n)]

\* A file is opened and removed.
OpenRemove == {Do("open", "a"), Do("unlink", "a")}

\* linkunlink of usertests.c: x is created, made another name of a file that
\* there is, or removed.
LinkUnlink == {Do("create", "x"), Do("unlink", "x"), [kind |-> "link", path |-> Root("a"), new |-> Root("x")]}

\* iputtest of usertests.c, with a file created after unlink: a directory is
\* made, entered, removed and left.
RemoveCurrent == {Do("mkdir", "d"), Do("chdir", "d"), Do("unlink", "d"), Do("chdir", "."),
                  [kind |-> "create", path |-> [abs |-> FALSE, elems |-> <<"b">>], new |-> Root("b")]}
=============================================================================
