----------------------------- MODULE MCAccount -----------------------------
(* The roles of the instance: ids around the limit and names that look like  *)
(* ids, with quotes and backslashes before the digits.                       *)
EXTENDS Account

MCRids   == {Number(<<"7", "1">>), Number(<<"7", "1", "7">>), Number(<<"-", "1", "7">>),
             Number(<<"-", "1", "7", "1">>)}
MCNames  == {Str(<<>>), Str(<<"a">>), Str(<<"7", "7", "7">>), Str(<<"quote", "7", "7", "7">>),
             Str(<<"bslash", "quote", "bslash">>)}
MCFloats == {Number(<<"1", ".", "7", "7", "7">>), Number(<<"1", "e", "-", "7", "7", "7">>)}

MCRoleDocs == {<<n, r, f>> : n \in MCNames, r \in MCRids, f \in MCFloats}
=============================================================================
