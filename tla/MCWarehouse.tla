----------------------------- MODULE MCWarehouse -----------------------------
EXTENDS Warehouse

\* User "a" with "a_c" is tenant "a-a" with "c", sanitized, and also tenant "A-a" with
\* "c", in lower case; without a prefix "a_c" is "a" with "c".  User "c" shares no
\* name with either.
Users == {<<"a">>, <<"c">>}
Tenants == {<<"a", "-", "a">>}
CapitalTenants == {<<"A", "-", "a">>}
Arguments == {<<"c">>, <<"a", "_", "c">>}
LowerCase == [char \in Chars |-> IF char = "A" THEN "a" ELSE char]
=============================================================================
