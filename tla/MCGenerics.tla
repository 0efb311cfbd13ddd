----------------------------- MODULE MCGenerics -----------------------------
EXTENDS Generics, MCPrograms
=============================================================================
