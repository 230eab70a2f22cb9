----------------------------- MODULE MCCompile -----------------------------
\* A source of two chunks and objects of one.
EXTENDS Compile
=============================================================================
