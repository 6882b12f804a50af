---------------------------- MODULE MCHelloWorld ----------------------------
\* A text of three characters and a heap of ten bytes, with the stack behind it.
EXTENDS HelloWorld

Hello == << 1, 2, 3 >>
Ram == 0 .. 20
=============================================================================
