-------------------------- MODULE MC_DriverManager --------------------------
EXTENDS DriverManager
=============================================================================
