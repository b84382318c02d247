---- MODULE MCHikakuApp ----
EXTENDS HikakuApp
====
