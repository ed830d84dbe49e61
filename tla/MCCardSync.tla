---- MODULE MCCardSync ----
EXTENDS CardSync, TLC

CONSTANTS a, b

MCCards == {a, b}
MCFocused == {a}
NoFocus == {}
============================
