---- MODULE MCTopicSync ----
EXTENDS TopicSync

\* Topics 1 and 2 were made in the same second, and the id of 2 is the smaller.
MCCreated == <<1, 1, 2>>
MCName == <<2, 1, 3>>

MCCreatedTwo == <<1, 1>>
MCNameTwo == <<2, 1>>
============================
