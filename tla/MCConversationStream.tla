------------------------ MODULE MCConversationStream ------------------------
\* One engine and its phone; the second row is a picture.
EXTENDS ConversationStream

CONSTANT e1

MCClients == {e1}
MCPictures == {2}
=============================================================================
