----------------------------- MODULE MCExecution -----------------------------
(* Instance of Execution for TLC: a post with its comments and their        *)
(* replies, two posts and a comment, a comment beside the previews, and a   *)
(* mutation of three fields.                                                *)
EXTENDS Execution, TLC

Sel(parent, type, name, place) == [parent |-> parent, type |-> type, field |-> name, place |-> place]

PostWithReplies ==
  [kind |-> "Query",
   selection |->
     ("post" :> Sel(Root, "Query", "post", 1)) @@
     ("post.comments" :> Sel("post", "Post", "comments", 1)) @@
     ("post.comments.edges" :> Sel("post.comments", "CommentConnection", "edges", 1)) @@
     ("post.comments.edges.0" :> Sel("post.comments.edges", "CommentEdges", "element", 1)) @@
     ("post.comments.edges.0.node" :> Sel("post.comments.edges.0", "CommentEdge", "node", 1)) @@
     ("post.comments.edges.0.node.replies" :>
        Sel("post.comments.edges.0.node", "Comment", "replies", 1)) @@
     ("post.comments.edges.1" :> Sel("post.comments.edges", "CommentEdges", "element", 2)) @@
     ("post.comments.edges.1.node" :> Sel("post.comments.edges.1", "CommentEdge", "node", 1)) @@
     ("post.comments.edges.1.node.replies" :>
        Sel("post.comments.edges.1.node", "Comment", "replies", 1))]

PostsAndComment ==
  [kind |-> "Query",
   selection |->
     ("a" :> Sel(Root, "Query", "post", 1)) @@
     ("a.comments" :> Sel("a", "Post", "comments", 1)) @@
     ("b" :> Sel(Root, "Query", "post", 2)) @@
     ("b.comments" :> Sel("b", "Post", "comments", 1)) @@
     ("c" :> Sel(Root, "Query", "comment", 3)) @@
     ("c.replies" :> Sel("c", "Comment", "replies", 1))]

CommentAndPreviews ==
  [kind |-> "Query",
   selection |->
     ("comment" :> Sel(Root, "Query", "comment", 1)) @@
     ("comment.parentID" :> Sel("comment", "Comment", "parentID", 1)) @@
     ("comment.replies" :> Sel("comment", "Comment", "replies", 2)) @@
     ("comment.replies.pageInfo" :> Sel("comment.replies", "CommentConnection", "pageInfo", 1)) @@
     ("comment.replies.pageInfo.endCursor" :> Sel("comment.replies.pageInfo", "PageInfo", "endCursor", 1)) @@
     ("posts" :> Sel(Root, "Query", "posts", 2)) @@
     ("posts.edges" :> Sel("posts", "PostPreviewConnection", "edges", 1)) @@
     ("posts.edges.0" :> Sel("posts.edges", "PostPreviewEdges", "element", 1)) @@
     ("posts.edges.0.cursor" :> Sel("posts.edges.0", "PostPreviewEdge", "cursor", 1))]

ThreeChanges ==
  [kind |-> "Mutation",
   selection |->
     ("add" :> Sel(Root, "Mutation", "addComment", 1)) @@
     ("add.replies" :> Sel("add", "Comment", "replies", 1)) @@
     ("delete" :> Sel(Root, "Mutation", "deleteComment", 2)) @@
     ("close" :> Sel(Root, "Mutation", "setPostCommentsEnabled", 3)) @@
     ("close.comments" :> Sel("close", "Post", "comments", 1)) @@
     ("close.comments.edges" :> Sel("close.comments", "CommentConnection", "edges", 1))]

AllOperations == {PostWithReplies, PostsAndComment, CommentAndPreviews, ThreeChanges}
AllLoads ==
  UNION {{n \in DOMAIN o.selection : o.selection[n].field \in {"comments", "replies"}} :
           o \in AllOperations}
RefusedLoads == {"b.comments"}
==============================================================================
